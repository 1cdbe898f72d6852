---------------------------- MODULE PolicyService -----------------------------
(***************************************************************************)
(* PolicyService with its loader and its hot reloader: two threads that    *)
(* read policy files outside the lock and publish what they read under it. *)
(*   "api"      the event-loop thread: reload_all at startup, then the     *)
(*              reload_one and reload_all of POST /policies/reload, one at *)
(*              a time because the handlers do not await;                  *)
(*   "watcher"  the watchdog observer thread: one callback per queued file *)
(*              event, reload_one of the file's stem.                      *)
(* Around them, the policy directory, edited by somebody else, and the     *)
(* event queue watchdog fills (both external).  The directory may be       *)
(* missing at first: nothing is loaded then and nothing is ever watched.   *)
(***************************************************************************)
EXTENDS Naturals, Sequences, FiniteSets, FiniteSetsExt

CONSTANTS
    Stems,            \* file names without .yaml, in the order of sorted()
    PolicyIds,
    DeclaredIds,      \* values of the id key, None when the key is missing
    Edits,            \* ways files are edited, see below
    EditPhases,       \* phases of the service in which files are edited
    FinalForms,       \* forms a file is left in
    DirectoryAtFirst, \* whether the directory exists in the beginning
    MaxEdits,         \* bound on the number of edits
    MaxReloads,       \* bound on the number of reload requests
    None

VARIABLES
    directory,        \* self._dir.exists()
    disk,             \* content of each file, None when there is no file
    saving,           \* files whose save is half done, with the final content
    edits,            \* number of edits so far; stamps the next content
    events,           \* watchdog's queue of file events
    phase,            \* lifecycle of the service
    thread,           \* locals of the two threads
    reloads,          \* number of reload requests so far
    undisturbed,      \* no file has changed since "api" began its reload
    cache, heap       \* published policies, see PolicyRegistry

env == <<directory, disk, saving, edits, events>>
vars == <<directory, disk, saving, edits, events, phase, thread, reloads,
          undisturbed, cache, heap>>

Files == {Stems[k] : k \in 1 .. Len(Stems)}

\* What a file holds: the id it declares, the number of the edit that wrote
\* it, and its form: a whole document, a prefix of one that still parses and
\* validates, a text the loader refuses, or one that cannot be read as UTF-8.
Forms == {"whole", "prefix", "invalid", "unreadable"}

Contents == [id : DeclaredIds, edit : Nat, form : Forms]

ASSUME StemsAssumption ==
    /\ Stems \in Seq(PolicyIds)
    /\ \A j, k \in 1 .. Len(Stems) : Stems[j] = Stems[k] => j = k
    /\ DeclaredIds \subseteq PolicyIds \cup {None}
    /\ FinalForms \subseteq Forms
    /\ DirectoryAtFirst \subseteq BOOLEAN
    /\ MaxEdits \in Nat
    /\ MaxReloads \in Nat

\* The Policy made of it.
Objects == [id : PolicyIds, file : Files, edit : Nat, form : {"whole", "prefix"}]

Registry == INSTANCE PolicyRegistry

Threads == {"api", "watcher"}

\* pc: idle, open (before exists()), read (before read_text()), commit.
\* op: "one" is reload_one(stem), "all" is reload_all() with the files still
\* to load in todo, by their places in Stems, and the policies loaded so far
\* in acc.
Idle == [pc |-> "idle", op |-> None, stem |-> None, todo |-> {}, acc |-> <<>>]

OneBegun(stem) ==
    [pc |-> "open", op |-> "one", stem |-> stem, todo |-> {}, acc |-> <<>>]

Content(id, edit, form) == [id |-> id, edit |-> edit, form |-> form]

Init ==
    /\ directory \in DirectoryAtFirst
    /\ disk \in [Files -> {None} \cup
                 {Content(id, 0, form) : id \in DeclaredIds, form \in FinalForms}]
    /\ ~directory => \A f \in Files : disk[f] = None
    /\ saving = [f \in Files |-> None]
    /\ edits = 0
    /\ events = <<>>
    /\ phase = "down"
    /\ thread = [t \in Threads |-> Idle]
    /\ reloads = 0
    /\ undisturbed = TRUE
    /\ Registry!Init

-----------------------------------------------------------------------------
(***************************************************************************)
(* The policy directory and watchdog.  An event reaches the handler for a  *)
(* file created or modified in place; the handler has no on_moved and no   *)
(* on_deleted.  The queue drops an event equal to the last one waiting.    *)
(***************************************************************************)
\* Slip: an event for the file whose callback is running is dropped.
Notify_DroppedWhileBusy(kind, f) ==
    events' = IF phase # "running" \/ thread["watcher"].stem = f
              THEN events ELSE Append(events, [kind |-> kind, file |-> f])
Notify(kind, f) ==
    events' = IF \/ phase # "running"
                 \/ events # <<>> /\ events[Len(events)] = [kind |-> kind, file |-> f]
              THEN events ELSE Append(events, [kind |-> kind, file |-> f])

MayEdit(f) ==
    /\ directory
    /\ phase \in EditPhases
    /\ saving[f] = None
    /\ edits < MaxEdits
    /\ edits' = edits + 1
    /\ undisturbed' = FALSE

(***************************************************************************)
(* BeginSave: an editor opens the file for writing and truncates it; the   *)
(* first part written may already be a document the loader accepts.        *)
(***************************************************************************)
BeginSave(f, id, first, final) ==
    /\ "in_place" \in Edits
    /\ MayEdit(f)
    /\ disk' = [disk EXCEPT ![f] = Content(id, edits + 1, first)]
    /\ saving' = [saving EXCEPT ![f] = Content(id, edits + 1, final)]
    /\ Notify(IF disk[f] = None THEN "created" ELSE "modified", f)
    /\ UNCHANGED <<directory, phase, thread, reloads, cache, heap>>

(***************************************************************************)
(* EndSave: the rest of the file is written.                               *)
(***************************************************************************)
EndSave(f) ==
    /\ saving[f] # None
    /\ disk' = [disk EXCEPT ![f] = saving[f]]
    /\ saving' = [saving EXCEPT ![f] = None]
    /\ undisturbed' = FALSE
    /\ Notify("modified", f)
    /\ UNCHANGED <<directory, edits, phase, thread, reloads, cache, heap>>

(***************************************************************************)
(* RenameOver: a temporary file of the same directory is renamed onto f;   *)
(* watchdog reports a move, which the handler ignores.                     *)
(***************************************************************************)
RenameOver(f, id) ==
    /\ "rename" \in Edits
    /\ MayEdit(f)
    /\ disk' = [disk EXCEPT ![f] = Content(id, edits + 1, "whole")]
    /\ UNCHANGED <<directory, saving, events, phase, thread, reloads, cache, heap>>

(***************************************************************************)
(* Remove: the file is deleted; the handler ignores that event too.        *)
(***************************************************************************)
Remove(f) ==
    /\ "remove" \in Edits
    /\ disk[f] # None
    /\ MayEdit(f)
    /\ disk' = [disk EXCEPT ![f] = None]
    /\ UNCHANGED <<directory, saving, events, phase, thread, reloads, cache, heap>>

(***************************************************************************)
(* MakeDirectory: somebody creates the missing policy directory.           *)
(***************************************************************************)
MakeDirectory ==
    /\ ~directory
    /\ phase \in EditPhases
    /\ directory' = TRUE
    /\ undisturbed' = FALSE
    /\ UNCHANGED <<disk, saving, edits, events, phase, thread, reloads, cache, heap>>

Edit ==
    \/ MakeDirectory
    \/ \E f \in Files :
           \/ \E id \in DeclaredIds, first \in {"prefix", "invalid"},
                 final \in FinalForms : BeginSave(f, id, first, final)
           \/ \E id \in DeclaredIds : RenameOver(f, id)
           \/ Remove(f)

-----------------------------------------------------------------------------
(***************************************************************************)
(* Beginnings of an operation.                                             *)
(***************************************************************************)
\* sorted(directory.glob("*.yaml"))
Listing == {k \in 1 .. Len(Stems) : disk[Stems[k]] # None}

\* reload_all returns at once when there is no directory.
AllBegun ==
    IF ~directory THEN Idle
    ELSE [pc |-> IF Listing = {} THEN "commit" ELSE "open", op |-> "all",
          stem |-> None, todo |-> Listing, acc |-> <<>>]

\* startup: reload_all before the watcher exists
Startup ==
    /\ phase = "down"
    /\ phase' = "loading"
    /\ thread' = [thread EXCEPT !["api"] = AllBegun]
    /\ undisturbed' = TRUE
    /\ UNCHANGED <<env, reloads, cache, heap>>

\* startup: self._reloader.start(), if there is a directory by now
StartWatcher ==
    /\ phase = "loading"
    /\ thread["api"].pc = "idle"
    /\ phase' = IF directory THEN "running" ELSE "unwatched"
    /\ UNCHANGED <<env, thread, reloads, undisturbed, cache, heap>>

MayReload ==
    /\ phase \in {"running", "unwatched"}
    /\ thread["api"].pc = "idle"
    /\ reloads < MaxReloads
    /\ reloads' = reloads + 1

\* POST /policies/reload with a policy id
ReloadOne(stem) ==
    /\ MayReload
    /\ thread' = [thread EXCEPT !["api"] = OneBegun(stem)]
    /\ UNCHANGED <<env, phase, undisturbed, cache, heap>>

\* POST /policies/reload without one
ReloadAll ==
    /\ MayReload
    /\ thread' = [thread EXCEPT !["api"] = AllBegun]
    /\ undisturbed' = TRUE
    /\ UNCHANGED <<env, phase, cache, heap>>

(***************************************************************************)
(* OnFileChange: the observer thread takes the next event and calls        *)
(* _on_file_change with its path.                                          *)
(***************************************************************************)
OnFileChange ==
    /\ phase = "running"
    /\ thread["watcher"].pc = "idle"
    /\ events # <<>>
    /\ events' = Tail(events)
    /\ thread' = [thread EXCEPT !["watcher"] = OneBegun(Head(events).file)]
    /\ UNCHANGED <<directory, disk, saving, edits, phase, reloads, undisturbed,
                   cache, heap>>

\* shutdown stops the observer; a callback that is running is not interrupted.
Shutdown ==
    /\ phase \in {"running", "unwatched"}
    /\ thread["api"].pc = "idle"
    /\ phase' = "stopped"
    /\ UNCHANGED <<env, thread, reloads, undisturbed, cache, heap>>

-----------------------------------------------------------------------------
(***************************************************************************)
(* PolicyLoader, step by step in thread t.                                 *)
(***************************************************************************)
Target(t) ==
    IF thread[t].op = "all" THEN Stems[Min(thread[t].todo)] ELSE thread[t].stem

\* raw.setdefault("id", path.stem)
\* Slip: the default is forgotten.
IdOf_NoDefault(f) == disk[f].id
IdOf(f) == IF disk[f].id = None THEN f ELSE disk[f].id

Parsed(f) == [id |-> IdOf(f), file |-> f, edit |-> disk[f].edit,
              form |-> disk[f].form]

\* policies[policy.id] = policy: a dict keeps the place of a repeated key.
\* Slip: the first file to claim an id keeps it.
Add_FirstWins(acc, p) ==
    IF \E k \in 1 .. Len(acc) : acc[k].id = p.id THEN acc ELSE Append(acc, p)
Add(acc, p) ==
    IF \E k \in 1 .. Len(acc) : acc[k].id = p.id
    THEN [k \in 1 .. Len(acc) |-> IF acc[k].id = p.id THEN p ELSE acc[k]]
    ELSE Append(acc, p)

\* The thread goes on to the next file of a listing, or gives up reload_one.
AfterFile(l, acc) ==
    IF l.op = "one" THEN Idle
    ELSE LET rest == l.todo \ {Min(l.todo)}
         IN  [l EXCEPT !.pc = IF rest = {} THEN "commit" ELSE "open",
                       !.todo = rest, !.acc = acc]

(***************************************************************************)
(* Open: path.exists().  A missing file is PolicyNotFoundError: skipped in *)
(* a listing, the end of reload_one.                                       *)
(***************************************************************************)
Open(t) ==
    /\ thread[t].pc = "open"
    /\ thread' = [thread EXCEPT ![t] =
          IF disk[Target(t)] = None THEN AfterFile(@, @.acc)
                                    ELSE [@ EXCEPT !.pc = "read"]]
    /\ UNCHANGED <<env, phase, reloads, undisturbed, cache, heap>>

IsReadable(f) == disk[f] # None /\ disk[f].form # "unreadable"

(***************************************************************************)
(* ReadFails: the file is gone between exists() and read_text(), or is not *)
(* UTF-8.  What read_text raises is not a policy error, so it ends the     *)
(* whole operation; at startup it ends the application.                    *)
(***************************************************************************)
ReadFails(t) ==
    /\ thread[t].pc = "read"
    /\ ~IsReadable(Target(t))
    /\ thread' = [thread EXCEPT ![t] = Idle]
    /\ phase' = IF phase = "loading" THEN "failed" ELSE phase
    /\ UNCHANGED <<env, reloads, undisturbed, cache, heap>>

\* Slip: reload_one of a file that does not validate drops its policy.
ReadInvalid_Evicts(t) ==
    /\ thread[t].pc = "read"
    /\ IsReadable(Target(t))
    /\ disk[Target(t)].form = "invalid"
    /\ thread' = [thread EXCEPT ![t] = AfterFile(@, @.acc)]
    /\ cache' = IF thread[t].op = "one"
                THEN [cache EXCEPT ![Target(t)] = Registry!Absent] ELSE cache
    /\ UNCHANGED <<env, phase, reloads, undisturbed, heap>>

(***************************************************************************)
(* ReadInvalid: PolicyInvalidError, skipped in a listing.                  *)
(***************************************************************************)
ReadInvalid(t) ==
    /\ thread[t].pc = "read"
    /\ IsReadable(Target(t))
    /\ disk[Target(t)].form = "invalid"
    /\ thread' = [thread EXCEPT ![t] = AfterFile(@, @.acc)]
    /\ UNCHANGED <<env, phase, reloads, undisturbed, cache, heap>>

(***************************************************************************)
(* ReadValid: the text is read, parsed and validated.                      *)
(***************************************************************************)
ReadValid(t) ==
    /\ thread[t].pc = "read"
    /\ IsReadable(Target(t))
    /\ disk[Target(t)].form # "invalid"
    /\ thread' = [thread EXCEPT ![t] =
          IF @.op = "one"
          THEN [@ EXCEPT !.pc = "commit", !.acc = <<Parsed(Target(t))>>]
          ELSE AfterFile(@, Add(@.acc, Parsed(Target(t))))]
    /\ UNCHANGED <<env, phase, reloads, undisturbed, cache, heap>>

(***************************************************************************)
(* CommitOne, CommitAll: what was read is published under the lock.        *)
(***************************************************************************)
\* Slip: the policy is stored under the name of its file.
CommitOne_ByStem(t) ==
    /\ thread[t].pc = "commit"
    /\ thread[t].op = "one"
    /\ heap' = Append(heap, thread[t].acc[1])
    /\ cache' = [cache EXCEPT ![thread[t].stem] = Len(heap) + 1]
    /\ thread' = [thread EXCEPT ![t] = Idle]
    /\ UNCHANGED <<env, phase, reloads, undisturbed>>
\* Slip: the object that requests may be holding is brought up to date.
CommitOne_InPlace(t) ==
    LET p == thread[t].acc[1]
    IN  /\ thread[t].pc = "commit"
        /\ thread[t].op = "one"
        /\ IF Registry!IsCached(p.id)
           THEN heap' = [heap EXCEPT ![cache[p.id]] = p] /\ UNCHANGED cache
           ELSE Registry!Publish(p)
        /\ thread' = [thread EXCEPT ![t] = Idle]
        /\ UNCHANGED <<env, phase, reloads, undisturbed>>
CommitOne(t) ==
    /\ thread[t].pc = "commit"
    /\ thread[t].op = "one"
    /\ Registry!Publish(thread[t].acc[1])
    /\ thread' = [thread EXCEPT ![t] = Idle]
    /\ UNCHANGED <<env, phase, reloads, undisturbed>>

CommitAll(t) ==
    /\ thread[t].pc = "commit"
    /\ thread[t].op = "all"
    /\ Registry!PublishAll(thread[t].acc)
    /\ thread' = [thread EXCEPT ![t] = Idle]
    /\ UNCHANGED <<env, phase, reloads, undisturbed>>

Step(t) ==
    \/ Open(t)
    \/ ReadFails(t)
    \/ ReadInvalid(t)
    \/ ReadValid(t)
    \/ CommitOne(t)
    \/ CommitAll(t)

-----------------------------------------------------------------------------
Next ==
    \/ Edit
    \/ \E f \in Files : EndSave(f)
    \/ Startup
    \/ StartWatcher
    \/ \E stem \in Files : ReloadOne(stem)
    \/ ReloadAll
    \/ OnFileChange
    \/ Shutdown
    \/ \E t \in Threads : Step(t)

(***************************************************************************)
(* The operating system runs both threads, the application starts, a save  *)
(* that was begun ends.  Nobody has to edit, to reload or to shut down.    *)
(***************************************************************************)
Fairness ==
    /\ \A t \in Threads : WF_vars(Step(t))
    /\ WF_vars(OnFileChange)
    /\ WF_vars(Startup)
    /\ WF_vars(StartWatcher)
    /\ \A f \in Files : WF_vars(EndSave(f))

Spec == Init /\ [][Next]_vars /\ Fairness

-----------------------------------------------------------------------------
(***************************************************************************)
(* Properties                                                              *)
(***************************************************************************)
\* Types of the directory, the queue, the threads and the registry.
TypeOK ==
    /\ directory \in BOOLEAN
    /\ disk \in [Files -> Contents \cup {None}]
    /\ saving \in [Files -> Contents \cup {None}]
    /\ edits \in 0 .. MaxEdits
    /\ events \in Seq([kind : {"created", "modified"}, file : Files])
    /\ phase \in {"down", "loading", "running", "unwatched", "failed",
                 "stopped"}
    /\ thread \in [Threads ->
          [pc : {"idle", "open", "read", "commit"}, op : {None, "one", "all"},
           stem : Files \cup {None}, todo : SUBSET (1 .. Len(Stems)), acc : Seq(Objects)]]
    /\ reloads \in 0 .. MaxReloads
    /\ undisturbed \in BOOLEAN
    /\ Registry!TypeOK

(***************************************************************************)
(* Whatever ids the files declare and however the two threads interleave,  *)
(* the policy an id names is one that declares that id.                    *)
(***************************************************************************)
KeyedById == Registry!KeyedById

(***************************************************************************)
(* The service implements the registry: every step publishes one whole     *)
(* policy or a whole directory, or nothing, and no published object is     *)
(* ever changed (policy.py:86-87, 99-100).                                 *)
(***************************************************************************)
ImplementsRegistry == Registry!Spec

\* What load_directory should return for the directory as it stands: for each
\* id, the last file in order that holds a valid document with that id.
ValidFiles(i) ==
    {k \in 1 .. Len(Stems) :
        /\ disk[Stems[k]] # None
        /\ disk[Stems[k]].form \in {"whole", "prefix"}
        /\ (IF disk[Stems[k]].id = None THEN Stems[k] ELSE disk[Stems[k]].id) = i}

WinnerOf(i) ==
    Stems[CHOOSE k \in ValidFiles(i) : \A j \in ValidFiles(i) : j <= k]

(***************************************************************************)
(* A reload_all during which no file changed is about to publish exactly   *)
(* one policy per id some valid file declares, the last such file's: a bad *)
(* file neither hides the others nor takes their place (loader.py:57-72).  *)
(***************************************************************************)
ReloadAllExact ==
    LET l == thread["api"]
    IN  (l.op = "all" /\ l.pc = "commit" /\ undisturbed) =>
          \A i \in PolicyIds :
              LET found == {k \in 1 .. Len(l.acc) : l.acc[k].id = i}
              IN  IF ValidFiles(i) = {} THEN found = {}
                  ELSE /\ Cardinality(found) = 1
                       /\ \A k \in found :
                             /\ l.acc[k].file = WinnerOf(i)
                             /\ l.acc[k].edit = disk[WinnerOf(i)].edit

(***************************************************************************)
(* Only a reload_all forgets a policy: no save, bad save, removal or file  *)
(* event takes away a policy that requests are using.                      *)
(***************************************************************************)
OnlyReloadAllForgets ==
    [][\A i \in PolicyIds :
          (cache[i] # Registry!Absent /\ cache'[i] = Registry!Absent)
              => /\ thread["api"].op = "all"
                 /\ thread["api"].pc = "commit"
                 /\ heap'= heap \o thread["api"].acc]_vars

(***************************************************************************)
(* loader.py:60-61, "Skips files that fail to load ... so one bad file     *)
(* doesn't block all others from loading": a start during which nobody     *)
(* edits a file does not fail.                                             *)
(***************************************************************************)
BadFileBlocksNothing == undisturbed => phase # "failed"
=============================================================================
