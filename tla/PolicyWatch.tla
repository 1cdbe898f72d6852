----------------------------- MODULE PolicyWatch ------------------------------
(***************************************************************************)
(* PolicyService with a history variable: `unnoticed' are the files whose  *)
(* last change nobody will read: it raised no event the observer handles   *)
(* (a rename, a removal, any change before the observer runs), and no read *)
(* of the file is under way.  What hot reload owes is stated for the rest. *)
(***************************************************************************)
EXTENDS PolicyService

VARIABLE unnoticed

watchvars == <<vars, unnoticed>>

\* The first save of an editor, or its end, by a step of the directory.
SavedInPlace(f) == saving'[f] # saving[f]

\* A thread, or the event queue, is still to read the file.
AboutToBeRead(f) ==
    \/ \E k \in thread["api"].todo : Stems[k] = f
    \/ thread["watcher"].stem = f /\ thread["watcher"].pc \in {"open", "read"}
    \/ \E k \in DOMAIN events : events[k].file = f

Noticed(f) ==
    \/ SavedInPlace(f) /\ phase = "running"
    \/ AboutToBeRead(f)

Watched ==
    unnoticed' = {f \in Files : IF disk'[f] = disk[f] THEN f \in unnoticed
                                                      ELSE ~Noticed(f)}

WatchNext == Next /\ Watched

WatchSpec ==
    Init /\ unnoticed = {} /\ [][WatchNext]_watchvars /\ Fairness

-----------------------------------------------------------------------------
\* The object i names was made from the present content of file f.
Serves(i, f) ==
    /\ cache[i] # Registry!Absent
    /\ heap[cache[i]].file = f
    /\ heap[cache[i]].edit = disk[f].edit
    /\ heap[cache[i]].form = disk[f].form

UpToDate ==
    \A f \in Files \ unnoticed :
        (disk[f] # None /\ disk[f].form = "whole") => Serves(IdOf(f), f)

(***************************************************************************)
(* README.md:266, "Files are watched for changes and reloaded              *)
(* automatically": while the service runs, the cache ends up agreeing with *)
(* every file that holds a whole document, whatever half-saved states were *)
(* read before, renames and removals of it or of others lie in between,    *)
(* and whether the last change came during startup or later.  Only a file  *)
(* whose last change went unnoticed is exempt.                             *)
(***************************************************************************)
HotReloadSettles == <>[](phase = "running") => <>[]UpToDate
=============================================================================
