-------------------------- MODULE PolicyService_proofs --------------------------
(***************************************************************************)
(* Proofs about PolicyService, for every list of policy files, every set   *)
(* of ids they may declare and any number of edits and reloads: the two    *)
(* threads keep to the registry (PolicyRegistry), an id names a policy     *)
(* that declares it, only a reload_all forgets a policy, and a reload_all  *)
(* nobody disturbs finds exactly what the directory holds.                 *)
(***************************************************************************)
EXTENDS PolicyService, SequenceTheorems, WellFoundedInduction, FiniteSetTheorems,
        TLAPS

RegistryProofs == INSTANCE PolicyRegistry_proofs

-----------------------------------------------------------------------------
(***************************************************************************)
(* The inductive invariant                                                 *)
(***************************************************************************)
\* The locals of a thread.
Locals ==
    [pc : {"idle", "open", "read", "commit"}, op : {None, "one", "all"},
     stem : Files \cup {None}, todo : SUBSET (1 .. Len(Stems)), acc : Seq(Objects)]

\* What thread t knows at each point of the operation it runs: which file is
\* next, how much there is to publish, that no id was collected twice, and
\* that the watcher reloads single files only.
AtWork(t, l) ==
    /\ l.pc \in {"open", "read"} => \/ l.op = "one" /\ l.stem \in Files
                                    \/ l.op = "all" /\ l.todo # {}
    /\ l.pc = "commit" => \/ l.op = "one" /\ Len(l.acc) = 1
                          \/ l.op = "all" /\ l.todo = {}
    /\ Registry!DistinctIds(l.acc)
    /\ (t = "watcher" /\ l.pc # "idle") => l.op = "one"

\* Every thread's locals are locals, and it knows what it should.
Working ==
    /\ thread \in [Threads -> Locals]
    /\ \A t \in Threads : AtWork(t, thread[t])

\* The files with id i that have been read, of a listing with todo to go.
Loaded(i, todo) == ValidFiles(i) \ todo

\* What a listing has collected so far, of files that have not changed since it
\* began: of the files passed, the last valid one of each id and nothing else.
InOrder(todo) ==
    \A n \in 1 .. Len(Stems) :
       (n \notin todo /\ disk[Stems[n]] # None) => \A j \in todo : n < j

IsLastOf(p, todo) ==
    \E n \in Loaded(p.id, todo) :
       /\ \A j \in Loaded(p.id, todo) : j <= n
       /\ p.file = Stems[n]
       /\ p.edit = disk[Stems[n]].edit

NothingMissed(l) ==
    \A i \in PolicyIds : \A n \in Loaded(i, l.todo) :
       \E k \in 1 .. Len(l.acc) : l.acc[k].id = i

Collected(l) ==
    /\ InOrder(l.todo)
    /\ \A k \in 1 .. Len(l.acc) : IsLastOf(l.acc[k], l.todo)
    /\ NothingMissed(l)

Listed(l) == l.pc # "idle" /\ l.op = "all" /\ undisturbed => Collected(l)

Inv == TypeOK /\ Working /\ Listed(thread["api"])

-----------------------------------------------------------------------------
(***************************************************************************)
(* Files, listings and the policies collected from them                    *)
(***************************************************************************)
(***************************************************************************)
(* A file's name can serve as an id, and each place has its file.          *)
(***************************************************************************)
LEMMA FileFacts ==
    /\ Len(Stems) \in Nat
    /\ Files \subseteq PolicyIds
    /\ \A k \in 1 .. Len(Stems) : Stems[k] \in Files
BY StemsAssumption, LenProperties DEF Files

(***************************************************************************)
(* The first of the places still to load.                                  *)
(***************************************************************************)
LEMMA FirstPlace ==
    ASSUME NEW S \in SUBSET (1 .. Len(Stems)), S # {}
    PROVE  Min(S) \in S /\ \A k \in S : Min(S) <= k
<1> DEFINE less == OpToRel(<, Nat)
<1>1. S \subseteq Nat
  BY FileFacts
<1>2. \A m, n \in Nat : m < n => <<m, n>> \in less
  BY DEF OpToRel
<1>3. IsWellFoundedOn(less, Nat)
  BY NatLessThanWellFounded
<1> HIDE DEF less
<1>4. PICK n \in S : \A m \in S : ~ (<<m, n>> \in less)
  BY <1>1, <1>3, WFMin
<1>5. ASSUME NEW m \in S PROVE n <= m
  <2>1. m \in Nat /\ n \in Nat /\ ~ (m < n)
    BY <1>1, <1>2, <1>4
  <2> QED
    BY <2>1
<1> QED
  BY <1>5 DEF Min

(***************************************************************************)
(* A file that is read and validates makes a policy object.                *)
(***************************************************************************)
LEMMA ParsedType ==
    ASSUME TypeOK, NEW f \in Files, IsReadable(f), disk[f].form # "invalid"
    PROVE  Parsed(f) \in Objects
<1>1. disk[f] \in Contents /\ disk[f].form \in {"whole", "prefix"}
  BY DEF TypeOK, IsReadable, Contents, Forms
<1>2. IdOf(f) \in PolicyIds
  BY <1>1, FileFacts, StemsAssumption DEF IdOf, Contents
<1> QED
  BY <1>1, <1>2 DEF Parsed, Objects, Contents

(***************************************************************************)
(* What is collected are policy objects with known ids.                    *)
(***************************************************************************)
LEMMA CollectedType ==
    ASSUME NEW acc \in Seq(Objects), NEW k \in 1 .. Len(acc)
    PROVE  acc[k] \in Objects /\ acc[k].id \in PolicyIds
<1>1. acc[k] \in Objects
  BY ElementOfSeq
<1> QED
  BY <1>1 DEF Objects

(***************************************************************************)
(* Adding a policy to those collected puts it under its id, in the place   *)
(* of an earlier one with that id if there is one, and nothing else.       *)
(***************************************************************************)
LEMMA AddFacts ==
    ASSUME NEW acc \in Seq(Objects), NEW p \in Objects, Registry!DistinctIds(acc)
    PROVE  /\ Add(acc, p) \in Seq(Objects)
           /\ Registry!DistinctIds(Add(acc, p))
           /\ \A k \in 1 .. Len(Add(acc, p)) :
                 \/ Add(acc, p)[k] = p
                 \/ /\ k \in 1 .. Len(acc)
                    /\ Add(acc, p)[k] = acc[k]
                    /\ acc[k].id # p.id
           /\ \A k \in 1 .. Len(acc) : acc[k].id # p.id =>
                 k \in 1 .. Len(Add(acc, p)) /\ Add(acc, p)[k] = acc[k]
           /\ \E k \in 1 .. Len(Add(acc, p)) : Add(acc, p)[k] = p
<1> DEFINE new == Add(acc, p)
<1>0. Len(acc) \in Nat /\ \A k \in 1 .. Len(acc) : acc[k] \in Objects
  BY LenProperties, ElementOfSeq
<1>1. CASE \E k \in 1 .. Len(acc) : acc[k].id = p.id
  <2>1. new = [k \in 1 .. Len(acc) |-> IF acc[k].id = p.id THEN p ELSE acc[k]]
    BY <1>1 DEF Add
  <2> HIDE DEF new
  <2>2. /\ new \in Seq(Objects) /\ Len(new) = Len(acc)
        /\ \A k \in 1 .. Len(acc) :
              new[k] = IF acc[k].id = p.id THEN p ELSE acc[k]
    BY <1>0, <2>1
  <2>3. Registry!DistinctIds(new)
    BY <2>2 DEF Registry!DistinctIds
  <2> QED
    BY <1>1, <2>2, <2>3 DEF new
<1>2. CASE ~ \E k \in 1 .. Len(acc) : acc[k].id = p.id
  <2>1. new = Append(acc, p)
    BY <1>2 DEF Add
  <2> HIDE DEF new
  <2>2. /\ new \in Seq(Objects) /\ Len(new) = Len(acc) + 1
        /\ \A k \in 1 .. Len(acc) : new[k] = acc[k]
        /\ new[Len(acc) + 1] = p
    BY <2>1, AppendProperties
  <2>3. \A k \in 1 .. Len(new) : k \in 1 .. Len(acc) \/ k = Len(acc) + 1
    BY <1>0, <2>2
  <2>4. Registry!DistinctIds(new)
    BY <1>0, <1>2, <2>2, <2>3 DEF Registry!DistinctIds
  <2>5. 1 .. Len(acc) \subseteq 1 .. Len(new) /\ Len(acc) + 1 \in 1 .. Len(new)
    BY <1>0, <2>2
  <2> QED
    BY <1>2, <2>2, <2>3, <2>4, <2>5 DEF new
<1> QED
  BY <1>1, <1>2

-----------------------------------------------------------------------------
(***************************************************************************)
(* The locals of the threads                                               *)
(***************************************************************************)
(***************************************************************************)
(* Having nothing to do, and beginning to reload one file.                 *)
(***************************************************************************)
LEMMA Beginnings ==
    ASSUME NEW t \in Threads
    PROVE  /\ Idle \in Locals /\ AtWork(t, Idle)
           /\ \A f \in Files : OneBegun(f) \in Locals /\ AtWork(t, OneBegun(f))
<1>1. <<>> \in Seq(Objects) /\ Len(<<>>) = 0
  OBVIOUS
<1>2. Registry!DistinctIds(<<>>)
  BY <1>1 DEF Registry!DistinctIds
<1>3. Idle \in Locals
  BY <1>1 DEF Idle, Locals
<1>4. AtWork(t, Idle)
  BY <1>2 DEF Idle, AtWork
<1>5. ASSUME NEW f \in Files PROVE OneBegun(f) \in Locals
  BY <1>1 DEF OneBegun, Locals
<1>6. ASSUME NEW f \in Files PROVE AtWork(t, OneBegun(f))
  BY <1>2 DEF OneBegun, AtWork
<1> QED
  BY <1>3, <1>4, <1>5, <1>6

(***************************************************************************)
(* Beginning to reload the directory.                                      *)
(***************************************************************************)
LEMMA AllBegunFits == AllBegun \in Locals /\ AtWork("api", AllBegun)
<1>1. CASE ~directory
  BY <1>1, Beginnings DEF AllBegun, Threads
<1>2. CASE directory
  <2>1. <<>> \in Seq(Objects) /\ Len(<<>>) = 0 /\ Listing \in SUBSET (1 .. Len(Stems))
    BY DEF Listing
  <2>2. Registry!DistinctIds(<<>>)
    BY <2>1 DEF Registry!DistinctIds
  <2>3. AllBegun = [pc |-> IF Listing = {} THEN "commit" ELSE "open", op |-> "all",
                    stem |-> None, todo |-> Listing, acc |-> <<>>]
    BY <1>2 DEF AllBegun
  <2> HIDE DEF Listing
  <2>4. AllBegun \in Locals
    BY <2>1, <2>3 DEF Locals
  <2>5. AtWork("api", AllBegun)
    BY <2>2, <2>3 DEF AtWork
  <2> QED
    BY <2>4, <2>5
<1> QED
  BY <1>1, <1>2

(***************************************************************************)
(* Going on to the next file, with what has been collected so far.         *)
(***************************************************************************)
LEMMA AfterFileFits ==
    ASSUME NEW t \in Threads, NEW l \in Locals, AtWork(t, l),
           l.pc \in {"open", "read"},
           NEW acc \in Seq(Objects), Registry!DistinctIds(acc)
    PROVE  AfterFile(l, acc) \in Locals /\ AtWork(t, AfterFile(l, acc))
<1>1. CASE l.op = "one"
  BY <1>1, Beginnings DEF AfterFile
<1>2. CASE l.op # "one"
  <2> DEFINE rest == l.todo \ {Min(l.todo)}
             new == AfterFile(l, acc)
  <2>1. l.op = "all" /\ t # "watcher"
    BY <1>2 DEF AtWork
  <2>2. new = [l EXCEPT !.pc = IF rest = {} THEN "commit" ELSE "open",
                        !.todo = rest, !.acc = acc]
    BY <1>2 DEF AfterFile
  <2>3. rest \in SUBSET (1 .. Len(Stems))
    BY DEF Locals
  <2> HIDE DEF rest, new
  <2>4. /\ new.pc = (IF rest = {} THEN "commit" ELSE "open") /\ new.op = l.op
        /\ new.todo = rest /\ new.acc = acc /\ new.stem = l.stem
    BY <2>2 DEF Locals
  <2>5. new \in Locals
    BY <2>2, <2>3 DEF Locals
  <2>6. AtWork(t, new)
    BY <2>1, <2>4 DEF AtWork
  <2> QED
    BY <2>5, <2>6 DEF new
<1> QED
  BY <1>1, <1>2

(***************************************************************************)
(* A thread that is at a file is at a file of the list.                    *)
(***************************************************************************)
LEMMA TargetIsFile ==
    ASSUME NEW t \in Threads, thread[t] \in Locals, AtWork(t, thread[t]),
           thread[t].pc \in {"open", "read"}
    PROVE  /\ Target(t) \in Files
           /\ thread[t].op = "all" =>
                 /\ Min(thread[t].todo) \in thread[t].todo
                 /\ \A k \in thread[t].todo : Min(thread[t].todo) <= k
                 /\ Target(t) = Stems[Min(thread[t].todo)]
<1>1. CASE thread[t].op = "all"
  <2>1. thread[t].todo \in SUBSET (1 .. Len(Stems)) /\ thread[t].todo # {}
    BY <1>1 DEF Locals, AtWork
  <2> QED
    BY <1>1, <2>1, FirstPlace, FileFacts DEF Target
<1>2. CASE thread[t].op # "all"
  BY <1>2 DEF AtWork, Target
<1> QED
  BY <1>1, <1>2

-----------------------------------------------------------------------------
(***************************************************************************)
(* Types, and what the threads know                                        *)
(***************************************************************************)
(***************************************************************************)
(* The next event of the queue is about a policy file.                     *)
(***************************************************************************)
LEMMA NextEvent ==
    ASSUME TypeOK, events # <<>>
    PROVE  /\ Head(events).file \in Files
           /\ Tail(events) \in Seq([kind : {"created", "modified"}, file : Files])
<1> DEFINE FileEvents == [kind : {"created", "modified"}, file : Files]
<1>1. events \in Seq(FileEvents)
  BY DEF TypeOK
<1> HIDE DEF FileEvents
<1>2. Head(events) \in FileEvents /\ Tail(events) \in Seq(FileEvents)
  BY <1>1, HeadTailProperties
<1> QED
  BY <1>2 DEF FileEvents

(***************************************************************************)
(* A step that gives one thread new locals that fit.                       *)
(***************************************************************************)
LEMMA OneThreadMoves ==
    ASSUME Working, NEW t \in Threads, NEW new \in Locals, AtWork(t, new),
           thread' = [thread EXCEPT ![t] = new]
    PROVE  Working'
<1>1. thread' \in [Threads -> Locals]
  BY DEF Working
<1>2. ASSUME NEW u \in Threads PROVE AtWork(u, thread'[u])
  <2>1. CASE u = t
    BY <2>1 DEF Working
  <2>2. CASE u # t
    BY <2>2 DEF Working
  <2> QED
    BY <2>1, <2>2
<1> QED
  BY <1>1, <1>2 DEF Working

(***************************************************************************)
(* The steps of an operation move its thread and, at its end, publish.     *)
(***************************************************************************)
LEMMA StepWorks ==
    ASSUME TypeOK, Working, NEW t \in Threads, Step(t)
    PROVE  Working'
<1> DEFINE l == thread[t]
           f == Target(t)
<1>1. l \in Locals /\ AtWork(t, l) /\ l.acc \in Seq(Objects)
      /\ Registry!DistinctIds(l.acc)
  BY DEF Working, AtWork, Locals
<1>2. CASE Open(t)
  <2>1. l.pc = "open" /\ f \in Files
    BY <1>1, <1>2, TargetIsFile DEF Open
  <2>2. CASE disk[f] = None
    <3>1. thread' = [thread EXCEPT ![t] = AfterFile(l, l.acc)]
      BY <1>2, <2>2 DEF Open, Working
    <3>2. AfterFile(l, l.acc) \in Locals /\ AtWork(t, AfterFile(l, l.acc))
      BY <1>1, <2>1, AfterFileFits
    <3> QED
      BY <3>1, <3>2, OneThreadMoves
  <2>3. CASE disk[f] # None
    <3> DEFINE new == [l EXCEPT !.pc = "read"]
    <3>1. thread' = [thread EXCEPT ![t] = new]
      BY <1>2, <2>3 DEF Open, Working
    <3>2. new \in Locals /\ AtWork(t, new)
      BY <1>1, <2>1 DEF Locals, AtWork
    <3> QED
      BY <3>1, <3>2, OneThreadMoves
  <2> QED
    BY <2>2, <2>3
<1>3. CASE ReadFails(t) \/ CommitOne(t) \/ CommitAll(t)
  <2>1. thread' = [thread EXCEPT ![t] = Idle]
    BY <1>3 DEF ReadFails, CommitOne, CommitAll
  <2> QED
    BY <2>1, Beginnings, OneThreadMoves
<1>4. CASE ReadInvalid(t)
  <2>1. l.pc = "read" /\ thread' = [thread EXCEPT ![t] = AfterFile(l, l.acc)]
    BY <1>4 DEF ReadInvalid, Working
  <2>2. AfterFile(l, l.acc) \in Locals /\ AtWork(t, AfterFile(l, l.acc))
    BY <1>1, <2>1, AfterFileFits
  <2> QED
    BY <2>1, <2>2, OneThreadMoves
<1>5. CASE ReadValid(t)
  <2>1. l.pc = "read" /\ f \in Files
    BY <1>1, <1>5, TargetIsFile DEF ReadValid
  <2>2. Parsed(f) \in Objects
    BY <1>5, <2>1, ParsedType DEF ReadValid
  <2>3. CASE l.op = "one"
    <3> DEFINE new == [l EXCEPT !.pc = "commit", !.acc = <<Parsed(f)>>]
    <3>1. thread' = [thread EXCEPT ![t] = new]
      BY <1>5, <2>3 DEF ReadValid, Working
    <3>2. /\ <<Parsed(f)>> \in Seq(Objects) /\ Len(<<Parsed(f)>>) = 1
          /\ Registry!DistinctIds(<<Parsed(f)>>)
      BY <2>2 DEF Registry!DistinctIds
    <3> HIDE DEF l
    <3>3. new.pc = "commit" /\ new.op = "one" /\ new.acc = <<Parsed(f)>>
      BY <1>1, <2>3 DEF Locals
    <3>4. new \in Locals
      BY <1>1, <3>2 DEF Locals
    <3> HIDE DEF new
    <3>5. AtWork(t, new)
      BY <3>2, <3>3 DEF AtWork
    <3> QED
      BY <3>1, <3>4, <3>5, OneThreadMoves
  <2>4. CASE l.op # "one"
    <3> DEFINE acc == Add(l.acc, Parsed(f))
    <3>1. thread' = [thread EXCEPT ![t] = AfterFile(l, acc)]
      BY <1>5, <2>4 DEF ReadValid, Working
    <3>2. acc \in Seq(Objects) /\ Registry!DistinctIds(acc)
      BY <1>1, <2>2, AddFacts
    <3> HIDE DEF acc
    <3>3. AfterFile(l, acc) \in Locals /\ AtWork(t, AfterFile(l, acc))
      BY <1>1, <2>1, <3>2, AfterFileFits
    <3> QED
      BY <3>1, <3>3, OneThreadMoves
  <2> QED
    BY <2>3, <2>4
<1> QED
  BY <1>2, <1>3, <1>4, <1>5 DEF Step

(***************************************************************************)
(* Every step leaves the threads with what they should know.               *)
(***************************************************************************)
LEMMA NextWorks ==
    ASSUME TypeOK, Working, [Next]_vars
    PROVE  Working'
<1>1. CASE Edit \/ (\E f \in Files : EndSave(f)) \/ StartWatcher \/ Shutdown
           \/ UNCHANGED vars
  <2>1. UNCHANGED thread
    BY <1>1 DEF Edit, MakeDirectory, BeginSave, RenameOver, Remove, EndSave,
                StartWatcher, Shutdown, vars
  <2> QED
    BY <2>1 DEF Working
<1>2. CASE Startup \/ ReloadAll
  <2>1. thread' = [thread EXCEPT !["api"] = AllBegun]
    BY <1>2 DEF Startup, ReloadAll
  <2> QED
    BY <2>1, AllBegunFits, OneThreadMoves DEF Threads
<1>3. CASE \E stem \in Files : ReloadOne(stem)
  <2>1. PICK stem \in Files : thread' = [thread EXCEPT !["api"] = OneBegun(stem)]
    BY <1>3 DEF ReloadOne
  <2> QED
    BY <2>1, Beginnings, OneThreadMoves DEF Threads
<1>4. CASE OnFileChange
  <2>1. thread' = [thread EXCEPT !["watcher"] = OneBegun(Head(events).file)]
        /\ events # <<>>
    BY <1>4 DEF OnFileChange
  <2>2. Head(events).file \in Files
    BY <2>1, NextEvent
  <2> QED
    BY <2>1, <2>2, Beginnings, OneThreadMoves DEF Threads
<1>5. CASE \E t \in Threads : Step(t)
  BY <1>5, StepWorks
<1> QED
  BY <1>1, <1>2, <1>3, <1>4, <1>5 DEF Next

\* Types of what the editor and watchdog keep.
EnvTypes ==
    /\ directory \in BOOLEAN
    /\ disk \in [Files -> Contents \cup {None}]
    /\ saving \in [Files -> Contents \cup {None}]
    /\ edits \in 0 .. MaxEdits
    /\ events \in Seq([kind : {"created", "modified"}, file : Files])

(***************************************************************************)
(* A notification queues an event or nothing.                              *)
(***************************************************************************)
LEMMA NotifyType ==
    ASSUME EnvTypes, NEW f \in Files, NEW kind \in {"created", "modified"},
           Notify(kind, f)
    PROVE  events' \in Seq([kind : {"created", "modified"}, file : Files])
<1> DEFINE FileEvents == [kind : {"created", "modified"}, file : Files]
           e == [kind |-> kind, file |-> f]
<1>1. events \in Seq(FileEvents) /\ e \in FileEvents
  BY DEF EnvTypes
<1>2. events' = events \/ events' = Append(events, e)
  BY DEF Notify
<1> HIDE DEF FileEvents, e
<1>3. events' \in Seq(FileEvents)
  BY <1>1, <1>2, AppendProperties
<1> QED
  BY <1>3 DEF FileEvents

(***************************************************************************)
(* An edit keeps the types, and disturbs a reload that is under way.       *)
(***************************************************************************)
LEMMA EditTypes ==
    ASSUME EnvTypes, undisturbed \in BOOLEAN,
           Edit \/ (\E f \in Files : EndSave(f))
    PROVE  EnvTypes' /\ undisturbed' = FALSE
<1>1. edits \in Nat /\ edits + 1 \in Nat
  BY StemsAssumption DEF EnvTypes
<1>2. \A id \in DeclaredIds, form \in Forms : Content(id, edits + 1, form) \in Contents
  BY <1>1 DEF Content, Contents
<1>3. /\ {"prefix", "invalid"} \subseteq Forms /\ FinalForms \subseteq Forms
      /\ "whole" \in Forms
  BY StemsAssumption DEF Forms
<1>4. ASSUME NEW f \in Files, MayEdit(f)
      PROVE  edits' \in 0 .. MaxEdits /\ undisturbed' = FALSE
  BY <1>1, <1>4, StemsAssumption DEF MayEdit, EnvTypes
<1>5. CASE MakeDirectory
  BY <1>5 DEF MakeDirectory, EnvTypes
<1>6. ASSUME NEW f \in Files, NEW id \in DeclaredIds,
             NEW first \in {"prefix", "invalid"}, NEW final \in FinalForms,
             BeginSave(f, id, first, final)
      PROVE  EnvTypes' /\ undisturbed' = FALSE
  <2>1. MayEdit(f) /\ UNCHANGED directory
    BY <1>6 DEF BeginSave
  <2>2. disk' \in [Files -> Contents \cup {None}]
        /\ saving' \in [Files -> Contents \cup {None}]
    BY <1>2, <1>3, <1>6 DEF BeginSave, EnvTypes
  <2>3. events' \in Seq([kind : {"created", "modified"}, file : Files])
    BY <1>6, NotifyType DEF BeginSave
  <2> QED
    BY <1>4, <2>1, <2>2, <2>3 DEF EnvTypes
<1>7. ASSUME NEW f \in Files, NEW id \in DeclaredIds, RenameOver(f, id)
      PROVE  EnvTypes' /\ undisturbed' = FALSE
  <2>1. MayEdit(f) /\ UNCHANGED <<directory, saving, events>>
    BY <1>7 DEF RenameOver
  <2>2. disk' \in [Files -> Contents \cup {None}]
    BY <1>2, <1>3, <1>7 DEF RenameOver, EnvTypes
  <2> QED
    BY <1>4, <2>1, <2>2 DEF EnvTypes
<1>8. ASSUME NEW f \in Files, Remove(f)
      PROVE  EnvTypes' /\ undisturbed' = FALSE
  <2>1. MayEdit(f) /\ UNCHANGED <<directory, saving, events>>
    BY <1>8 DEF Remove
  <2>2. disk' \in [Files -> Contents \cup {None}]
    BY <1>8 DEF Remove, EnvTypes
  <2> QED
    BY <1>4, <2>1, <2>2 DEF EnvTypes
<1>9. ASSUME NEW f \in Files, EndSave(f)
      PROVE  EnvTypes' /\ undisturbed' = FALSE
  <2>1. UNCHANGED <<directory, edits>> /\ undisturbed' = FALSE
    BY <1>9 DEF EndSave
  <2>2. disk' \in [Files -> Contents \cup {None}]
        /\ saving' \in [Files -> Contents \cup {None}]
    BY <1>9 DEF EndSave, EnvTypes
  <2>3. events' \in Seq([kind : {"created", "modified"}, file : Files])
    BY <1>9, NotifyType DEF EndSave
  <2> QED
    BY <2>1, <2>2, <2>3 DEF EnvTypes
<1> QED
  BY <1>5, <1>6, <1>7, <1>8, <1>9 DEF Edit

(***************************************************************************)
(* Which steps touch the registry: those that publish under the lock, each *)
(* in one step of PolicyRegistry.                                          *)
(***************************************************************************)
LEMMA RegistryStep ==
    ASSUME TypeOK, Working, [Next]_vars
    PROVE  \/ UNCHANGED <<cache, heap>>
           \/ \E t \in Threads : CommitOne(t) /\ Registry!Put
           \/ \E t \in Threads : CommitAll(t) /\ Registry!Replace
<1>1. RegistryProofs!TypeOK
  BY DEF TypeOK, Registry!TypeOK, RegistryProofs!TypeOK
<1>2. CASE Edit \/ (\E f \in Files : EndSave(f)) \/ Startup \/ StartWatcher
           \/ (\E stem \in Files : ReloadOne(stem)) \/ ReloadAll \/ OnFileChange
           \/ Shutdown \/ UNCHANGED vars
  BY <1>2 DEF Edit, MakeDirectory, BeginSave, RenameOver, Remove, EndSave, Startup,
              StartWatcher, ReloadOne, ReloadAll, OnFileChange, Shutdown, vars
<1>3. ASSUME NEW t \in Threads,
             Open(t) \/ ReadFails(t) \/ ReadInvalid(t) \/ ReadValid(t)
      PROVE  UNCHANGED <<cache, heap>>
  BY <1>3 DEF Open, ReadFails, ReadInvalid, ReadValid
<1>4. ASSUME NEW t \in Threads, CommitOne(t)
      PROVE  Registry!Put
  <2> DEFINE p == thread[t].acc[1]
  <2>1. thread[t].acc \in Seq(Objects) /\ Len(thread[t].acc) = 1
    BY <1>4 DEF CommitOne, Working, AtWork, Locals
  <2>2. p \in Objects
    BY <2>1, ElementOfSeq
  <2>3. Registry!Publish(p)
    BY <1>4 DEF CommitOne
  <2> HIDE DEF p
  <2>4. RegistryProofs!Publish(p)
    BY <2>3 DEF Registry!Publish, RegistryProofs!Publish
  <2>5. RegistryProofs!Put
    BY <1>1, <2>2, <2>4, RegistryProofs!PublishIsPut
  <2> QED
    BY <2>5 DEF RegistryProofs!Put, RegistryProofs!Published,
                RegistryProofs!Publish, Registry!Put, Registry!Published,
                Registry!Publish
<1>5. ASSUME NEW t \in Threads, CommitAll(t)
      PROVE  Registry!Replace
  <2> DEFINE ps == thread[t].acc
  <2>1. ps \in Seq(Objects) /\ Registry!DistinctIds(ps) /\ Registry!PublishAll(ps)
    BY <1>5 DEF CommitAll, Working, AtWork, Locals
  <2> HIDE DEF ps
  <2>2. RegistryProofs!DistinctIds(ps) /\ RegistryProofs!PublishAll(ps)
    BY <2>1 DEF Registry!DistinctIds, Registry!PublishAll, Registry!Absent,
                RegistryProofs!DistinctIds, RegistryProofs!PublishAll,
                RegistryProofs!Absent
  <2>3. RegistryProofs!Replace
    BY <1>1, <2>1, <2>2, RegistryProofs!PublishAllIsReplace
  <2> QED
    BY <2>3 DEF RegistryProofs!Replace, RegistryProofs!Published,
                RegistryProofs!PublishAll, RegistryProofs!DistinctIds,
                RegistryProofs!Absent, Registry!Replace, Registry!Published,
                Registry!PublishAll, Registry!DistinctIds, Registry!Absent
<1> QED
  BY <1>2, <1>3, <1>4, <1>5 DEF Next, Step

-----------------------------------------------------------------------------
(***************************************************************************)
(* Initial states and steps                                                *)
(***************************************************************************)
(***************************************************************************)
(* The initial states have the types, and no thread is at work.            *)
(***************************************************************************)
LEMMA InitTypes == Init => TypeOK /\ Working
<1> SUFFICES ASSUME Init PROVE TypeOK /\ Working
  OBVIOUS
<1>1. Working
  BY Beginnings DEF Init, Working
<1>2. \A id \in DeclaredIds, form \in FinalForms : Content(id, 0, form) \in Contents
  BY StemsAssumption DEF Content, Contents
<1>3. EnvTypes
  BY <1>2, StemsAssumption DEF Init, EnvTypes
<1>4. Registry!TypeOK
  BY DEF Init, Registry!Init, Registry!TypeOK, Registry!Absent
<1>5. phase = "down" /\ reloads \in 0 .. MaxReloads /\ undisturbed = TRUE
  BY StemsAssumption DEF Init
<1> QED
  BY <1>1, <1>3, <1>4, <1>5 DEF TypeOK, EnvTypes, Working, Locals

(***************************************************************************)
(* The registry of every step stays a registry, and is stepped as the      *)
(* abstract one.                                                           *)
(***************************************************************************)
LEMMA RegistryNext ==
    ASSUME TypeOK, Working, [Next]_vars
    PROVE  [Registry!Next]_(Registry!regvars) /\ Registry!TypeOK'
<1>1. [Registry!Next]_(Registry!regvars)
  BY RegistryStep DEF Registry!Next, Registry!regvars
<1>2. RegistryProofs!TypeOK /\ [RegistryProofs!Next]_(RegistryProofs!regvars)
  BY <1>1 DEF TypeOK, Registry!TypeOK, RegistryProofs!TypeOK, Registry!Next,
              RegistryProofs!Next, Registry!regvars, RegistryProofs!regvars,
              Registry!Put, RegistryProofs!Put, Registry!Replace,
              RegistryProofs!Replace, Registry!Publish, RegistryProofs!Publish,
              Registry!PublishAll, RegistryProofs!PublishAll,
              Registry!Published, RegistryProofs!Published,
              Registry!DistinctIds, RegistryProofs!DistinctIds,
              Registry!Absent, RegistryProofs!Absent
<1>3. RegistryProofs!TypeOK'
  BY <1>2, RegistryProofs!TypeStep
<1> QED
  BY <1>1, <1>3 DEF Registry!TypeOK, RegistryProofs!TypeOK

(***************************************************************************)
(* Every step preserves the types.                                         *)
(***************************************************************************)
LEMMA TypeStep == TypeOK /\ Working /\ [Next]_vars => (TypeOK /\ Working)'
<1> SUFFICES ASSUME TypeOK, Working, [Next]_vars PROVE TypeOK' /\ Working'
  OBVIOUS
<1>1. Working' /\ Registry!TypeOK'
  BY NextWorks, RegistryNext
<1>2. EnvTypes /\ undisturbed \in BOOLEAN /\ reloads \in 0 .. MaxReloads
      /\ phase \in {"down", "loading", "running", "unwatched", "failed", "stopped"}
  BY DEF TypeOK, EnvTypes
<1> DEFINE Rest ==
              /\ phase \in {"down", "loading", "running", "unwatched", "failed",
                            "stopped"}
              /\ reloads \in 0 .. MaxReloads
              /\ undisturbed \in BOOLEAN
<1>3. EnvTypes' /\ Rest'
  <2>1. CASE Edit \/ (\E f \in Files : EndSave(f))
    <3>1. EnvTypes' /\ undisturbed' = FALSE
      BY <1>2, <2>1, EditTypes
    <3>2. UNCHANGED <<phase, reloads>>
      BY <2>1 DEF Edit, MakeDirectory, BeginSave, RenameOver, Remove, EndSave
    <3> QED
      BY <1>2, <3>1, <3>2
  <2>2. CASE OnFileChange
    <3>1. /\ UNCHANGED <<directory, disk, saving, edits, phase, reloads, undisturbed>>
          /\ events' = Tail(events) /\ events # <<>>
      BY <2>2 DEF OnFileChange
    <3> QED
      BY <1>2, <3>1, NextEvent DEF EnvTypes
  <2>3. CASE Startup \/ StartWatcher \/ (\E stem \in Files : ReloadOne(stem))
             \/ ReloadAll \/ Shutdown \/ UNCHANGED vars
    <3>1. EnvTypes'
      BY <1>2, <2>3 DEF Startup, StartWatcher, ReloadOne, ReloadAll, Shutdown, env,
                        vars, EnvTypes
    <3>2. /\ phase' \in {"loading", "running", "unwatched", "stopped", phase}
          /\ undisturbed' \in {TRUE, undisturbed}
      BY <2>3 DEF Startup, StartWatcher, ReloadOne, ReloadAll, MayReload, Shutdown,
                  vars
    <3>3. reloads' \in 0 .. MaxReloads
      BY <1>2, <2>3, StemsAssumption
         DEF Startup, StartWatcher, ReloadOne, ReloadAll, MayReload, Shutdown, vars
    <3> QED
      BY <1>2, <3>1, <3>2, <3>3
  <2>4. CASE \E t \in Threads : Step(t)
    <3>1. EnvTypes'
      BY <1>2, <2>4 DEF Step, Open, ReadFails, ReadInvalid, ReadValid, CommitOne,
                        CommitAll, env, EnvTypes
    <3>2. phase' \in {"failed", phase} /\ UNCHANGED <<reloads, undisturbed>>
      BY <2>4 DEF Step, Open, ReadFails, ReadInvalid, ReadValid, CommitOne, CommitAll
    <3> QED
      BY <1>2, <3>1, <3>2
  <2> QED
    BY <2>1, <2>2, <2>3, <2>4 DEF Next
<1> QED
  BY <1>1, <1>3 DEF TypeOK, EnvTypes, Working, Locals

(***************************************************************************)
(* Only the publication of a whole listing, by the event-loop thread, can  *)
(* take an id away.                                                        *)
(***************************************************************************)
LEMMA ForgettingStep ==
    ASSUME TypeOK, Working, [Next]_vars, NEW i \in PolicyIds,
           cache[i] # Registry!Absent, cache'[i] = Registry!Absent
    PROVE  /\ thread["api"].op = "all"
           /\ thread["api"].pc = "commit"
           /\ heap' = heap \o thread["api"].acc
<1>1. cache \in [PolicyIds -> Nat] /\ heap \in Seq(Objects) /\ Len(heap) \in Nat
  BY LenProperties DEF TypeOK, Registry!TypeOK
<1>2. CASE UNCHANGED <<cache, heap>>
  BY <1>2
<1>3. ASSUME NEW t \in Threads, CommitOne(t)
      PROVE  FALSE
  <2> DEFINE j == thread[t].acc[1].id
  <2>1. cache' = [cache EXCEPT ![j] = Len(heap) + 1]
    BY <1>3 DEF CommitOne, Registry!Publish
  <2> HIDE DEF j
  <2>2. cache'[i] = cache[i] \/ cache'[i] = Len(heap) + 1
    BY <1>1, <2>1
  <2> QED
    BY <1>1, <2>2 DEF Registry!Absent
<1>4. ASSUME NEW t \in Threads, CommitAll(t)
      PROVE  /\ thread["api"].op = "all"
             /\ thread["api"].pc = "commit"
             /\ heap' = heap \o thread["api"].acc
  <2>1. thread[t].pc = "commit" /\ thread[t].op = "all"
        /\ heap' = heap \o thread[t].acc
    BY <1>4 DEF CommitAll, Registry!PublishAll
  <2>2. t = "api"
    BY <2>1 DEF Working, AtWork, Threads
  <2> QED
    BY <2>1, <2>2
<1> QED
  BY <1>2, <1>3, <1>4, RegistryStep

-----------------------------------------------------------------------------
(***************************************************************************)
(* What an undisturbed listing collects                                    *)
(***************************************************************************)
(***************************************************************************)
(* A listing that has just begun has nothing to account for.               *)
(***************************************************************************)
LEMMA BegunCollected ==
    ASSUME AllBegun.op = "all", AllBegun.pc # "idle"
    PROVE  Collected(AllBegun)
<1>1. CASE ~directory
  BY <1>1 DEF AllBegun, Idle
<1>2. CASE directory
  <2>1. AllBegun.todo = Listing /\ AllBegun.acc = <<>> /\ Len(<<>>) = 0
    BY <1>2 DEF AllBegun
  <2>2. \A i \in PolicyIds : Loaded(i, Listing) = {}
    BY DEF Loaded, ValidFiles, Listing
  <2>3. InOrder(Listing)
    BY DEF InOrder, Listing
  <2> HIDE DEF AllBegun
  <2> QED
    BY <2>1, <2>2, <2>3 DEF Collected, NothingMissed
<1> QED
  BY <1>1, <1>2

(***************************************************************************)
(* Passing the first file that is left keeps the order.                    *)
(***************************************************************************)
LEMMA PassingInOrder ==
    ASSUME NEW todo \in SUBSET (1 .. Len(Stems)), NEW m \in todo,
           \A k \in todo : m <= k, InOrder(todo)
    PROVE  InOrder(todo \ {m})
<1>1. todo \subseteq 1 .. Len(Stems) /\ Len(Stems) \in Nat
  BY FileFacts
<1>2. ASSUME NEW n \in 1 .. Len(Stems), n \notin todo \ {m}, disk[Stems[n]] # None,
             NEW j \in todo \ {m}
      PROVE  n < j
  <2>1. CASE n = m
    <3>1. m <= j /\ m # j /\ m \in Nat /\ j \in Nat
      BY <1>1
    <3> QED
      BY <2>1, <3>1
  <2>2. CASE n # m
    BY <1>2, <2>2 DEF InOrder
  <2> QED
    BY <2>1, <2>2
<1> QED
  BY <1>2 DEF InOrder

(***************************************************************************)
(* Passing the first file that is left, when it is not valid.              *)
(***************************************************************************)
LEMMA SkippingCollected ==
    ASSUME NEW l \in Locals, NEW m \in l.todo, \A k \in l.todo : m <= k,
           Collected(l), \A i \in PolicyIds : m \notin ValidFiles(i),
           NEW new, new.todo = l.todo \ {m}, new.acc = l.acc
    PROVE  Collected(new)
<1>1. l.todo \in SUBSET (1 .. Len(Stems)) /\ l.acc \in Seq(Objects)
  BY DEF Locals
<1>2. \A i \in PolicyIds : Loaded(i, new.todo) = Loaded(i, l.todo)
  BY DEF Loaded
<1>3. InOrder(new.todo)
  BY <1>1, PassingInOrder DEF Collected
<1>4. ASSUME NEW k \in 1 .. Len(l.acc)
      PROVE  IsLastOf(l.acc[k], new.todo)
  <2>1. l.acc[k].id \in PolicyIds
    BY <1>1, CollectedType
  <2> QED
    BY <1>2, <2>1 DEF Collected, IsLastOf
<1>5. NothingMissed(new)
  BY <1>2 DEF Collected, NothingMissed
<1> QED
  BY <1>3, <1>4, <1>5 DEF Collected

(***************************************************************************)
(* Passing it when it is valid, with its policy added.                     *)
(***************************************************************************)
LEMMA AddingCollected ==
    ASSUME TypeOK, NEW l \in Locals, NEW m \in l.todo, \A k \in l.todo : m <= k,
           Collected(l), Registry!DistinctIds(l.acc),
           IsReadable(Stems[m]), disk[Stems[m]].form # "invalid",
           NEW new, new.todo = l.todo \ {m}, new.acc = Add(l.acc, Parsed(Stems[m]))
    PROVE  Collected(new)
<1> DEFINE f == Stems[m]
           p == Parsed(f)
           acc == l.acc
           add == Add(acc, p)
<1>1. l.todo \in SUBSET (1 .. Len(Stems)) /\ Len(Stems) \in Nat /\ acc \in Seq(Objects)
  BY FileFacts DEF Locals
<1>2. m \in 1 .. Len(Stems) /\ f \in Files /\ p \in Objects
  BY <1>1, FileFacts, ParsedType
<1>3. p.id \in PolicyIds /\ p.id = IdOf(f) /\ p.file = f /\ p.edit = disk[f].edit
  BY <1>2 DEF Parsed, Objects
<1>4. ASSUME NEW i \in PolicyIds PROVE m \in ValidFiles(i) <=> i = p.id
  <2>1. disk[f] # None /\ disk[f].form \in {"whole", "prefix"}
    BY <1>2 DEF IsReadable, TypeOK, Contents, Forms
  <2> QED
    BY <1>2, <1>3, <2>1 DEF ValidFiles, IdOf
<1>5. \A i \in PolicyIds :
         Loaded(i, new.todo) = Loaded(i, l.todo) \cup (IF i = p.id THEN {m} ELSE {})
  BY <1>4 DEF Loaded
<1>6. ASSUME NEW j \in Loaded(p.id, l.todo) PROVE j <= m
  <2>1. /\ j \in 1 .. Len(Stems) /\ j \notin l.todo /\ disk[Stems[j]] # None
    BY DEF Loaded, ValidFiles
  <2>2. j < m
    BY <2>1 DEF Collected, InOrder
  <2> QED
    BY <1>1, <1>2, <2>1, <2>2
<1>7. new.acc = add /\ Registry!DistinctIds(acc)
  OBVIOUS
<1> HIDE DEF p, add
<1>8. /\ \A k \in 1 .. Len(add) :
            \/ add[k] = p
            \/ k \in 1 .. Len(acc) /\ add[k] = acc[k] /\ acc[k].id # p.id
      /\ \A k \in 1 .. Len(acc) : acc[k].id # p.id =>
            k \in 1 .. Len(add) /\ add[k] = acc[k]
      /\ \E k \in 1 .. Len(add) : add[k] = p
  <2> HIDE DEF acc
  <2>1. acc \in Seq(Objects) /\ p \in Objects /\ Registry!DistinctIds(acc)
    BY <1>1, <1>2, <1>7
  <2>2. \A k \in 1 .. Len(add) :
           \/ add[k] = p
           \/ k \in 1 .. Len(acc) /\ add[k] = acc[k] /\ acc[k].id # p.id
    BY <2>1, AddFacts DEF add
  <2>3. \A k \in 1 .. Len(acc) : acc[k].id # p.id =>
           k \in 1 .. Len(add) /\ add[k] = acc[k]
    BY <2>1, AddFacts DEF add
  <2>4. \E k \in 1 .. Len(add) : add[k] = p
    BY <2>1, AddFacts DEF add
  <2> QED
    BY <2>2, <2>3, <2>4
<1>9. InOrder(new.todo)
  BY <1>1, PassingInOrder DEF Collected
<1>10. ASSUME NEW k \in 1 .. Len(add)
       PROVE  IsLastOf(add[k], new.todo)
  <2>1. CASE add[k] = p
    <3>1. Loaded(p.id, new.todo) = Loaded(p.id, l.todo) \cup {m}
      BY <1>3, <1>5
    <3>2. \A j \in Loaded(p.id, new.todo) : j <= m
      BY <1>1, <1>2, <1>6, <3>1
    <3> QED
      BY <1>3, <2>1, <3>1, <3>2 DEF IsLastOf
  <2>2. CASE k \in 1 .. Len(acc) /\ add[k] = acc[k] /\ acc[k].id # p.id
    <3>1. acc[k].id \in PolicyIds /\ IsLastOf(acc[k], l.todo)
      BY <1>1, <2>2, CollectedType DEF Collected
    <3>2. Loaded(acc[k].id, new.todo) = Loaded(acc[k].id, l.todo)
      BY <1>5, <2>2, <3>1
    <3> QED
      BY <2>2, <3>1, <3>2 DEF IsLastOf
  <2> QED
    BY <1>8, <2>1, <2>2
<1>11. ASSUME NEW i \in PolicyIds, NEW n \in Loaded(i, new.todo)
       PROVE  \E k \in 1 .. Len(add) : add[k].id = i
  <2>1. CASE i = p.id
    BY <1>8, <2>1
  <2>2. CASE i # p.id
    <3>1. n \in Loaded(i, l.todo)
      BY <1>5, <1>11, <2>2
    <3>2. PICK k \in 1 .. Len(acc) : acc[k].id = i
      BY <3>1 DEF Collected, NothingMissed
    <3> QED
      BY <1>8, <2>2, <3>2
  <2> QED
    BY <2>1, <2>2
<1> QED
  BY <1>7, <1>9, <1>10, <1>11 DEF Collected, NothingMissed

(***************************************************************************)
(* What is collected depends on the files only.                            *)
(***************************************************************************)
LEMMA SameFiles ==
    ASSUME UNCHANGED disk, thread'["api"].todo = thread["api"].todo,
           thread'["api"].acc = thread["api"].acc, Collected(thread["api"])
    PROVE  Collected(thread["api"])'
BY DEF Collected, InOrder, IsLastOf, NothingMissed, Loaded, ValidFiles

(***************************************************************************)
(* A step of the event-loop thread in which new locals are collected.      *)
(***************************************************************************)
LEMMA NewFiles ==
    ASSUME UNCHANGED disk, NEW l, Collected(l), thread'["api"] = l
    PROVE  Collected(thread["api"])'
BY DEF Collected, InOrder, IsLastOf, NothingMissed, Loaded, ValidFiles

(***************************************************************************)
(* AfterFile, in a listing, goes on without the first file.                *)
(***************************************************************************)
LEMMA AfterFileListing ==
    ASSUME NEW l \in Locals, l.op = "all", NEW acc
    PROVE  /\ AfterFile(l, acc).todo = l.todo \ {Min(l.todo)}
           /\ AfterFile(l, acc).acc = acc
BY DEF AfterFile, Locals

(***************************************************************************)
(* The steps of the event-loop thread keep a listing's account.            *)
(***************************************************************************)
LEMMA ListedStep ==
    ASSUME TypeOK, Working, Listed(thread["api"]), Step("api")
    PROVE  Listed(thread["api"])'
<1> DEFINE l == thread["api"]
           f == Target("api")
           m == Min(l.todo)
<1> SUFFICES ASSUME l'.pc # "idle", l'.op = "all", undisturbed'
             PROVE  Collected(thread["api"])'
  BY DEF Listed
<1>1. l \in Locals /\ AtWork("api", l) /\ l.acc \in Seq(Objects)
      /\ Registry!DistinctIds(l.acc) /\ "api" \in Threads /\ thread \in [Threads -> Locals]
  BY DEF Working, AtWork, Locals, Threads
<1>2. UNCHANGED <<disk, undisturbed>>
  BY DEF Step, Open, ReadFails, ReadInvalid, ReadValid, CommitOne, CommitAll, env
<1>3. CASE ReadFails("api") \/ CommitOne("api") \/ CommitAll("api")
  <2>1. l' = Idle
    BY <1>1, <1>3 DEF ReadFails, CommitOne, CommitAll
  <2> QED
    BY <2>1 DEF Idle
<1>4. CASE Open("api") /\ disk[f] # None
  <2>1. l' = [l EXCEPT !.pc = "read"] /\ l.pc = "open"
    BY <1>1, <1>4 DEF Open
  <2>2. l.op = "all" /\ l'.todo = l.todo /\ l'.acc = l.acc
    BY <1>1, <2>1 DEF Locals
  <2> QED
    BY <1>2, <2>1, <2>2, SameFiles DEF Listed
<1>5. CASE (Open("api") /\ disk[f] = None) \/ ReadInvalid("api")
  <2>1. l' = AfterFile(l, l.acc) /\ l.pc \in {"open", "read"}
    BY <1>1, <1>5 DEF Open, ReadInvalid
  <2>2. l.op = "all"
    BY <1>1, <2>1 DEF AfterFile, Idle, AtWork
  <2>3. /\ m \in l.todo /\ \A k \in l.todo : m <= k
        /\ f = Stems[m]
    BY <1>1, <2>1, <2>2, TargetIsFile
  <2>4. \A i \in PolicyIds : m \notin ValidFiles(i)
    BY <1>5, <2>3 DEF ValidFiles, ReadInvalid
  <2>5. Collected(l)
    BY <1>2, <2>1, <2>2 DEF Listed
  <2>6. Collected(AfterFile(l, l.acc))
    BY <1>1, <2>2, <2>3, <2>4, <2>5, AfterFileListing, SkippingCollected
  <2> QED
    BY <1>2, <2>1, <2>6, NewFiles
<1>6. CASE ReadValid("api")
  <2>1. l.pc = "read"
    BY <1>6 DEF ReadValid
  <2>2. CASE l.op = "one"
    <3>1. l'.op = "one"
      BY <1>1, <1>6, <2>2 DEF ReadValid, Locals
    <3> QED
      BY <3>1
  <2>3. CASE l.op # "one"
    <3> DEFINE acc == Add(l.acc, Parsed(f))
    <3>1. l.op = "all" /\ l' = AfterFile(l, acc)
      BY <1>1, <1>6, <2>1, <2>3 DEF ReadValid, AtWork
    <3>2. /\ m \in l.todo /\ \A k \in l.todo : m <= k
          /\ f = Stems[m]
      BY <1>1, <2>1, <3>1, TargetIsFile
    <3>3. Collected(l)
      BY <1>2, <2>1, <3>1 DEF Listed
    <3>4. IsReadable(Stems[m]) /\ disk[Stems[m]].form # "invalid"
      BY <1>6, <3>2 DEF ReadValid
    <3>5. Collected(AfterFile(l, acc))
      BY <1>1, <3>1, <3>2, <3>3, <3>4, AfterFileListing, AddingCollected
    <3> QED
      BY <1>2, <3>1, <3>5, NewFiles
  <2> QED
    BY <2>2, <2>3
<1> QED
  BY <1>3, <1>4, <1>5, <1>6 DEF Step

(***************************************************************************)
(* And so does every other step: whoever changes a file disturbs it.       *)
(***************************************************************************)
LEMMA ListedNext ==
    ASSUME TypeOK, Working, Listed(thread["api"]), [Next]_vars
    PROVE  Listed(thread["api"])'
<1>1. thread \in [Threads -> Locals] /\ "api" \in Threads /\ "watcher" \in Threads
  BY DEF Working, Threads
<1>2. CASE Edit \/ (\E f \in Files : EndSave(f))
  <2>1. undisturbed' = FALSE
    BY <1>2 DEF Edit, MakeDirectory, BeginSave, RenameOver, Remove, MayEdit, EndSave
  <2> QED
    BY <2>1 DEF Listed
<1>3. CASE Startup \/ ReloadAll
  <2>1. thread'["api"] = AllBegun /\ UNCHANGED disk
    BY <1>1, <1>3 DEF Startup, ReloadAll, env
  <2>2. CASE AllBegun.op = "all" /\ AllBegun.pc # "idle"
    BY <2>1, <2>2, BegunCollected, NewFiles DEF Listed
  <2>3. CASE ~ (AllBegun.op = "all" /\ AllBegun.pc # "idle")
    BY <2>1, <2>3 DEF Listed
  <2> QED
    BY <2>2, <2>3
<1>4. CASE \E stem \in Files : ReloadOne(stem)
  <2>1. thread'["api"].op = "one"
    BY <1>1, <1>4 DEF ReloadOne, OneBegun
  <2> QED
    BY <2>1 DEF Listed
<1>5. CASE StartWatcher \/ OnFileChange \/ Shutdown \/ UNCHANGED vars
           \/ Step("watcher")
  <2>1. UNCHANGED <<disk, undisturbed>> /\ thread'["api"] = thread["api"]
    <3>1. CASE StartWatcher \/ Shutdown \/ UNCHANGED vars
      BY <3>1 DEF StartWatcher, Shutdown, env, vars
    <3>2. CASE OnFileChange
      BY <1>1, <3>2 DEF OnFileChange
    <3>3. CASE Step("watcher")
      BY <1>1, <3>3 DEF Step, Open, ReadFails, ReadInvalid, ReadValid, CommitOne,
                        CommitAll, env
    <3> QED
      BY <1>5, <3>1, <3>2, <3>3
  <2> QED
    BY <2>1, SameFiles DEF Listed
<1>6. CASE Step("api")
  BY <1>6, ListedStep
<1> QED
  BY <1>2, <1>3, <1>4, <1>5, <1>6 DEF Next, Threads

(***************************************************************************)
(* What has been collected when the last file is passed is exact.          *)
(***************************************************************************)
LEMMA CollectedExact ==
    ASSUME TypeOK, Working, Listed(thread["api"])
    PROVE  ReloadAllExact
<1> DEFINE l == thread["api"]
<1> SUFFICES ASSUME l.op = "all", l.pc = "commit", undisturbed, NEW i \in PolicyIds
             PROVE  LET found == {k \in 1 .. Len(l.acc) : l.acc[k].id = i}
                    IN  IF ValidFiles(i) = {} THEN found = {}
                        ELSE /\ Cardinality(found) = 1
                             /\ \A k \in found :
                                   /\ l.acc[k].file = WinnerOf(i)
                                   /\ l.acc[k].edit = disk[WinnerOf(i)].edit
  BY DEF ReloadAllExact
<1> DEFINE found == {k \in 1 .. Len(l.acc) : l.acc[k].id = i}
<1>1. /\ l.todo = {} /\ Collected(l) /\ Registry!DistinctIds(l.acc)
  BY DEF Working, AtWork, Threads, Listed
<1>2. Loaded(i, l.todo) = ValidFiles(i)
  BY <1>1 DEF Loaded
<1>3. ASSUME NEW k \in found
      PROVE  /\ ValidFiles(i) # {}
             /\ l.acc[k].file = WinnerOf(i)
             /\ l.acc[k].edit = disk[WinnerOf(i)].edit
  <2>1. k \in 1 .. Len(l.acc) /\ l.acc[k].id = i
    OBVIOUS
  <2>2. PICK n \in ValidFiles(i) : /\ \A j \in ValidFiles(i) : j <= n
                                   /\ l.acc[k].file = Stems[n]
                                   /\ l.acc[k].edit = disk[Stems[n]].edit
    BY <1>1, <1>2, <2>1 DEF Collected, IsLastOf
  <2> DEFINE w == CHOOSE c \in ValidFiles(i) : \A j \in ValidFiles(i) : j <= c
  <2>3. w \in ValidFiles(i) /\ \A j \in ValidFiles(i) : j <= w
    BY <2>2
  <2>4. ValidFiles(i) \subseteq Nat
    BY FileFacts DEF ValidFiles
  <2> HIDE DEF w
  <2>5. w <= n /\ n <= w /\ w \in Nat /\ n \in Nat
    BY <2>2, <2>3, <2>4
  <2>6. w = n
    BY <2>5
  <2> QED
    BY <2>2, <2>6 DEF WinnerOf, w
<1>4. ASSUME ValidFiles(i) # {}
      PROVE  Cardinality(found) = 1
  <2>1. PICK k \in 1 .. Len(l.acc) : l.acc[k].id = i
    BY <1>1, <1>2, <1>4 DEF Collected, NothingMissed
  <2>2. found = {k}
    BY <1>1, <2>1 DEF Registry!DistinctIds
  <2> HIDE DEF found
  <2> QED
    BY <2>2, FS_Singleton
<1> QED
  BY <1>3, <1>4

-----------------------------------------------------------------------------
(***************************************************************************)
(* Theorems                                                                *)
(***************************************************************************)
(***************************************************************************)
(* Directory, queue, threads and registry keep their types, every thread   *)
(* knows what it is at, and an undisturbed listing accounts for every file *)
(* it has passed.                                                          *)
(***************************************************************************)
THEOREM Invariance == Spec => []Inv
<1>1. Init => Inv
  <2>1. Init => thread["api"].pc = "idle"
    BY DEF Init, Idle, Threads
  <2> QED
    BY <2>1, InitTypes DEF Listed, Inv
<1>2. Inv /\ [Next]_vars => Inv'
  BY TypeStep, ListedNext DEF Inv
<1> QED
  BY <1>1, <1>2, PTL DEF Spec

(***************************************************************************)
(* The types, whatever is edited and reloaded in whatever order.           *)
(***************************************************************************)
THEOREM TypeCorrect == Spec => []TypeOK
<1>1. Inv => TypeOK
  BY DEF Inv
<1> QED
  BY <1>1, Invariance, PTL

(***************************************************************************)
(* The service implements the registry: however the two threads            *)
(* interleave, every step publishes one whole policy, or a whole directory *)
(* with one policy per id, or nothing, and no published object is ever     *)
(* changed (policy.py:86-87, 99-100).                                      *)
(***************************************************************************)
THEOREM ServiceImplementsRegistry == Spec => ImplementsRegistry
<1>1. Init => Registry!Init
  BY DEF Init
<1>2. Inv /\ [Next]_vars => [Registry!Next]_(Registry!regvars)
  BY RegistryNext DEF Inv
<1> QED
  BY <1>1, <1>2, Invariance, PTL DEF Spec, ImplementsRegistry, Registry!Spec

(***************************************************************************)
(* Whatever ids the files declare, the policy an id names is one that      *)
(* declares that id (policy.py:100, loader.py:67).                         *)
(***************************************************************************)
THEOREM CacheIsKeyed == Spec => []KeyedById
<1>1. Registry!Spec => RegistryProofs!Spec
  BY DEF Registry!Spec, RegistryProofs!Spec, Registry!Init, RegistryProofs!Init,
         Registry!Next,
         RegistryProofs!Next, Registry!regvars, RegistryProofs!regvars,
         Registry!Put, RegistryProofs!Put, Registry!Replace,
         RegistryProofs!Replace, Registry!Publish, RegistryProofs!Publish,
         Registry!PublishAll, RegistryProofs!PublishAll,
         Registry!Published, RegistryProofs!Published,
         Registry!DistinctIds, RegistryProofs!DistinctIds,
         Registry!Absent, RegistryProofs!Absent
<1>2. RegistryProofs!KeyedById => KeyedById
  BY DEF RegistryProofs!KeyedById, KeyedById, Registry!KeyedById,
         RegistryProofs!Absent, Registry!Absent
<1> QED
  BY <1>1, <1>2, ServiceImplementsRegistry, RegistryProofs!RegistryIsKeyed, PTL
     DEF ImplementsRegistry

(***************************************************************************)
(* Only a reload_all forgets a policy: no save, bad save, removal or file  *)
(* event takes away a policy that requests are using.                      *)
(***************************************************************************)
THEOREM ForgetsOnlyWhole == Spec => OnlyReloadAllForgets
<1> DEFINE Forgets(i) == cache[i] # Registry!Absent /\ cache'[i] = Registry!Absent
           Whole == \A i \in PolicyIds : Forgets(i) =>
                       /\ thread["api"].op = "all"
                       /\ thread["api"].pc = "commit"
                       /\ heap' = heap \o thread["api"].acc
<1>1. Inv /\ [Next]_vars => Whole
  BY ForgettingStep DEF Inv
<1>2. OnlyReloadAllForgets <=> [][Whole]_vars
  BY DEF OnlyReloadAllForgets
<1> HIDE DEF Whole
<1> QED
  BY <1>1, <1>2, Invariance, PTL DEF Spec

(***************************************************************************)
(* A reload_all during which no file changed is about to publish exactly   *)
(* one policy per id some valid file declares, the last such file's: a bad *)
(* file neither hides the others nor takes their place (loader.py:57-72).  *)
(***************************************************************************)
THEOREM UndisturbedReloadIsExact == Spec => []ReloadAllExact
<1>1. Inv => ReloadAllExact
  BY CollectedExact DEF Inv
<1> QED
  BY <1>1, Invariance, PTL
=============================================================================
