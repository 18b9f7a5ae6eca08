-------------------------------- MODULE Log --------------------------------
(***************************************************************************)
(* YS_Log (isaac/ys_log.h): callers push entries on a queue, one thread     *)
(* takes them off and appends them to files, a file per level and day (or  *)
(* per day), renamed when it is full.  The destructor stops the thread.    *)
(*                                                                         *)
(* Files outlive the process.  Faults are part of the model: a write that  *)
(* fails, a log file taken away while the program runs, and a crash, at    *)
(* any step (an fopen that fails is one: fwrite gets a null pointer).      *)
(* Module ThQueue has the queue; here a call of it is one step.            *)
(***************************************************************************)
EXTENDS Naturals, Sequences, FiniteSets, SequencesExt, FiniteSetsExt

CONSTANTS
  Levels,       \* the levels used, 1 (LEV_FATAL) to 5 (LEV_DEBUG)
  level,        \* _level
  SingleFiles,  \* the values of _singleFile to consider
  LenOf,        \* the length of an entry, by its level
  FileSize,     \* _fileSize
  Cap,          \* 4096, the limit of the queue for unimportant entries
  MaxPos,       \* 999, the last number of a full file
  Days,         \* bound: number of days
  MaxPush,      \* bound: number of entries
  MaxStart,     \* bound: number of times the program is started
  MaxFault      \* bound: number of faults

LEV_ERROR == 2

ASSUME LogAssumption ==
  /\ Levels \subseteq 1..5 /\ level \in 0..5 /\ SingleFiles \subseteq BOOLEAN
  /\ LenOf \in [Levels -> Nat] /\ {FileSize, Cap, MaxPos, MaxPush} \subseteq Nat
  /\ Days \in Nat \ {0}

VARIABLES
  singleFile,   \* _singleFile
  life,         \* "off", "on", or "closing" in the destructor (_fRun is false)
  queue,        \* _queue, of entries
  pc, log,      \* the thread: where it is, the entry it has taken
  fd,           \* for each slot, its open file: path and _nowSz, or none
  files,        \* the disk: for each path the entries written, times opened
  today,        \* the day
  pushed,       \* entries made so far
  refused,      \* history: entries the full queue did not take (never freed)
  lost,         \* history: entries whose write failed
  dropped,      \* history: entries queued or in hand when the program ended
  removed,      \* history: entries in files that were taken away
  starts, faults

vars == <<singleFile, life, queue, pc, log, fd, files, today, pushed, refused, lost, dropped,
          removed, starts, faults>>

disk    == <<fd, files>>
history == <<refused, lost, dropped, removed>>
bounds  == <<starts, faults>>

None   == [path |-> <<>>, nowSz |-> 0]
NoLog  == [id |-> 0, lev |-> 0, day |-> 0]
Slots  == Levels \cup {0}
AllShut == [s \in Slots |-> None]

tLev(e) == IF singleFile THEN 0 ELSE e.lev

(* The bytes of the entries es, those of the i-th numbered from 1 to its length. *)
Bytes(es) == UNION {{i} \X (1..LenOf[es[i].lev]) : i \in DOMAIN es}
Size(es)  == Cardinality(Bytes(es))

----------------------------------------------------------------------------
(* Callers.                                                                *)

(* initConf *)
initConf ==
  /\ life = "off" /\ starts < MaxStart
  /\ life' = "on" /\ pc' = "loop" /\ starts' = starts + 1
  /\ UNCHANGED <<singleFile, queue, log, disk, today, pushed, history, faults>>

(* Mutant of refuses: errors may be refused too. *)
refusesErrors(lev) == Len(queue) >= Cap

(* pushLog: does the queue refuse an entry of this level? *)
refuses(lev) == lev > LEV_ERROR /\ Len(queue) >= Cap

(* debug, info, warn, error, fatal.  The entry's time is taken before it is
   pushed, and midnight may come between. *)
Write(lev, day) ==
  LET e == [id |-> pushed + 1, lev |-> lev, day |-> day]
  IN
  /\ life # "off" /\ lev <= level /\ pushed < MaxPush
  /\ pushed' = pushed + 1
  /\ IF refuses(lev)
     THEN refused' = refused \cup {e} /\ queue' = queue
     ELSE queue' = Append(queue, e) /\ refused' = refused
  /\ UNCHANGED <<singleFile, life, pc, log, disk, today, lost, dropped, removed, bounds>>

(* ~YS_Log: the thread is told to stop ... *)
dtorStop ==
  /\ life = "on" /\ life' = "closing"
  /\ UNCHANGED <<singleFile, queue, pc, log, disk, today, pushed, history, bounds>>

(* The process is over; what is not on disk is gone. *)
End ==
  /\ life' = "off" /\ pc' = "none" /\ log' = NoLog /\ queue' = <<>> /\ fd' = AllShut
  /\ dropped' = dropped \cup {e.id : e \in ToSet(queue)} \cup ({log.id} \ {0})
  /\ UNCHANGED <<singleFile, files, today, pushed, refused, lost, removed, starts>>

(* ... is joined, and entries still queued are deleted. *)
dtorJoin == life = "closing" /\ pc = "done" /\ End /\ faults' = faults

----------------------------------------------------------------------------
(* The thread: saveLog.                                                    *)

(* Mutant of Loop: it goes on as long as there is something to do. *)
LoopForever ==
  /\ pc = "loop" /\ pc' = "pop"
  /\ UNCHANGED <<singleFile, life, queue, log, disk, today, pushed, history, bounds>>

(* while (_fRun) *)
Loop ==
  /\ pc = "loop" /\ pc' = IF life = "on" THEN "pop" ELSE "done"
  /\ UNCHANGED <<singleFile, life, queue, log, disk, today, pushed, history, bounds>>

(* Mutant of popLog: the last entry is left in the queue. *)
popLogLeavesOne ==
  /\ pc = "pop"
  /\ \/ /\ Len(queue) > 1
        /\ log' = Head(queue) /\ queue' = Tail(queue) /\ pc' = "file"
     \/ /\ Len(queue) <= 1 \/ life = "closing"
        /\ pc' = "loop" /\ UNCHANGED <<log, queue>>
  /\ UNCHANGED <<singleFile, life, disk, today, pushed, history, bounds>>

(* popLog: an entry, or none after 500 ms or because of notifyT. *)
popLog ==
  /\ pc = "pop"
  /\ \/ /\ queue # <<>>
        /\ log' = Head(queue) /\ queue' = Tail(queue) /\ pc' = "file"
     \/ /\ queue = <<>> \/ life = "closing"
        /\ pc' = "loop" /\ UNCHANGED <<log, queue>>
  /\ UNCHANGED <<singleFile, life, disk, today, pushed, history, bounds>>

(* Mutant of renamed: the last number is used, whatever it holds. *)
renamedOver(path) ==
  IF path \notin DOMAIN files THEN files
  ELSE LET to == [path EXCEPT ![3] = MaxPos]
       IN  [p \in (DOMAIN files \ {path}) \cup {to} |->
              IF p = to THEN files[path] ELSE files[p]]

(* closeLogFile(lev, true): the file gets the first number that is free. *)
renamed(path) ==
  LET free == {i \in 1..MaxPos : [path EXCEPT ![3] = i] \notin DOMAIN files}
      to   == [path EXCEPT ![3] = Min(free)]
  IN  IF free = {} \/ path \notin DOMAIN files THEN files
      ELSE [p \in (DOMAIN files \ {path}) \cup {to} |->
              IF p = to THEN files[path] ELSE files[p]]

(* Mutant of dayChanged: only the day an entry is younger counts. *)
dayChangedLater(path, e) == e.day > path[2] + 1

dayChanged(path, e) == path[2] # e.day

(* Mutant of full: the new entry is not counted. *)
fullWithout(f, e) == f # None /\ f.nowSz > FileSize

full(f, e) == f # None /\ f.nowSz + LenOf[e.lev] > FileSize

(* getLogFile: the open file if it will do, or the day's file, opened. *)
getLogFile ==
  LET s     == tLev(log)
      f     == fd[s]
      fs    == IF full(f, log) THEN renamed(f.path) ELSE files
      keep  == /\ f # None /\ ~full(f, log)
               /\ ~dayChanged(f.path, log) /\ f.path \in DOMAIN fs
      path  == <<s, log.day, 0>>
      known == path \in DOMAIN fs
      was   == IF known THEN fs[path] ELSE [log |-> <<>>, opens |-> 0]
  IN
  /\ pc = "file" /\ pc' = "write"
  /\ IF keep THEN UNCHANGED disk
     ELSE /\ files' = [p \in DOMAIN fs \cup {path} |->
                         IF p = path THEN [was EXCEPT !.opens = @ + 1] ELSE fs[p]]
          /\ fd' = [fd EXCEPT ![s] = [path |-> path, nowSz |-> Size(was.log)]]
  /\ UNCHANGED <<singleFile, life, queue, log, today, pushed, history, bounds>>

(* Mutant of written: entries are put before those already there. *)
writtenFirst(path) == [files EXCEPT ![path].log = <<log>> \o @]

written(path) == [files EXCEPT ![path].log = Append(@, log)]

(* fwrite and fflush.  A file taken away meanwhile is written to no avail. *)
writeOk ==
  LET f == fd[tLev(log)]
  IN
  /\ pc = "write" /\ pc' = "loop" /\ log' = NoLog
  /\ fd' = [fd EXCEPT ![tLev(log)].nowSz = @ + LenOf[log.lev]]
  /\ IF f.path \in DOMAIN files
     THEN files' = written(f.path) /\ removed' = removed
     ELSE removed' = removed \cup {log.id} /\ files' = files
  /\ UNCHANGED <<singleFile, life, queue, today, pushed, refused, lost, dropped, bounds>>

(* Mutant of writeFails: the entry is not deleted. *)
writeFailsKeeps ==
  /\ pc = "write" /\ pc' = "loop" /\ log' = log /\ faults < MaxFault
  /\ fd' = [fd EXCEPT ![tLev(log)] = None]
  /\ lost' = lost \cup {log.id}
  /\ faults' = faults + 1
  /\ UNCHANGED <<singleFile, life, queue, files, today, pushed, refused, dropped, removed, starts>>

(* One of them fails: the file is closed, the entry deleted. *)
writeFails ==
  /\ pc = "write" /\ pc' = "loop" /\ log' = NoLog /\ faults < MaxFault
  /\ fd' = [fd EXCEPT ![tLev(log)] = None]
  /\ lost' = lost \cup {log.id}
  /\ faults' = faults + 1
  /\ UNCHANGED <<singleFile, life, queue, files, today, pushed, refused, dropped, removed, starts>>

----------------------------------------------------------------------------
(* The surroundings.                                                       *)

Midnight ==
  /\ today < Days /\ today' = today + 1
  /\ UNCHANGED <<singleFile, life, queue, pc, log, disk, pushed, history, bounds>>

(* Somebody takes a log file away. *)
TakeAway(p) ==
  /\ faults < MaxFault /\ faults' = faults + 1
  /\ removed' = removed \cup {e.id : e \in ToSet(files[p].log)}
  /\ files' = [q \in DOMAIN files \ {p} |-> files[q]]
  /\ UNCHANGED <<singleFile, life, queue, pc, log, fd, today, pushed, refused, lost, dropped, starts>>

Crash == life # "off" /\ faults < MaxFault /\ faults' = faults + 1 /\ End

Init ==
  /\ singleFile \in SingleFiles
  /\ life = "off" /\ queue = <<>> /\ pc = "none" /\ log = NoLog
  /\ fd = AllShut /\ files = <<>> /\ today = 1 /\ pushed = 0
  /\ refused = {} /\ lost = {} /\ dropped = {} /\ removed = {}
  /\ starts = 0 /\ faults = 0

Saver == Loop \/ popLog \/ getLogFile \/ writeOk

Next ==
  \/ initConf \/ dtorStop \/ dtorJoin \/ Midnight \/ Crash
  \/ \E lev \in Levels, day \in {today, today - 1} \ {0} : Write(lev, day)
  \/ Saver \/ writeFails
  \/ \E p \in DOMAIN files : TakeAway(p)

Spec == Init /\ [][Next]_vars

(* The scheduler runs the thread, whose waits are timed, and join returns when
   the thread has ended.  Nothing else has to happen. *)
FairSpec == Spec /\ WF_vars(Saver) /\ WF_vars(dtorJoin)

----------------------------------------------------------------------------
(* Properties.                                                             *)

TypeOK ==
  /\ life \in {"off", "on", "closing"}
  /\ pc \in {"none", "loop", "pop", "file", "write", "done"}
  /\ life = "off" <=> pc = "none"
  /\ pc \in {"file", "write"} <=> log # NoLog
  /\ \A s \in Slots : fd[s] = None \/ fd[s].path[1] = s
  /\ today \in 1..Days /\ pushed \in 0..MaxPush

(* The ids of the entries in file p. *)
Ids(p) == {e.id : e \in ToSet(files[p].log)}
OnDisk == UNION {Ids(p) : p \in DOMAIN files}

(* No entry is lost silently or written twice: each is on disk once, on its
   way there, or was refused by the full queue, met a write error, was pending
   when the program ended, or is in a file that was taken away.  In particular
   renaming a full file overwrites no other. *)
Accounted ==
  LET places == <<OnDisk, {e.id : e \in ToSet(queue)}, {log.id} \ {0},
                  {e.id : e \in refused}, lost,
                  dropped, removed>>
  IN  /\ UNION ToSet(places) = 1..pushed
      /\ \A a, b \in DOMAIN places : a # b => places[a] \cap places[b] = {}
      /\ \A p, q \in DOMAIN files : p # q => Ids(p) \cap Ids(q) = {}
      /\ \A p \in DOMAIN files : Cardinality(Ids(p)) = Len(files[p].log)

(* Errors are never refused, and unimportant entries never take more of the
   queue than their limit, however many errors are in it. *)
QueueLimit ==
  /\ Cardinality({i \in DOMAIN queue : queue[i].lev > LEV_ERROR}) <= Cap
  /\ \A e \in refused : e.lev > LEV_ERROR

(* Every entry is in a file of its own level and day, also when entries of two
   days come mixed around midnight. *)
InOwnFile ==
  \A p \in DOMAIN files : \A e \in ToSet(files[p].log) : p[1] = tLev(e) /\ p[2] = e.day

(* Read in the order of their numbers, the unnumbered one last, the files of a
   level and a day give the entries in the order they were logged, over
   crashes and restarts (unless somebody made room among the numbers). *)
Before(p, q) ==
  p[1] = q[1] /\ p[2] = q[2] /\ p[3] # 0 /\ (q[3] = 0 \/ p[3] < q[3])
FilesInOrder ==
  removed = {} =>
    /\ \A p \in DOMAIN files : \A i, j \in DOMAIN files[p].log :
         i < j => files[p].log[i].id < files[p].log[j].id
    /\ \A p, q \in DOMAIN files :
         Before(p, q) => \A a \in Ids(p), b \in Ids(q) : a < b

(* A file exceeds _fileSize only by one entry each time it is opened again: the
   size is tested when a file is open and not when it is opened. *)
MaxLen == Max({LenOf[l] : l \in Levels})
SizeBound ==
  \A p \in DOMAIN files :
    Size(files[p].log) <= Max({FileSize, MaxLen}) + (files[p].opens - 1) * MaxLen

(* An entry does not stay in the queue while the program runs. *)
QueueDrained ==
  \A id \in 1..MaxPush :
    (\E i \in DOMAIN queue : queue[i].id = id) ~> ~(\E i \in DOMAIN queue : queue[i].id = id)

(* The destructor returns, whatever the thread was doing when it was called. *)
DtorReturns == (life = "closing") ~> (life = "off")

(* The thread keeps up and comes to an end when it is told to. *)
Progress == QueueDrained /\ DtorReturns

(* The types, the queue's limit, and the rules for what is in which file. *)
Inv == TypeOK /\ QueueLimit /\ InOwnFile /\ FilesInOrder /\ SizeBound
=============================================================================
