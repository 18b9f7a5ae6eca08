------------------------------ MODULE RdsPool ------------------------------
(***************************************************************************)
(* YS_RdsPool and YS_RdsConn (isaac/ys_redis.hpp): threads take a          *)
(* connection to a Redis server from a queue, or open one, run a command   *)
(* and put the connection back.  hiredis and the server are external:      *)
(* connections break at any time, before or after the command is run, and  *)
(* a server may keep one open and say nothing more: only connecting has a  *)
(* timeout (redisConnectWithTimeout), a command has none.                  *)
(*                                                                         *)
(* The pop that does not wait and the push of YS_ThQueue are one step each *)
(* (module ThQueue).  The commands (get, hmget, hgetall, exec) differ only *)
(* in what they make of the reply.                                         *)
(***************************************************************************)
EXTENDS Naturals, Sequences, FiniteSets, Functions

CONSTANTS
  Threads,      \* threads that use the pool
  MaxConn,      \* bound: YS_RdsConn objects created
  MaxCall,      \* bound: calls
  MaxFault      \* bound: faults of connections

ASSUME RdsPoolAssumption ==
  /\ IsFiniteSet(Threads)
  /\ MaxConn \in Nat /\ MaxCall \in Nat /\ MaxFault \in Nat

Ids == 1..MaxConn

VARIABLES
  pwd,          \* was the pool given a password?
  que,          \* _que
  pc, conn,     \* where each thread is, and its UniqueConn (0: none)
  st,           \* of each connection: "none"; "up"; "broken" (hiredis will say
                \* err 1 or 3); "dead" (any other err); "mute" (open, but the
                \* server will not answer)
  authed,       \* connections the server has authenticated
  moved,        \* history: connections that redisReconnect has replaced
  made,         \* YS_RdsConn objects so far
  calls,        \* calls so far
  ran,          \* history: how often the server has run the command of the
                \* thread's present call
  cutOff,       \* history: threads whose command was not answered at first
  res,          \* what the thread's last call returned
  faults,       \* count, for the bound
  crashed       \* was a null pointer dereferenced?

vars == <<pwd, que, pc, conn, st, authed, moved, made, calls, ran, cutOff, res, faults, crashed>>

Goto(t, l) == pc' = [pc EXCEPT ![t] = l]

Open == {c \in Ids : st[c] # "none"}

----------------------------------------------------------------------------
(* Mutant of pop: the connection stays in the queue. *)
popKeeps(t) ==
  IF que # <<>>
  THEN /\ conn' = [conn EXCEPT ![t] = Head(que)]
       /\ Goto(t, "query") /\ UNCHANGED que
  ELSE Goto(t, "connect") /\ UNCHANGED <<que, conn>>

(* Mutant of pop: a new connection for each call. *)
popNever(t) == Goto(t, "connect") /\ UNCHANGED <<que, conn>>

(* YS_RdsPool::pop, the queue: pop_front(conn, 0, false). *)
pop(t) ==
  IF que # <<>>
  THEN /\ conn' = [conn EXCEPT ![t] = Head(que)]
       /\ que' = Tail(que)
       /\ Goto(t, "query")
  ELSE Goto(t, "connect") /\ UNCHANGED <<que, conn>>

(* A call begins: UniqueConn is constructed. *)
Call(t) ==
  /\ pc[t] = "idle" /\ calls < MaxCall
  /\ calls' = calls + 1
  /\ ran' = [ran EXCEPT ![t] = 0] /\ cutOff' = cutOff \ {t}
  /\ pop(t)
  /\ UNCHANGED <<pwd, st, authed, moved, made, res, faults, crashed>>

(* Without a connection the call returns an empty result. *)
NoConn(t) ==
  /\ Goto(t, "idle")
  /\ res' = [res EXCEPT ![t] = "null"]
  /\ UNCHANGED <<conn, st>>

(* YS_RdsPool::pop, a new connection ... *)
connect(t) ==
  /\ pc[t] = "connect" /\ made < MaxConn
  /\ made' = made + 1
  /\ st' = [st EXCEPT ![made'] = "up"]
  /\ conn' = [conn EXCEPT ![t] = made']
  /\ Goto(t, IF pwd THEN "auth" ELSE "query")
  /\ UNCHANGED <<pwd, que, authed, moved, calls, ran, cutOff, res, faults, crashed>>

(* ... that hiredis cannot create ... *)
connectNull(t) ==
  /\ pc[t] = "connect"
  /\ NoConn(t)
  /\ UNCHANGED <<pwd, que, authed, moved, made, calls, ran, cutOff, faults, crashed>>

(* ... or the server does not accept: connect frees the context, clears the
   pointer, and reads the error through it. *)
connectRefused(t) ==
  /\ pc[t] = "connect" /\ faults < MaxFault
  /\ faults' = faults + 1
  /\ crashed' = TRUE
  /\ UNCHANGED <<pwd, que, pc, conn, st, authed, moved, made, calls, ran, cutOff, res>>

(* Mutant of auth: a connection that failed to authenticate is used. *)
authIgnored(t) ==
  /\ pc[t] = "auth"
  /\ Goto(t, "query")
  /\ UNCHANGED <<pwd, que, conn, st, authed, moved, made, calls, ran, cutOff, res, faults, crashed>>

(* connect, auth: refused or cut off, the constructor closes the connection and
   pop abandons the object.  A server that is mute keeps the thread waiting. *)
auth(t) ==
  /\ pc[t] = "auth" /\ st[conn[t]] # "mute"
  /\ \/ /\ st[conn[t]] = "up"
        /\ authed' = authed \cup {conn[t]}
        /\ Goto(t, "query")
        /\ UNCHANGED <<conn, st, res>>
     \/ /\ Goto(t, "idle")
        /\ st' = [st EXCEPT ![conn[t]] = "none"]
        /\ conn' = [conn EXCEPT ![t] = 0]
        /\ res' = [res EXCEPT ![t] = "null"]
        /\ UNCHANGED authed
  /\ UNCHANGED <<pwd, que, moved, made, calls, ran, cutOff, faults, crashed>>

----------------------------------------------------------------------------
(* A connection breaks, in the queue or in use (external). *)
Break(c) ==
  /\ st[c] \in {"up", "mute"} /\ faults < MaxFault
  /\ faults' = faults + 1
  /\ st' = [st EXCEPT ![c] = "broken"]
  /\ UNCHANGED <<pwd, que, pc, conn, authed, moved, made, calls, ran, cutOff, res, crashed>>

(* The server hangs, or is cut off without a word (external). *)
Mute(c) ==
  /\ st[c] = "up" /\ faults < MaxFault
  /\ faults' = faults + 1
  /\ st' = [st EXCEPT ![c] = "mute"]
  /\ UNCHANGED <<pwd, que, pc, conn, authed, moved, made, calls, ran, cutOff, res, crashed>>

(* Mutant of reply: an error is taken for a broken connection. *)
replyRetries(t, c) == Goto(t, "reconnect") /\ UNCHANGED res

(* The reply is the call's result, whatever it says. *)
reply(t, c) ==
  /\ Goto(t, "push")
  /\ res' = [res EXCEPT ![t] = IF ~pwd \/ c \in authed THEN "ok" ELSE "NOAUTH"]

(* query: redisCommand on a good connection; on a mute one it does not return. *)
query(t) ==
  LET c == conn[t]
  IN  /\ pc[t] = "query" /\ st[c] = "up"
      /\ ran' = IF ~pwd \/ c \in authed THEN [ran EXCEPT ![t] = @ + 1] ELSE ran
      /\ reply(t, c)
      /\ UNCHANGED <<pwd, que, conn, st, authed, moved, made, calls, cutOff, faults, crashed>>

(* The connection fails, or goes mute, during the command, which the server has
   run or not; how == "broken", "dead" or "mute". *)
queryCut(t, how) ==
  LET c == conn[t]
  IN  /\ pc[t] = "query" /\ st[c] = "up" /\ faults < MaxFault
      /\ faults' = faults + 1
      /\ st' = [st EXCEPT ![c] = how]
      /\ cutOff' = cutOff \cup {t}
      /\ ran' \in IF ~pwd \/ c \in authed
                  THEN {ran, [ran EXCEPT ![t] = @ + 1]} ELSE {ran}
      /\ UNCHANGED <<pwd, que, pc, conn, authed, moved, made, calls, res, crashed>>

(* Mutant of queryNull: whatever the error, the command is tried again. *)
queryNullLoops(t) ==
  /\ pc[t] = "query" /\ st[conn[t]] \in {"broken", "dead"}
  /\ Goto(t, IF st[conn[t]] = "broken" THEN "reconnect" ELSE "query")
  /\ UNCHANGED <<pwd, que, conn, st, authed, moved, made, calls, ran, cutOff, res, faults, crashed>>

(* hiredis answers at once on a connection in error: with err 1 or 3 query
   reconnects, with any other it returns null. *)
queryNull(t) ==
  /\ pc[t] = "query" /\ st[conn[t]] \in {"broken", "dead"}
  /\ IF st[conn[t]] = "broken"
     THEN Goto(t, "reconnect") /\ UNCHANGED res
     ELSE Goto(t, "push") /\ res' = [res EXCEPT ![t] = "null"]
  /\ UNCHANGED <<pwd, que, conn, st, authed, moved, made, calls, ran, cutOff, faults, crashed>>

(* redisReconnect: query calls itself; nobody authenticates again. *)
reconnect(t) ==
  /\ pc[t] = "reconnect"
  /\ st' = [st EXCEPT ![conn[t]] = "up"]
  /\ authed' = authed \ {conn[t]} /\ moved' = moved \cup {conn[t]}
  /\ Goto(t, "query")
  /\ UNCHANGED <<pwd, que, conn, made, calls, ran, cutOff, res, faults, crashed>>

(* ... or it fails too. *)
reconnectFails(t) ==
  /\ pc[t] = "reconnect"
  /\ Goto(t, "push") /\ res' = [res EXCEPT ![t] = "null"]
  /\ UNCHANGED <<pwd, que, conn, st, authed, moved, made, calls, ran, cutOff, faults, crashed>>

(* Mutant of push: the connection is given back twice. *)
pushTwice(t) == que' = que \o <<conn[t], conn[t]>>

(* ~UniqueConn: the connection goes back, in whatever state it is. *)
push(t) == que' = Append(que, conn[t])

Return(t) ==
  /\ pc[t] = "push"
  /\ push(t)
  /\ conn' = [conn EXCEPT ![t] = 0]
  /\ Goto(t, "idle")
  /\ UNCHANGED <<pwd, st, authed, moved, made, calls, ran, cutOff, res, faults, crashed>>

----------------------------------------------------------------------------
Init ==
  /\ pwd \in BOOLEAN
  /\ que = <<>> /\ made = 0 /\ faults = 0 /\ crashed = FALSE
  /\ pc = [t \in Threads |-> "idle"] /\ conn = [t \in Threads |-> 0]
  /\ st = [c \in Ids |-> "none"] /\ authed = {} /\ moved = {}
  /\ calls = 0 /\ ran = [t \in Threads |-> 0]
  /\ cutOff = {} /\ res = [t \in Threads |-> "none"]

(* What a thread inside a call can do ... *)
Step(t) ==
  \/ connect(t) \/ connectNull(t) \/ auth(t)
  \/ query(t) \/ queryNull(t)
  \/ reconnect(t) \/ reconnectFails(t) \/ Return(t)

(* ... and what the server or the network can do to it. *)
Fault(t) ==
  \/ connectRefused(t)
  \/ \E how \in {"broken", "dead", "mute"} : queryCut(t, how)

Next ==
  /\ ~crashed
  /\ \/ \E t \in Threads : Call(t) \/ Step(t) \/ Fault(t)
     \/ \E c \in Ids : Break(c) \/ Mute(c)

Spec == Init /\ [][Next]_vars

(* Every thread inside a call is scheduled, connecting ends (it has a timeout)
   and a server that is not mute answers.  Nothing makes a mute server answer,
   or its connection break. *)
FairSpec == Spec /\ \A t \in Threads : WF_vars(~crashed /\ Step(t))

----------------------------------------------------------------------------
TypeOK ==
  /\ pwd \in BOOLEAN
  /\ que \in Seq(Ids) /\ Len(que) <= MaxConn
  /\ pc \in [Threads -> {"idle", "connect", "auth", "query", "reconnect", "push"}]
  /\ conn \in [Threads -> 0..MaxConn]
  /\ st \in [Ids -> {"none", "up", "broken", "dead", "mute"}]
  /\ authed \subseteq Ids /\ moved \subseteq Ids /\ made \in 0..MaxConn
  /\ \A t \in Threads : (conn[t] = 0) <=> pc[t] \in {"idle", "connect"}

(* A connection is used by one thread at a time, and one in use, or waiting, is
   waiting at most once: replies cannot be mixed up. *)
OneUser ==
  /\ \A t, u \in Threads : t # u /\ conn[t] # 0 => conn[t] # conn[u]
  /\ \A t \in Threads : conn[t] \notin Range(que)
  /\ \A i, j \in 1..Len(que) : que[i] = que[j] => i = j

(* The pool has no limit and opens a connection whenever it finds the queue
   empty, which may have changed when it does; still there are never more
   connections than threads, and none that is open is lost. *)
ConnsBounded ==
  /\ Cardinality(Open) <= Cardinality(Threads)
  /\ Open = Range(que) \cup ({conn[t] : t \in Threads} \ {0})

(* The pool neither shares, loses nor multiplies its connections. *)
ConnsKept == TypeOK /\ OneUser /\ ConnsBounded

(* A call that returns a result has had its command run, and run once, unless
   its connection failed meanwhile: the repetition after a reconnection may
   run it again. *)
RunOnce ==
  \A t \in Threads :
    /\ pc[t] = "push" /\ res[t] = "ok" => ran[t] >= 1
    /\ ran[t] > 1 => t \in cutOff

(* With a password, commands go to authenticated connections, unless
   redisReconnect has replaced the connection below. *)
AuthKept ==
  \A t \in Threads :
    pwd /\ pc[t] \in {"query", "push"} => conn[t] \in authed \cup moved

(* A command is run once, on a connection that knows who asks. *)
CommandsRight == RunOnce /\ AuthKept

(* The thread waits for an answer that does not come. *)
Waiting(t) == pc[t] \in {"auth", "query"} /\ st[conn[t]] = "mute"

(* A call returns, whatever happens to the other threads' connections and
   however its own has failed (the repetition after a reconnection ends as soon
   as the connections stop failing), unless its own server is mute: redisCommand
   has no timeout. *)
CallReturns ==
  \A t \in Threads : (pc[t] # "idle") ~> (pc[t] = "idle" \/ crashed \/ Waiting(t))
=============================================================================
