------------------------------- MODULE Sqlite -------------------------------
(***************************************************************************)
(* SQLiteStorage on a database file: a connection for each thread, opened  *)
(* on its first call and kept in a thread-local, and close(), which any    *)
(* thread may call while the others are inside the database.               *)
(*                                                                         *)
(* Of SQLite (external) the model keeps: a write takes the write lock in   *)
(* execute and keeps it until the commit, other writers wait for it or     *)
(* give up with OperationalError; closing a connection rolls its           *)
(* transaction back; every use of a closed connection raises; what was     *)
(* committed survives a crash of the process.                              *)
(***************************************************************************)
EXTENDS Naturals, Sequences

CONSTANTS
    Thread,
    Creator,    \* the thread that constructs the store
    Key,
    Value,
    None,
    MaxConns,   \* bound: connections that exist at once
    Owner       \* the thread that opens each of them

ASSUME SqliteAssumption ==
    /\ Creator \in Thread
    /\ MaxConns \in Nat \ {0}
    /\ Owner \in [1..MaxConns -> Thread] /\ Owner[1] = Creator
    /\ None \notin Key \cup Value \cup Thread

VARIABLES
    disk,       \* the committed rows of kv
    call,       \* the call each thread makes of the store
    cache,      \* _local.conn of each thread; 0 is unset
    listed,     \* _all_connections
    open,       \* the connections that are open
    refused,    \* history: those that a close() could not close
    strict,     \* _check_same_thread
    closing,    \* the thread that holds _connections_lock in close()
    writer      \* the thread that holds SQLite's write lock

sqliteVars == <<disk, call, cache, listed, open, refused, strict, closing, writer>>

Conn == 1..MaxConns
NoCall == [st |-> "idle", req |-> None, answer |-> None, conn |-> 0]
Get(k) == [op |-> "get", key |-> k]
Put(k, v) == [op |-> "put", key |-> k, value |-> v]
Delete(k) == [op |-> "delete", key |-> k]
List(ks) == [op |-> "list", keys |-> ks]
Close == [op |-> "close"]
IsWrite(req) == req.op \in {"put", "delete"}

\* __init__ opens a connection; the file may hold rows already.
Opened ==
    /\ call = [t \in Thread |-> NoCall]
    /\ cache = [t \in Thread |-> IF t = Creator THEN 1 ELSE 0]
    /\ listed = <<1>>
    /\ open = {1} /\ refused = {}
    /\ strict \in BOOLEAN
    /\ closing = None
    /\ writer = None

\* What a call that begins (or the next one of the same caller) becomes.
Asked(req) ==
    [st |-> IF req.op = "close" THEN "lock" ELSE "connect",
     req |-> req, answer |-> None, conn |-> 0]

Ask(t, req) == call' = [call EXCEPT ![t] = Asked(req)]

\* The call goes on to its next place.
Moves(t, st, answer, conn) ==
    call' = [call EXCEPT ![t] = [st |-> st, req |-> @.req, answer |-> answer,
                                 conn |-> conn]]

Raises(t) == Moves(t, "raised", None, 0)

Answers(t, a) == Moves(t, "done", a, 0)

Unused(t) ==
    {c \in Conn : Owner[c] = t}
       \ (open \cup {cache[u] : u \in Thread} \cup {listed[i] : i \in DOMAIN listed}
               \cup {call[u].conn : u \in Thread})

\* put encodes its value before anything else: TypeError.
Unencodable(t) ==
    /\ call[t].st = "connect" /\ call[t].req.op = "put"
    /\ Raises(t)
    /\ UNCHANGED <<disk, cache, listed, open, refused, strict, closing, writer>>

\* _connection_for_thread finds the thread's connection, open or not, ...
Reuse(t) ==
    /\ call[t].st = "connect" /\ cache[t] # 0
    /\ Moves(t, "execute", None, cache[t])
    /\ UNCHANGED <<disk, cache, listed, open, refused, strict, closing, writer>>

\* ... or opens one and puts it into the thread-local ...
Connect(t) ==
    /\ call[t].st = "connect" /\ cache[t] = 0
    /\ \E c \in Unused(t) :
          /\ \A d \in Unused(t) : c <= d
          /\ cache' = [cache EXCEPT ![t] = c]
          /\ open' = open \cup {c}
          /\ Moves(t, "append", None, c)
    /\ UNCHANGED <<disk, listed, refused, strict, closing, writer>>

\* ... (connect or a PRAGMA may raise: nothing refers to the connection) ...
ConnectFails(t) ==
    /\ call[t].st = "connect" /\ cache[t] = 0
    /\ Raises(t)
    /\ UNCHANGED <<disk, cache, listed, open, refused, strict, closing, writer>>

\* A slip: the connection is never put into the list.
AppendConn_Dropped(t) ==
    /\ call[t].st = "append"
    /\ Moves(t, "execute", None, call[t].conn)
    /\ UNCHANGED <<disk, cache, listed, open, refused, strict, closing, writer>>

\* ... and then, under the lock, into the list.
AppendConn(t) ==
    /\ call[t].st = "append" /\ closing = None
    /\ listed' = Append(listed, call[t].conn)
    /\ Moves(t, "execute", None, call[t].conn)
    /\ UNCHANGED <<disk, cache, open, refused, strict, closing, writer>>

\* A write waits for the write lock, ...
ExecuteWrite(t) ==
    /\ call[t].st = "execute" /\ IsWrite(call[t].req)
    /\ call[t].conn \in open /\ writer = None
    /\ writer' = t
    /\ Moves(t, "commit", None, call[t].conn)
    /\ UNCHANGED <<disk, cache, listed, open, refused, strict, closing>>

Rows(req) ==
    IF req.op = "get" THEN disk[req.key]
                      ELSE {k \in req.keys : disk[k] # None}

\* ... a read sees what is committed.
ExecuteRead(t) ==
    /\ call[t].st = "execute" /\ ~IsWrite(call[t].req)
    /\ call[t].conn \in open
    /\ Moves(t, "fetch", Rows(call[t].req), call[t].conn)
    /\ UNCHANGED <<disk, cache, listed, open, refused, strict, closing, writer>>

\* The connection was closed, or the lock was held for busy_timeout.
ExecuteFails(t) ==
    /\ call[t].st = "execute"
    /\ \/ call[t].conn \notin open
       \/ IsWrite(call[t].req) /\ writer # None
    /\ Raises(t)
    /\ UNCHANGED <<disk, cache, listed, open, refused, strict, closing, writer>>

\* A slip: the commit on a closed connection is suppressed.
Commit_Silent(t) ==
    /\ call[t].st = "commit"
    /\ Answers(t, None)
    /\ IF call[t].conn \in open
       THEN /\ disk' = [disk EXCEPT ![call[t].req.key] =
                           IF call[t].req.op = "put" THEN call[t].req.value ELSE None]
            /\ writer' = None
       ELSE UNCHANGED <<disk, writer>>
    /\ UNCHANGED <<cache, listed, open, refused, strict, closing>>

\* Leaving the with-block commits, unless the connection was closed inside it.
Commit(t) ==
    /\ call[t].st = "commit"
    /\ IF call[t].conn \in open
       THEN /\ disk' = [disk EXCEPT ![call[t].req.key] =
                           IF call[t].req.op = "put" THEN call[t].req.value ELSE None]
            /\ Answers(t, None)
            /\ writer' = None
       ELSE /\ Raises(t)
            /\ UNCHANGED <<disk, writer>>
    /\ UNCHANGED <<cache, listed, open, refused, strict, closing>>

Fetch(t) ==
    /\ call[t].st = "fetch"
    /\ IF call[t].conn \in open THEN Answers(t, call[t].answer) ELSE Raises(t)
    /\ UNCHANGED <<disk, cache, listed, open, refused, strict, closing, writer>>

\* close() takes the lock, ...
CloseBegin(t) ==
    /\ call[t].st = "lock" /\ closing = None
    /\ closing' = t
    /\ Moves(t, "closing", None, 0)
    /\ UNCHANGED <<disk, cache, listed, open, refused, strict, writer>>

StillOpen == {i \in DOMAIN listed : listed[i] \in open \ refused}
NextToClose == {listed[i] : i \in {i \in StillOpen : \A j \in StillOpen : i <= j}}

\* ... closes the connections in the order of the list, which rolls back the
\* transaction one of them may be in, ...
CloseOne(t) ==
    /\ call[t].st = "closing"
    /\ \E c \in NextToClose :
          /\ ~strict \/ Owner[c] = t
          /\ open' = open \ {c}
          /\ writer' = IF writer # None /\ call[writer].conn = c
                       THEN None ELSE writer
    /\ UNCHANGED <<disk, call, cache, listed, refused, strict, closing>>

\* ... except that with check_same_thread the connection of another thread
\* refuses (ProgrammingError, which is suppressed) and stays open, ...
CloseRefused(t) ==
    /\ call[t].st = "closing"
    /\ \E c \in NextToClose :
          /\ strict /\ Owner[c] # t
          /\ refused' = refused \cup {c}
    /\ UNCHANGED <<disk, call, cache, listed, open, strict, closing, writer>>

\* ... forgets them and gives the lock back, ...
CloseClear(t) ==
    /\ call[t].st = "closing" /\ StillOpen = {}
    /\ listed' = <<>>
    /\ closing' = None
    /\ Moves(t, "replace", None, 0)
    /\ UNCHANGED <<disk, cache, open, refused, strict, writer>>

\* A slip: only the closing thread drops its connection.
CloseReplace_Own(t) ==
    /\ call[t].st = "replace"
    /\ cache' = [cache EXCEPT ![t] = 0]
    /\ Answers(t, None)
    /\ UNCHANGED <<disk, listed, open, refused, strict, closing, writer>>

\* ... and only then replaces the thread-local.
CloseReplace(t) ==
    /\ call[t].st = "replace"
    /\ cache' = [u \in Thread |-> 0]
    /\ Answers(t, None)
    /\ UNCHANGED <<disk, listed, open, refused, strict, closing, writer>>

StoreStep(t) ==
    \/ Unencodable(t)
    \/ Reuse(t) \/ Connect(t) \/ ConnectFails(t) \/ AppendConn(t)
    \/ ExecuteWrite(t) \/ ExecuteRead(t) \/ ExecuteFails(t)
    \/ Commit(t) \/ Fetch(t)
    \/ CloseBegin(t) \/ CloseOne(t) \/ CloseRefused(t)
    \/ CloseClear(t) \/ CloseReplace(t)

\* The process ends and is started again on the same file.
Reopen ==
    /\ call' = [t \in Thread |-> NoCall]
    /\ cache' = [t \in Thread |-> IF t = Creator THEN 1 ELSE 0]
    /\ listed' = <<1>>
    /\ open' = {1} /\ refused' = {}
    /\ strict' \in BOOLEAN
    /\ closing' = None
    /\ writer' = None
    /\ UNCHANGED disk

------------------------------------------------------------------------------
(* Properties                                                              *)

\* What a thread's call is to a caller of the protocol, which has no close().
CallSeen(c) ==
    LET Seen(st, a) == [st |-> st, req |-> c.req, answer |-> a]
    IN IF c.st = "idle" \/ c.req = Close
       THEN [st |-> "idle", req |-> None, answer |-> None]
       ELSE CASE c.st = "raised" -> Seen("raised", None)
              [] c.st \in {"fetch", "done"} -> Seen("done", c.answer)
              [] OTHER -> Seen("asked", None)

Promise == INSTANCE KeyValue WITH
    kv <- disk, call <- [t \in Thread |-> CallSeen(call[t])]

\* What a thread may ask, and what it may be answered.
RequestType == Promise!Request \cup {None, Close}
AnswerType == Value \cup {None} \cup SUBSET Key
State == {"idle", "connect", "append", "execute", "commit", "fetch", "lock",
          "closing", "replace", "raised", "done"}

\* What a call was asked and what it holds at each place.
ShapeOK(c) ==
    /\ c.st = "idle" => c = NoCall
    /\ c.st \in {"lock", "closing", "replace"} => c.req = Close
    /\ c.st \in {"connect", "append", "execute", "commit", "fetch", "raised"} =>
          c.req \in Promise!Request
    /\ c.st = "done" => c.req \in Promise!Request \cup {Close}
    /\ c.st = "commit" => IsWrite(c.req)
    /\ c.st = "fetch" => ~IsWrite(c.req)
    /\ c.st \in {"fetch", "done"} /\ c.req.op = "list" => c.answer \in SUBSET c.req.keys
    /\ c.st \notin {"fetch", "done"} => c.answer = None
    /\ c.conn # 0 <=> c.st \in {"append", "execute", "commit", "fetch"}

\* Who has the locks.
LocksOK(t) ==
    /\ closing = t <=> call[t].st = "closing"
    /\ writer = t <=> call[t].st = "commit" /\ call[t].conn \in open

\* A connection that its thread is about to list is new.
AppendOK(t) ==
    call[t].st = "append" =>
        /\ \A i \in DOMAIN listed : listed[i] # call[t].conn
        /\ \A u \in Thread \ {t} :
              ~(call[u].st = "append" /\ call[u].conn = call[t].conn)

\* The types, and that no connection is listed twice.
SqliteTypeOK ==
    /\ disk \in [Key -> Value \cup {None}]
    /\ call \in [Thread -> [st : State, req : RequestType, answer : AnswerType,
                            conn : Conn \cup {0}]]
    /\ cache \in [Thread -> Conn \cup {0}]
    /\ open \subseteq Conn /\ refused \subseteq open /\ strict \in BOOLEAN
    /\ listed \in Seq(Conn)
    /\ closing \in Thread \cup {None} /\ writer \in Thread \cup {None}
    /\ \A i, j \in DOMAIN listed : listed[i] = listed[j] => i = j
    /\ \A t \in Thread : ShapeOK(call[t]) /\ LocksOK(t) /\ AppendOK(t)

\* A connection is not lost: what is open is in the list, where the next close
\* finds it, or its thread is about to put it there.  The exception is
\* check_same_thread, where it may have refused the close() of another thread;
\* without it none is refused.
NoConnectionLost ==
    /\ \A c \in open :
          \/ \E i \in DOMAIN listed : listed[i] = c
          \/ \E t \in Thread : call[t].st = "append" /\ call[t].conn = c
          \/ c \in refused
    /\ refused # {} => strict

\* A thread can be given a closed connection only while a close() is between
\* closing it and replacing the thread-local: a store that was closed can be
\* used again, by every thread.
ClosedIsForgotten ==
    (\E t \in Thread : cache[t] # 0 /\ cache[t] \notin open) =>
        \E t \in Thread : call[t].st \in {"closing", "replace"}
=============================================================================
