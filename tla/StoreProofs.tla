---------------------------- MODULE StoreProofs ----------------------------
(***************************************************************************)
(* Theorems about Store, for every set of threads, keys, users and tools   *)
(* and any bounds: the types, that SQLiteStorage implements the abstract   *)
(* store, what close() does to connections, and what its callers may lose. *)
(***************************************************************************)
EXTENDS Store, TLAPS

-----------------------------------------------------------------------------
(* The store: steps of one call                                            *)

CallType == [st : State, req : RequestType, answer : AnswerType,
             conn : Conn \cup {0}]

\* What Moves changes.
Moved(t, st, a, c) ==
    /\ call' \in [Thread -> CallType]
    /\ call'[t].st = st /\ call'[t].req = call[t].req
    /\ call'[t].answer = a /\ call'[t].conn = c
    /\ \A u \in Thread \ {t} : call'[u] = call[u]

\* Moves changes the fields it names and keeps the type of call.
LEMMA MovesFields ==
    ASSUME SqliteTypeOK, NEW t \in Thread, NEW st \in State, NEW a \in AnswerType,
           NEW c \in Conn \cup {0}, Moves(t, st, a, c)
    PROVE  Moved(t, st, a, c)
  BY DEF SqliteTypeOK, Moves, Moved, CallType

\* None is an answer, and no thread.
LEMMA NoneIs == None \in AnswerType /\ None \notin Thread
  BY SqliteAssumption DEF AnswerType

\* The types of everything but the calls.
RestTypeOK ==
    /\ disk \in [Key -> Value \cup {None}]
    /\ cache \in [Thread -> Conn \cup {0}]
    /\ open \subseteq Conn /\ refused \subseteq open /\ strict \in BOOLEAN
    /\ listed \in Seq(Conn)
    /\ closing \in Thread \cup {None} /\ writer \in Thread \cup {None}
    /\ \A i, j \in DOMAIN listed : listed[i] = listed[j] => i = j

\* The types, from what a step may do to each of their parts.
LEMMA TypeFromParts ==
    ASSUME SqliteTypeOK, NEW t \in Thread,
           call' \in [Thread -> CallType],
           \A u \in Thread \ {t} : call'[u] = call[u],
           ShapeOK(call'[t]),
           \A u \in Thread : LocksOK(u)' /\ AppendOK(u)',
           RestTypeOK'
    PROVE  SqliteTypeOK'
<1>1. \A u \in Thread : ShapeOK(call[u])'
  BY DEF SqliteTypeOK
<1> QED
  BY <1>1 DEF SqliteTypeOK, RestTypeOK, CallType

\* The parts of the types that a step leaves alone are as they were.
LEMMA RestIs ==
    /\ SqliteTypeOK => RestTypeOK
    /\ RestTypeOK /\ UNCHANGED <<disk, cache, listed, open, refused, strict, closing, writer>> => RestTypeOK'
  BY DEF SqliteTypeOK, RestTypeOK

\* A step of one thread that leaves the connections and the locks alone, as a
\* read does: what holds of the locks and the new connections still does.
LEMMA LocksStay ==
    ASSUME SqliteTypeOK, NEW t \in Thread,
           \A u \in Thread \ {t} : call'[u] = call[u],
           call'[t].st # "append", call'[t].st # "closing", call'[t].st # "commit",
           call[t].st # "closing", call[t].st = "commit" => call[t].conn \notin open,
           UNCHANGED <<listed, open, refused, strict, closing, writer>>
    PROVE  \A u \in Thread : LocksOK(u)' /\ AppendOK(u)'
<1>1. \A u \in Thread : LocksOK(u) /\ AppendOK(u)
  BY DEF SqliteTypeOK
<1>2. ASSUME NEW u \in Thread  PROVE LocksOK(u)'
  BY <1>1 DEF LocksOK
<1>3. ASSUME NEW u \in Thread  PROVE AppendOK(u)'
  BY <1>1 DEF AppendOK
<1> QED
  BY <1>2, <1>3

\* A call that raises, before it has executed anything or at its answer,
\* keeps the types.
LEMMA RaisesType ==
    ASSUME SqliteTypeOK, NEW t \in Thread,
           \/ Unencodable(t) \/ ConnectFails(t) \/ ExecuteFails(t)
           \/ Commit(t) /\ call[t].conn \notin open
           \/ Fetch(t) /\ call[t].conn \notin open
    PROVE  SqliteTypeOK'
<1>1. /\ Moves(t, "raised", None, 0)
      /\ call[t].st \in {"connect", "execute", "commit", "fetch"}
      /\ call[t].st = "commit" => call[t].conn \notin open
      /\ UNCHANGED <<disk, cache, listed, open, refused, strict, closing, writer>>
  BY DEF Unencodable, ConnectFails, ExecuteFails, Commit, Fetch, Raises
<1>2. Moved(t, "raised", None, 0)
  BY <1>1, NoneIs, MovesFields DEF State
<1>3. ShapeOK(call'[t])
  BY <1>1, <1>2 DEF Moved, SqliteTypeOK, ShapeOK
<1>4. \A u \in Thread : LocksOK(u)' /\ AppendOK(u)'
  BY <1>1, <1>2, LocksStay DEF Moved
<1>5. /\ call' \in [Thread -> CallType]
      /\ \A u \in Thread \ {t} : call'[u] = call[u]
  BY <1>2 DEF Moved
<1>20. RestTypeOK'
  BY <1>1, <1>3, <1>4, <1>5, RestIs DEF RestTypeOK
<1> QED
  BY <1>1, <1>3, <1>4, <1>5, <1>20, TypeFromParts

\* Finding the thread's connection keeps the types.
LEMMA ReuseType ==
    ASSUME SqliteTypeOK, NEW t \in Thread, Reuse(t)  PROVE SqliteTypeOK'
<1>1. /\ Moves(t, "execute", None, cache[t])
      /\ call[t].st = "connect" /\ cache[t] # 0 /\ cache[t] \in Conn \cup {0}
      /\ UNCHANGED <<disk, cache, listed, open, refused, strict, closing, writer>>
  BY DEF Reuse, SqliteTypeOK
<1>2. Moved(t, "execute", None, cache[t])
  BY <1>1, NoneIs, MovesFields DEF State
<1>3. ShapeOK(call'[t])
  BY <1>1, <1>2 DEF Moved, SqliteTypeOK, ShapeOK
<1>4. \A u \in Thread : LocksOK(u)' /\ AppendOK(u)'
  BY <1>1, <1>2, LocksStay DEF Moved
<1>5. /\ call' \in [Thread -> CallType]
      /\ \A u \in Thread \ {t} : call'[u] = call[u]
  BY <1>2 DEF Moved
<1>20. RestTypeOK'
  BY <1>1, <1>3, <1>4, <1>5, RestIs DEF RestTypeOK
<1> QED
  BY <1>1, <1>3, <1>4, <1>5, <1>20, TypeFromParts

\* What Connect does: the connection it takes is new in every respect.
LEMMA ConnectIsNew ==
    ASSUME SqliteTypeOK, NEW t \in Thread, Connect(t)
    PROVE  \E c \in Conn \ open :
              /\ Moved(t, "append", None, c)
              /\ call[t].st = "connect"
              /\ cache' = [cache EXCEPT ![t] = c] /\ open' = open \cup {c}
              /\ UNCHANGED <<disk, listed, refused, strict, closing, writer>>
              /\ \A u \in Thread : cache[u] # c /\ call[u].conn # c
              /\ \A i \in DOMAIN listed : listed[i] # c
<1>1. PICK c \in Unused(t) :
          /\ Moves(t, "append", None, c)
          /\ call[t].st = "connect"
          /\ cache' = [cache EXCEPT ![t] = c] /\ open' = open \cup {c}
          /\ UNCHANGED <<disk, listed, refused, strict, closing, writer>>
  BY DEF Connect
<1>2. /\ c \in Conn \ open
      /\ \A u \in Thread : cache[u] # c /\ call[u].conn # c
      /\ \A i \in DOMAIN listed : listed[i] # c
  BY DEF Unused
<1>3. Moved(t, "append", None, c)
  BY <1>1, <1>2, NoneIs, MovesFields DEF State
<1> QED
  BY <1>1, <1>2, <1>3

\* Opening a connection keeps the types.
LEMMA ConnectType ==
    ASSUME SqliteTypeOK, NEW t \in Thread, Connect(t)  PROVE SqliteTypeOK'
<1>1. PICK c \in Conn \ open :
          /\ Moved(t, "append", None, c)
          /\ call[t].st = "connect"
          /\ cache' = [cache EXCEPT ![t] = c] /\ open' = open \cup {c}
          /\ UNCHANGED <<disk, listed, refused, strict, closing, writer>>
          /\ \A u \in Thread : cache[u] # c /\ call[u].conn # c
          /\ \A i \in DOMAIN listed : listed[i] # c
  BY ConnectIsNew
<1>2. ShapeOK(call'[t])
  BY <1>1 DEF Moved, SqliteTypeOK, ShapeOK, Conn
<1>3. ASSUME NEW u \in Thread  PROVE LocksOK(u)' /\ AppendOK(u)'
  BY <1>1 DEF Moved, SqliteTypeOK, LocksOK, AppendOK
<1>4. cache' \in [Thread -> Conn \cup {0}] /\ open' \subseteq Conn
  BY <1>1 DEF SqliteTypeOK
<1>5. /\ call' \in [Thread -> CallType]
      /\ \A u \in Thread \ {t} : call'[u] = call[u]
  BY <1>1 DEF Moved
<1>20. RestTypeOK'
  BY <1>1, <1>2, <1>3, <1>4, <1>5, RestIs DEF RestTypeOK
<1> QED
  BY <1>1, <1>2, <1>3, <1>4, <1>5, <1>20, TypeFromParts

\* Listing a connection keeps the types.
LEMMA AppendType ==
    ASSUME SqliteTypeOK, NEW t \in Thread, AppendConn(t)  PROVE SqliteTypeOK'
<1> DEFINE c == call[t].conn
<1>1. /\ Moves(t, "execute", None, c)
      /\ call[t].st = "append" /\ listed' = Append(listed, c)
      /\ UNCHANGED <<disk, cache, open, refused, strict, closing, writer>>
  BY DEF AppendConn
<1>2. c \in Conn /\ listed \in Seq(Conn)
  BY <1>1 DEF SqliteTypeOK, ShapeOK
<1>3. Moved(t, "execute", None, c)
  BY <1>1, <1>2, NoneIs, MovesFields DEF State
<1>4. /\ listed' \in Seq(Conn)
      /\ DOMAIN listed' = 1..(Len(listed) + 1)
      /\ \A i \in DOMAIN listed' : listed'[i] = IF i \in DOMAIN listed THEN listed[i] ELSE c
  BY <1>1, <1>2
<1>5. \A i \in DOMAIN listed : listed[i] # c
  BY <1>1 DEF SqliteTypeOK, AppendOK
<1> HIDE DEF c
<1>6. \A i, j \in DOMAIN listed' : listed'[i] = listed'[j] => i = j
  BY <1>2, <1>4, <1>5 DEF SqliteTypeOK
<1>7. ShapeOK(call'[t])
  BY <1>1, <1>2, <1>3 DEF Moved, SqliteTypeOK, ShapeOK, c
<1>8. ASSUME NEW u \in Thread  PROVE LocksOK(u)'
  BY <1>1, <1>3 DEF Moved, SqliteTypeOK, LocksOK, AppendOK, c
<1>9. ASSUME NEW u \in Thread  PROVE AppendOK(u)'
  <2>1. CASE u = t
    BY <1>3, <2>1 DEF Moved, AppendOK
  <2>2. CASE u # t /\ call[u].st = "append"
    <3>1. call[u].conn # c /\ call'[u] = call[u]
      BY <1>1, <1>3, <2>2 DEF Moved, SqliteTypeOK, AppendOK, c
    <3>2. \A i \in DOMAIN listed : listed[i] # call[u].conn
      BY <2>2 DEF SqliteTypeOK, AppendOK
    <3>3. \A v \in Thread \ {u} : ~(call'[v].st = "append" /\ call'[v].conn = call[u].conn)
      BY <1>3, <2>2 DEF Moved, SqliteTypeOK, AppendOK
    <3> QED
      BY <1>4, <3>1, <3>2, <3>3 DEF AppendOK
  <2>3. CASE u # t /\ call[u].st # "append"
    BY <1>3, <2>3 DEF Moved, AppendOK
  <2> QED
    BY <2>1, <2>2, <2>3
<1>20. RestTypeOK'
  BY <1>1, <1>3, <1>4, <1>6, <1>7, <1>8, <1>9, RestIs DEF RestTypeOK
<1> QED
  BY <1>3, <1>7, <1>8, <1>9, <1>20, TypeFromParts DEF Moved

\* A write that gets the write lock keeps the types.
LEMMA ExecuteWriteType ==
    ASSUME SqliteTypeOK, NEW t \in Thread, ExecuteWrite(t)  PROVE SqliteTypeOK'
<1>1. /\ Moves(t, "commit", None, call[t].conn)
      /\ call[t].st = "execute" /\ IsWrite(call[t].req)
      /\ call[t].conn \in open /\ writer = None /\ writer' = t
      /\ UNCHANGED <<disk, cache, listed, open, refused, strict, closing>>
  BY DEF ExecuteWrite
<1>2. call[t].conn \in Conn \cup {0}
  BY DEF SqliteTypeOK
<1>3. Moved(t, "commit", None, call[t].conn)
  BY <1>1, <1>2, NoneIs, MovesFields DEF State
<1>4. ShapeOK(call'[t])
  BY <1>1, <1>3 DEF Moved, SqliteTypeOK, ShapeOK
<1>5. ASSUME NEW u \in Thread  PROVE LocksOK(u)' /\ AppendOK(u)'
  <2>1. LocksOK(u) /\ AppendOK(u)
    BY DEF SqliteTypeOK
  <2> QED
    BY <1>1, <1>3, <2>1, NoneIs DEF Moved, LocksOK, AppendOK
<1>6. /\ call' \in [Thread -> CallType]
      /\ \A u \in Thread \ {t} : call'[u] = call[u]
  BY <1>3 DEF Moved
<1>20. RestTypeOK'
  BY <1>1, <1>4, <1>5, <1>6, RestIs DEF RestTypeOK
<1> QED
  BY <1>1, <1>4, <1>5, <1>6, <1>20, TypeFromParts

\* What a read finds is an answer, and a get finds the value of its key.
LEMMA RowsType ==
    ASSUME SqliteTypeOK, NEW req \in Promise!Request, ~IsWrite(req)
    PROVE  /\ Rows(req) \in AnswerType
           /\ req.op = "list" => Rows(req) \in SUBSET req.keys
           /\ req.op = "get" => req.key \in Key /\ Rows(req) = disk[req.key]
<1>1. CASE req.op = "get"
  BY <1>1 DEF SqliteTypeOK, Promise!Request, Rows, AnswerType, IsWrite
<1>2. CASE req.op # "get"
  <2>1. req \in [op : {"list"}, keys : SUBSET Key]
    BY <1>2 DEF Promise!Request, IsWrite
  <2> QED
    BY <1>2, <2>1 DEF Rows, AnswerType
<1> QED
  BY <1>1, <1>2

\* A read keeps the types.
LEMMA ExecuteReadType ==
    ASSUME SqliteTypeOK, NEW t \in Thread, ExecuteRead(t)  PROVE SqliteTypeOK'
<1> DEFINE rows == Rows(call[t].req)
<1>1. /\ Moves(t, "fetch", rows, call[t].conn)
      /\ call[t].st = "execute" /\ ~IsWrite(call[t].req)
      /\ UNCHANGED <<disk, cache, listed, open, refused, strict, closing, writer>>
  BY DEF ExecuteRead
<1>2. call[t].conn \in Conn \cup {0} /\ call[t].req \in Promise!Request
  BY <1>1 DEF SqliteTypeOK, ShapeOK
<1>3. rows \in AnswerType /\ (call[t].req.op = "list" => rows \in SUBSET call[t].req.keys)
  BY <1>1, <1>2, RowsType
<1> HIDE DEF rows
<1>4. Moved(t, "fetch", rows, call[t].conn)
  BY <1>1, <1>2, <1>3, MovesFields DEF State
<1>5. ShapeOK(call'[t])
  BY <1>1, <1>3, <1>4 DEF Moved, SqliteTypeOK, ShapeOK
<1>6. \A u \in Thread : LocksOK(u)' /\ AppendOK(u)'
  BY <1>1, <1>4, LocksStay DEF Moved
<1>7. /\ call' \in [Thread -> CallType]
      /\ \A u \in Thread \ {t} : call'[u] = call[u]
  BY <1>4 DEF Moved
<1>20. RestTypeOK'
  BY <1>1, <1>5, <1>6, <1>7, RestIs DEF RestTypeOK
<1> QED
  BY <1>1, <1>5, <1>6, <1>7, <1>20, TypeFromParts

\* What a commit on an open connection does: the row of the key of its request.
LEMMA CommitDoes ==
    ASSUME SqliteTypeOK, NEW t \in Thread, Commit(t), call[t].conn \in open
    PROVE  /\ Moved(t, "done", None, 0)
           /\ call[t].st = "commit" /\ writer = t /\ writer' = None
           /\ UNCHANGED <<cache, listed, open, refused, strict, closing>>
           /\ \/ /\ call[t].req \in [op : {"put"}, key : Key, value : Value]
                 /\ disk' = [disk EXCEPT ![call[t].req.key] = call[t].req.value]
              \/ /\ call[t].req \in [op : {"delete"}, key : Key]
                 /\ disk' = [disk EXCEPT ![call[t].req.key] = None]
<1>1. /\ Moves(t, "done", None, 0)
      /\ call[t].st = "commit" /\ writer' = None
      /\ UNCHANGED <<cache, listed, open, refused, strict, closing>>
      /\ disk' = [disk EXCEPT ![call[t].req.key] =
                     IF call[t].req.op = "put" THEN call[t].req.value ELSE None]
  BY DEF Commit, Answers
<1>2. writer = t /\ call[t].req \in Promise!Request /\ IsWrite(call[t].req)
  BY <1>1 DEF SqliteTypeOK, LocksOK, ShapeOK
<1>3. Moved(t, "done", None, 0)
  BY <1>1, NoneIs, MovesFields DEF State
<1>4. \/ call[t].req \in [op : {"put"}, key : Key, value : Value]
      \/ call[t].req \in [op : {"delete"}, key : Key]
  BY <1>2 DEF Promise!Request, IsWrite
<1> QED
  BY <1>1, <1>2, <1>3, <1>4

\* A commit keeps the types.
LEMMA CommitType ==
    ASSUME SqliteTypeOK, NEW t \in Thread, Commit(t), call[t].conn \in open
    PROVE  SqliteTypeOK'
<1>1. /\ Moved(t, "done", None, 0)
      /\ call[t].st = "commit" /\ writer = t /\ writer' = None
      /\ UNCHANGED <<cache, listed, open, refused, strict, closing>>
      /\ \/ /\ call[t].req \in [op : {"put"}, key : Key, value : Value]
            /\ disk' = [disk EXCEPT ![call[t].req.key] = call[t].req.value]
         \/ /\ call[t].req \in [op : {"delete"}, key : Key]
            /\ disk' = [disk EXCEPT ![call[t].req.key] = None]
  BY CommitDoes
<1>2. ShapeOK(call'[t])
  BY <1>1 DEF Moved, SqliteTypeOK, ShapeOK, IsWrite
<1>3. ASSUME NEW u \in Thread  PROVE LocksOK(u)' /\ AppendOK(u)'
  <2>1. LocksOK(u) /\ AppendOK(u)
    BY DEF SqliteTypeOK
  <2> QED
    BY <1>1, <2>1, NoneIs DEF Moved, LocksOK, AppendOK
<1>4. /\ call' \in [Thread -> CallType]
      /\ \A u \in Thread \ {t} : call'[u] = call[u]
  BY <1>1 DEF Moved
<1>5. disk' \in [Key -> Value \cup {None}]
  BY <1>1 DEF SqliteTypeOK
<1>20. RestTypeOK'
  BY <1>1, <1>2, <1>3, <1>4, <1>5, RestIs DEF RestTypeOK
<1> QED
  BY <1>1, <1>2, <1>3, <1>4, <1>5, <1>20, TypeFromParts

\* An answer that is read keeps the types.
LEMMA FetchType ==
    ASSUME SqliteTypeOK, NEW t \in Thread, Fetch(t), call[t].conn \in open
    PROVE  SqliteTypeOK'
<1> DEFINE a == call[t].answer
<1>1. /\ Moves(t, "done", a, 0)
      /\ call[t].st = "fetch" /\ a \in AnswerType
      /\ UNCHANGED <<disk, cache, listed, open, refused, strict, closing, writer>>
  BY DEF Fetch, Answers, SqliteTypeOK
<1>2. Moved(t, "done", a, 0)
  BY <1>1, MovesFields DEF State
<1>3. ShapeOK(call'[t])
  BY <1>1, <1>2 DEF Moved, SqliteTypeOK, ShapeOK
<1>4. \A u \in Thread : LocksOK(u)' /\ AppendOK(u)'
  BY <1>1, <1>2, LocksStay DEF Moved
<1>5. /\ call' \in [Thread -> CallType]
      /\ \A u \in Thread \ {t} : call'[u] = call[u]
  BY <1>2 DEF Moved
<1>20. RestTypeOK'
  BY <1>1, <1>3, <1>4, <1>5, RestIs DEF RestTypeOK
<1> QED
  BY <1>1, <1>3, <1>4, <1>5, <1>20, TypeFromParts

\* close() that takes the lock keeps the types.
LEMMA CloseBeginType ==
    ASSUME SqliteTypeOK, NEW t \in Thread, CloseBegin(t)  PROVE SqliteTypeOK'
<1>1. /\ Moves(t, "closing", None, 0)
      /\ call[t].st = "lock" /\ closing = None /\ closing' = t
      /\ UNCHANGED <<disk, cache, listed, open, refused, strict, writer>>
  BY DEF CloseBegin
<1>2. Moved(t, "closing", None, 0)
  BY <1>1, NoneIs, MovesFields DEF State
<1>3. ShapeOK(call'[t])
  BY <1>1, <1>2 DEF Moved, SqliteTypeOK, ShapeOK
<1>4. ASSUME NEW u \in Thread  PROVE LocksOK(u)' /\ AppendOK(u)'
  <2>1. LocksOK(u) /\ AppendOK(u)
    BY DEF SqliteTypeOK
  <2> QED
    BY <1>1, <1>2, <2>1, NoneIs DEF Moved, LocksOK, AppendOK
<1>5. /\ call' \in [Thread -> CallType]
      /\ \A u \in Thread \ {t} : call'[u] = call[u]
  BY <1>2 DEF Moved
<1>20. RestTypeOK'
  BY <1>1, RestIs DEF RestTypeOK
<1> QED
  BY <1>3, <1>4, <1>5, <1>20, TypeFromParts

\* What closing one connection does, whichever it is.
LEMMA CloseOneDoes ==
    ASSUME NEW t \in Thread, CloseOne(t)
    PROVE  \E c : /\ call[t].st = "closing"
                  /\ open' = open \ {c} /\ c \notin refused
                  /\ writer' = IF writer # None /\ call[writer].conn = c
                               THEN None ELSE writer
                  /\ UNCHANGED <<disk, call, cache, listed, refused, strict, closing>>
<1>1. \A c \in NextToClose : c \notin refused
  BY DEF NextToClose, StillOpen
<1> QED
  BY <1>1 DEF CloseOne

\* What a connection that refuses to be closed changes: the history.
LEMMA CloseRefusedDoes ==
    ASSUME NEW t \in Thread, CloseRefused(t)
    PROVE  /\ \E c \in open : refused' = refused \cup {c}
           /\ strict /\ call[t].st = "closing"
           /\ UNCHANGED <<disk, call, cache, listed, open, strict, closing, writer>>
<1>1. \A c \in NextToClose : c \in open
  BY DEF NextToClose, StillOpen
<1> QED
  BY <1>1 DEF CloseRefused

\* So the types are as they were.
LEMMA CloseRefusedType ==
    ASSUME SqliteTypeOK, NEW t \in Thread, CloseRefused(t)  PROVE SqliteTypeOK'
<1>1. /\ refused' \subseteq open
      /\ UNCHANGED <<disk, call, cache, listed, open, strict, closing, writer>>
  BY CloseRefusedDoes DEF SqliteTypeOK
<1>2. ASSUME NEW u \in Thread  PROVE LocksOK(u)' /\ AppendOK(u)'
  <2>1. LocksOK(u) /\ AppendOK(u)
    BY DEF SqliteTypeOK
  <2> QED
    BY <1>1, <2>1 DEF LocksOK, AppendOK
<1>3. call' \in [Thread -> CallType] /\ ShapeOK(call'[t])
  BY <1>1 DEF SqliteTypeOK, CallType
<1>4. RestTypeOK'
  BY <1>1, RestIs DEF RestTypeOK
<1> QED
  BY <1>1, <1>2, <1>3, <1>4, TypeFromParts

\* Closing a connection keeps the types: the lock goes with the transaction.
LEMMA CloseOneType ==
    ASSUME SqliteTypeOK, NEW t \in Thread, CloseOne(t)  PROVE SqliteTypeOK'
<1>1. PICK c : /\ call[t].st = "closing"
               /\ open' = open \ {c} /\ c \notin refused
               /\ writer' = IF writer # None /\ call[writer].conn = c
                            THEN None ELSE writer
               /\ UNCHANGED <<disk, call, cache, listed, refused, strict, closing>>
  BY CloseOneDoes
<1>2. ASSUME NEW u \in Thread  PROVE LocksOK(u)' /\ AppendOK(u)'
  <2>1. LocksOK(u) /\ AppendOK(u)
    BY DEF SqliteTypeOK
  <2> QED
    BY <1>1, <2>1, NoneIs DEF LocksOK, AppendOK
<1>3. call' \in [Thread -> CallType] /\ ShapeOK(call'[t])
  BY <1>1 DEF SqliteTypeOK, CallType
<1>20. RestTypeOK'
  BY <1>1, RestIs DEF RestTypeOK
<1> QED
  BY <1>1, <1>2, <1>3, <1>20, TypeFromParts

\* Forgetting the connections keeps the types.
LEMMA CloseClearType ==
    ASSUME SqliteTypeOK, NEW t \in Thread, CloseClear(t)  PROVE SqliteTypeOK'
<1>1. /\ Moves(t, "replace", None, 0)
      /\ call[t].st = "closing" /\ closing' = None /\ listed' = <<>>
      /\ UNCHANGED <<disk, cache, open, refused, strict, writer>>
  BY DEF CloseClear
<1>2. Moved(t, "replace", None, 0)
  BY <1>1, NoneIs, MovesFields DEF State
<1>3. ShapeOK(call'[t])
  BY <1>1, <1>2 DEF Moved, SqliteTypeOK, ShapeOK
<1>4. closing = t
  BY <1>1 DEF SqliteTypeOK, LocksOK
<1>5. ASSUME NEW u \in Thread  PROVE LocksOK(u)' /\ AppendOK(u)'
  <2>1. LocksOK(u) /\ AppendOK(u)
    BY DEF SqliteTypeOK
  <2> QED
    BY <1>1, <1>2, <1>4, <2>1, NoneIs DEF Moved, LocksOK, AppendOK
<1>6. /\ call' \in [Thread -> CallType]
      /\ \A u \in Thread \ {t} : call'[u] = call[u]
  BY <1>2 DEF Moved
<1>20. RestTypeOK'
  BY <1>1, RestIs DEF RestTypeOK
<1> QED
  BY <1>3, <1>5, <1>6, <1>20, TypeFromParts

\* Replacing the thread-local keeps the types.
LEMMA CloseReplaceType ==
    ASSUME SqliteTypeOK, NEW t \in Thread, CloseReplace(t)  PROVE SqliteTypeOK'
<1>1. /\ Moves(t, "done", None, 0)
      /\ call[t].st = "replace" /\ cache' = [u \in Thread |-> 0]
      /\ UNCHANGED <<disk, listed, open, refused, strict, closing, writer>>
  BY DEF CloseReplace, Answers
<1>2. Moved(t, "done", None, 0)
  BY <1>1, NoneIs, MovesFields DEF State
<1>3. ShapeOK(call'[t])
  <2>1. call[t].req = Close /\ Close.op = "close"
    BY <1>1 DEF SqliteTypeOK, ShapeOK, Close
  <2> QED
    BY <1>1, <1>2, <2>1 DEF Moved, ShapeOK
<1>4. \A u \in Thread : LocksOK(u)' /\ AppendOK(u)'
  BY <1>1, <1>2, LocksStay DEF Moved
<1>5. /\ call' \in [Thread -> CallType]
      /\ \A u \in Thread \ {t} : call'[u] = call[u]
  BY <1>2 DEF Moved
<1>20. RestTypeOK'
  BY <1>1, RestIs DEF RestTypeOK
<1> QED
  BY <1>3, <1>4, <1>5, <1>20, TypeFromParts

\* Every step of a call keeps the types of the store.
LEMMA StoreStepType ==
    ASSUME SqliteTypeOK, NEW t \in Thread, StoreStep(t)  PROVE SqliteTypeOK'
<1>1. CASE Commit(t)
  BY <1>1, RaisesType, CommitType
<1>2. CASE Fetch(t)
  BY <1>2, RaisesType, FetchType
<1>3. CASE ~Commit(t) /\ ~Fetch(t)
  BY <1>3, RaisesType, ReuseType, ConnectType, AppendType, ExecuteWriteType,
     ExecuteReadType, CloseBeginType, CloseOneType, CloseRefusedType,
     CloseClearType, CloseReplaceType DEF StoreStep
<1> QED
  BY <1>1, <1>2, <1>3

-----------------------------------------------------------------------------
(* The store: steps of its callers, restarts                               *)

\* What a caller does to the store: it begins a call or takes the end of one.
Calls(t, next) ==
    /\ call[t].st \in {"idle", "done", "raised"}
    /\ call' = [call EXCEPT ![t] = next]
    /\ next = NoCall \/ \E req \in Promise!Request \cup {Close} : next = Asked(req)
    /\ UNCHANGED <<disk, cache, listed, open, refused, strict, closing, writer>>

\* A caller keeps the types of the store.
LEMMA CallsType ==
    ASSUME SqliteTypeOK, NEW t \in Thread, NEW next, Calls(t, next)
    PROVE  SqliteTypeOK'
<1>1. /\ next \in CallType /\ ShapeOK(next)
      /\ next.st \in {"idle", "lock", "connect"}
  <2>1. CASE next = NoCall
    BY <2>1, NoneIs DEF NoCall, CallType, State, RequestType, ShapeOK
  <2>2. ASSUME NEW req \in Promise!Request, next = Asked(req)
        PROVE  next \in CallType /\ ShapeOK(next) /\ next.st = "connect"
    <3>1. req.op # "close"
      BY DEF Promise!Request
    <3> QED
      BY <2>2, <3>1, NoneIs DEF Asked, CallType, State, RequestType, ShapeOK
  <2>3. CASE next = Asked(Close)
    BY <2>3, NoneIs DEF Asked, Close, CallType, State, RequestType, ShapeOK
  <2> QED
    BY <2>1, <2>2, <2>3 DEF Calls
<1>2. /\ call' \in [Thread -> CallType] /\ call'[t] = next
      /\ \A u \in Thread \ {t} : call'[u] = call[u]
  BY <1>1 DEF Calls, SqliteTypeOK, CallType
<1>3. \A u \in Thread : LocksOK(u)' /\ AppendOK(u)'
  BY <1>1, <1>2, LocksStay DEF Calls
<1>4. RestTypeOK'
  BY RestIs DEF Calls
<1> QED
  BY <1>1, <1>2, <1>3, <1>4, TypeFromParts

\* A store that was just opened on rows of the right types has its types.
LEMMA OpenedType ==
    ASSUME disk \in [Key -> Value \cup {None}], Opened  PROVE SqliteTypeOK
<1>1. /\ call = [t \in Thread |-> NoCall]
      /\ cache \in [Thread -> Conn \cup {0}]
      /\ listed \in Seq(Conn) /\ open \subseteq Conn
      /\ refused \subseteq open /\ strict \in BOOLEAN
      /\ \A i, j \in DOMAIN listed : listed[i] = listed[j] => i = j
      /\ closing = None /\ writer = None
  BY SqliteAssumption DEF Opened, Conn
<1>2. NoCall \in CallType /\ ShapeOK(NoCall)
  BY NoneIs DEF NoCall, CallType, State, RequestType, ShapeOK
<1>3. \A t \in Thread : LocksOK(t) /\ AppendOK(t)
  BY <1>1, NoneIs DEF LocksOK, AppendOK, NoCall
<1> QED
  BY <1>1, <1>2, <1>3 DEF SqliteTypeOK, CallType

\* So has one that was opened again.
LEMMA ReopenType ==
    ASSUME SqliteTypeOK, Reopen  PROVE SqliteTypeOK'
<1>1. /\ call' = [t \in Thread |-> NoCall]
      /\ cache' \in [Thread -> Conn \cup {0}]
      /\ listed' \in Seq(Conn) /\ open' \subseteq Conn
      /\ refused' \subseteq open' /\ strict' \in BOOLEAN
      /\ \A i, j \in DOMAIN listed' : listed'[i] = listed'[j] => i = j
      /\ closing' = None /\ writer' = None /\ disk' \in [Key -> Value \cup {None}]
  BY SqliteAssumption DEF Reopen, Conn, SqliteTypeOK
<1>2. NoCall \in CallType /\ ShapeOK(NoCall)
  BY NoneIs DEF NoCall, CallType, State, RequestType, ShapeOK
<1>3. \A t \in Thread : LocksOK(t)' /\ AppendOK(t)'
  BY <1>1, NoneIs DEF LocksOK, AppendOK, NoCall
<1> QED
  BY <1>1, <1>2, <1>3 DEF SqliteTypeOK, CallType

-----------------------------------------------------------------------------
(* Connections                                                             *)

\* A step that leaves the connections alone and takes no call off the place
\* where it is about to list one loses none.
LEMMA ConnectionsStay ==
    ASSUME NoConnectionLost, UNCHANGED <<open, listed, refused, strict>>,
           \A t \in Thread : call[t].st = "append" => call'[t] = call[t]
    PROVE  NoConnectionLost'
  BY DEF NoConnectionLost

\* No step of a call loses a connection.
LEMMA StoreStepConnections ==
    ASSUME SqliteTypeOK, NoConnectionLost, NEW t \in Thread, StoreStep(t)
    PROVE  NoConnectionLost'
<1>1. CASE Connect(t)
  <2>1. PICK c \in Conn \ open :
            /\ Moved(t, "append", None, c) /\ call[t].st = "connect"
            /\ open' = open \cup {c} /\ UNCHANGED <<listed, refused, strict>>
    BY <1>1, ConnectIsNew
  <2>2. \A u \in Thread : call[u].st = "append" => call'[u] = call[u]
    BY <2>1 DEF Moved
  <2> QED
    BY <2>1, <2>2 DEF NoConnectionLost, Moved
<1>2. CASE AppendConn(t)
  <2>1. /\ call[t].conn \in Conn \cup {0} /\ listed \in Seq(Conn)
        /\ Moves(t, "execute", None, call[t].conn)
        /\ call[t].st = "append" /\ listed' = Append(listed, call[t].conn)
        /\ UNCHANGED <<open, refused, strict>>
    BY <1>2 DEF AppendConn, SqliteTypeOK
  <2>2. Moved(t, "execute", None, call[t].conn)
    BY <2>1, NoneIs, MovesFields DEF State
  <2>3. /\ \A i \in DOMAIN listed : i \in DOMAIN listed' /\ listed'[i] = listed[i]
        /\ Len(listed) + 1 \in DOMAIN listed'
        /\ listed'[Len(listed) + 1] = call[t].conn
    BY <1>2, <2>1 DEF SqliteTypeOK, ShapeOK
  <2> QED
    BY <2>1, <2>2, <2>3 DEF NoConnectionLost, Moved
<1>3. CASE CloseOne(t)
  BY <1>3, CloseOneDoes DEF NoConnectionLost
<1>6. CASE CloseRefused(t)
  BY <1>6, CloseRefusedDoes DEF NoConnectionLost
<1>4. CASE CloseClear(t)
  <2>1. /\ Moves(t, "replace", None, 0) /\ call[t].st = "closing"
        /\ \A i \in DOMAIN listed : listed[i] \notin open \/ listed[i] \in refused
        /\ UNCHANGED <<open, refused, strict>>
    BY <1>4 DEF CloseClear, StillOpen
  <2>2. Moved(t, "replace", None, 0)
    BY <2>1, NoneIs, MovesFields DEF State
  <2> QED
    BY <2>1, <2>2 DEF NoConnectionLost, Moved
<1>5. CASE ~Connect(t) /\ ~AppendConn(t) /\ ~CloseOne(t) /\ ~CloseRefused(t) /\ ~CloseClear(t)
  <2>1. /\ UNCHANGED <<open, listed, refused, strict>> /\ call[t].st # "append"
        /\ \E st, a, c : Moves(t, st, a, c)
    BY <1>5 DEF StoreStep, Unencodable, Reuse, ConnectFails, ExecuteWrite, ExecuteRead,
       ExecuteFails, Commit, Fetch, CloseBegin, CloseReplace, Answers, Raises
  <2>2. \A u \in Thread \ {t} : call'[u] = call[u]
    BY <2>1 DEF Moves, SqliteTypeOK
  <2> QED
    BY <2>1, <2>2, ConnectionsStay
<1> QED
  BY <1>1, <1>2, <1>3, <1>4, <1>5, <1>6

\* A close is between closing connections and replacing the thread-local.
Closes(t) == call[t].st \in {"closing", "replace"}

\* No step of a call leaves a closed connection in the thread-local, unless a
\* close is about to replace it.
LEMMA StoreStepForgets ==
    ASSUME SqliteTypeOK, ClosedIsForgotten, NEW t \in Thread, StoreStep(t)
    PROVE  ClosedIsForgotten'
<1>1. CASE Connect(t)
  <2>1. PICK c \in Conn \ open :
            /\ Moved(t, "append", None, c) /\ call[t].st = "connect"
            /\ cache' = [cache EXCEPT ![t] = c] /\ open' = open \cup {c}
    BY <1>1, ConnectIsNew
  <2>2. \A u \in Thread : Closes(u) => Closes(u)'
    BY <2>1 DEF Moved, Closes
  <2>3. \A u \in Thread : cache'[u] # 0 /\ cache'[u] \notin open' =>
                             cache[u] # 0 /\ cache[u] \notin open
    BY <2>1 DEF SqliteTypeOK
  <2> QED
    BY <2>2, <2>3 DEF ClosedIsForgotten, Closes
<1>2. CASE CloseOne(t)
  BY <1>2, CloseOneDoes DEF ClosedIsForgotten
<1>6. CASE CloseRefused(t)
  BY <1>6, CloseRefusedDoes DEF ClosedIsForgotten
<1>3. CASE CloseClear(t)
  <2>1. Moves(t, "replace", None, 0)
    BY <1>3 DEF CloseClear
  <2>2. Moved(t, "replace", None, 0)
    BY <2>1, NoneIs, MovesFields DEF State
  <2> QED
    BY <2>2 DEF ClosedIsForgotten, Moved
<1>4. CASE CloseReplace(t)
  BY <1>4 DEF CloseReplace, ClosedIsForgotten
<1>5. CASE ~Connect(t) /\ ~CloseOne(t) /\ ~CloseRefused(t) /\ ~CloseClear(t) /\ ~CloseReplace(t)
  <2>1. /\ UNCHANGED <<open, cache>> /\ ~Closes(t)
        /\ \E st, a, c : Moves(t, st, a, c)
    BY <1>5 DEF StoreStep, Unencodable, Reuse, ConnectFails, AppendConn, ExecuteWrite,
       ExecuteRead, ExecuteFails, Commit, Fetch, CloseBegin, Answers, Raises, Closes
  <2>2. \A u \in Thread \ {t} : call'[u] = call[u]
    BY <2>1 DEF Moves, SqliteTypeOK
  <2> QED
    BY <2>1, <2>2 DEF ClosedIsForgotten, Closes
<1> QED
  BY <1>1, <1>2, <1>3, <1>4, <1>5, <1>6

\* Neither does a caller, nor a restart.
LEMMA CallsConnections ==
    ASSUME SqliteTypeOK, NoConnectionLost, ClosedIsForgotten,
           \/ Reopen
           \/ \E t \in Thread : \E next : Calls(t, next)
    PROVE  NoConnectionLost' /\ ClosedIsForgotten'
<1>1. CASE Reopen
  BY <1>1 DEF Reopen, NoConnectionLost, ClosedIsForgotten
<1>2. ASSUME NEW t \in Thread, NEW next, Calls(t, next)
      PROVE  NoConnectionLost' /\ ClosedIsForgotten'
  <2>1. /\ UNCHANGED <<open, listed, cache, refused, strict>>
        /\ \A u \in Thread : call[u].st \in {"append", "closing", "replace"} =>
                                call'[u] = call[u]
    BY <1>2 DEF Calls, SqliteTypeOK
  <2> QED
    BY <2>1 DEF NoConnectionLost, ClosedIsForgotten
<1> QED
  BY <1>1, <1>2

-----------------------------------------------------------------------------
(* Profiles                                                                *)

\* What comes out of the store, and what is put into it, are profiles.
LEMMA ProfileTypes ==
    /\ NoProfile \in ProfileOf
    /\ \A p \in ProfileOf \cup {None} : FromStore(p) \in ProfileOf
    /\ \A p \in ProfileOf, f \in Field, fact \in Fact, conf \in UpdateConf :
          SetField(p, f, fact, conf) \in ProfileOf
    /\ \A x \in Extractions : LearnedProfile(x) \in ProfileOf
    /\ \A p, q \in ProfileOf : Merge(p, q) \in ProfileOf
<1>1. NoProfile \in ProfileOf
  BY DEF NoProfile, ProfileOf
<1>2. ASSUME NEW p \in ProfileOf \cup {None}  PROVE FromStore(p) \in ProfileOf
  <2>1. ASSUME NEW e \in {None} \cup [value : Fact, confidence : Confidence]
        PROVE  Decoded(e) \in {None} \cup [value : Fact, confidence : Confidence]
    BY ContinuityAssumption DEF Decoded, Explicit
  <2> QED
    BY <1>1, <2>1 DEF FromStore, ProfileOf
<1>3. ASSUME NEW p \in ProfileOf, NEW f \in Field, NEW fact \in Fact, NEW conf \in UpdateConf
      PROVE  SetField(p, f, fact, conf) \in ProfileOf
  <2>1. Entry(fact, conf) \in [value : Fact, confidence : Confidence]
    BY ContinuityAssumption DEF Entry
  <2> QED
    BY <2>1 DEF SetField, ProfileOf
<1>4. ASSUME NEW x \in Extractions  PROVE LearnedProfile(x) \in ProfileOf
  <2>1. \A fact \in Fact : Entry(fact, Learned) \in [value : Fact, confidence : Confidence]
    BY ContinuityAssumption DEF Entry
  <2>2. x \in [Field -> Fact \cup {None}]
    BY ContinuityAssumption
  <2> QED
    BY <2>1, <2>2 DEF LearnedProfile, ProfileOf
<1>5. ASSUME NEW p \in ProfileOf, NEW q \in ProfileOf  PROVE Merge(p, q) \in ProfileOf
  BY DEF Merge, ProfileOf
<1> QED
  BY <1>1, <1>2, <1>3, <1>4, <1>5

-----------------------------------------------------------------------------
(* What a step of a call does, as its caller sees it                       *)

\* The row a write changes.
Wrote(req) ==
    \/ /\ req \in [op : {"put"}, key : Key, value : Value]
       /\ disk' = [disk EXCEPT ![req.key] = req.value]
    \/ /\ req \in [op : {"delete"}, key : Key]
       /\ disk' = [disk EXCEPT ![req.key] = None]

\* A step of a call keeps its request, does not end it, changes no row but the
\* one it commits, and answers only what it was given or what is in the rows.
Advances(t) ==
    /\ \A u \in Thread \ {t} : call'[u] = call[u]
    /\ call'[t].req = call[t].req
    /\ call'[t].st # "idle" /\ call[t].st \notin {"idle", "done", "raised"}
    /\ \/ call'[t].answer \in {None, call[t].answer}
       \/ /\ call[t].req \in Promise!Request /\ ~IsWrite(call[t].req)
          /\ call'[t].answer = Rows(call[t].req)
    /\ \/ UNCHANGED disk
       \/ call[t].st = "commit" /\ call'[t].st = "done" /\ Wrote(call[t].req)
    /\ call'[t].st = "done" /\ IsWrite(call[t].req) =>
          call[t].st = "commit" /\ Wrote(call[t].req)

\* Every step of a call is such a step.
LEMMA StoreStepAdvances ==
    ASSUME SqliteTypeOK, NEW t \in Thread, StoreStep(t)  PROVE Advances(t)
<1>1. CASE Commit(t) /\ call[t].conn \in open
  BY <1>1, CommitDoes DEF Advances, Moved, Wrote
<1>2. CASE CloseOne(t)
  BY <1>2, CloseOneDoes DEF Advances
<1>5. CASE CloseRefused(t)
  BY <1>5, CloseRefusedDoes DEF Advances
<1>3. CASE ExecuteRead(t)
  <2>1. /\ Moves(t, "fetch", Rows(call[t].req), call[t].conn)
        /\ call[t].req \in Promise!Request /\ ~IsWrite(call[t].req)
        /\ call[t].conn \in Conn \cup {0} /\ call[t].st = "execute" /\ UNCHANGED disk
    BY <1>3 DEF ExecuteRead, SqliteTypeOK, ShapeOK
  <2>2. Rows(call[t].req) \in AnswerType
    BY <2>1, RowsType
  <2>3. Moved(t, "fetch", Rows(call[t].req), call[t].conn)
    BY <2>1, <2>2, MovesFields DEF State
  <2> QED
    BY <2>1, <2>3 DEF Advances, Moved
<1>4. CASE /\ ~(Commit(t) /\ call[t].conn \in open) /\ ~ExecuteRead(t)
           /\ ~CloseOne(t) /\ ~CloseRefused(t)
  <2>1. /\ UNCHANGED disk /\ call[t].st \notin {"idle", "done", "raised"}
        /\ \E st \in State \ {"idle"}, a \in {None, call[t].answer}, c \in Conn \cup {0} :
              Moves(t, st, a, c) /\ (st = "done" => call[t].st \in {"fetch", "replace"})
    <3>1. CASE Connect(t)
      BY <3>1 DEF Connect, Unused, State
    <3>2. CASE ~Connect(t)
      BY <1>4, <3>2 DEF StoreStep, Unencodable, Reuse, ConnectFails, AppendConn, ExecuteWrite,
         ExecuteFails, Commit, Fetch, CloseBegin, CloseClear, CloseReplace, Answers, Raises,
         State, SqliteTypeOK
    <3> QED
      BY <3>1, <3>2
  <2>2. PICK st \in State \ {"idle"}, a \in {None, call[t].answer}, c \in Conn \cup {0} :
            Moves(t, st, a, c) /\ (st = "done" => call[t].st \in {"fetch", "replace"})
    BY <2>1
  <2>3. a \in AnswerType
    BY NoneIs DEF SqliteTypeOK
  <2>4. Moved(t, st, a, c)
    BY <2>2, <2>3, MovesFields
  <2>5. st = "done" => ~IsWrite(call[t].req)
    <3>1. call[t].st = "replace" => call[t].req.op = "close"
      <4>1. call[t].st = "replace" => call[t].req = Close
        BY DEF SqliteTypeOK, ShapeOK
      <4> QED
        BY <4>1 DEF Close
    <3>2. call[t].st = "fetch" => ~IsWrite(call[t].req)
      BY DEF SqliteTypeOK, ShapeOK
    <3> QED
      BY <2>2, <3>1, <3>2 DEF IsWrite
  <2> QED
    BY <2>1, <2>4, <2>5 DEF Advances, Moved
<1> QED
  BY <1>1, <1>2, <1>3, <1>4, <1>5

-----------------------------------------------------------------------------
(* The callers: types                                                      *)

\* What Continuity writes: the profile it has made of the one it loaded.
WritesProfile(t) ==
    /\ task[t].user \in User /\ task[t].at = "save"
    /\ \/ task[t].op = "delete" /\ disk' = [disk EXCEPT ![task[t].user] = None]
       \/ \E p \in ProfileOf :
             /\ disk' = [disk EXCEPT ![task[t].user] = p]
             /\ task[t].loaded \in ProfileOf
             /\ \/ /\ task[t].op = "update"
                   /\ \E f \in Field, fact \in Fact, conf \in UpdateConf :
                         p = SetField(task[t].loaded, f, fact, conf)
                \/ /\ task[t].op = "learn"
                   /\ \E x \in Extractions : p = Merge(task[t].loaded, LearnedProfile(x))

\* What the registry writes: the description it has registered, or nothing.
WritesTool(t) ==
    /\ chore[t].tool \in Tool
    /\ \/ /\ chore[t].op = "register"
          /\ \E d \in Description : /\ call[t].req = Put(chore[t].tool, d)
                                    /\ disk' = [disk EXCEPT ![chore[t].tool] = d]
       \/ chore[t].op = "unregister" /\ disk' = [disk EXCEPT ![chore[t].tool] = None]

\* There is nothing else that is written.
LEMMA WriteIs ==
    ASSUME TypeOK, NEW t \in Thread, call[t].st = "commit", Wrote(call[t].req)
    PROVE  WritesProfile(t) \/ WritesTool(t)
<1> DEFINE req == call[t].req
<1>1. /\ req.op \in {"put", "delete"} /\ req # Close /\ ~Idle(t)
      /\ TaskOK(t) /\ ChoreOK(t) /\ CallerOK(t)
      /\ task[t].op \in {"none", "update", "learn", "delete", "list"}
      /\ task[t].at \in {"none", "load", "save"}
      /\ chore[t].op \in {"none", "register", "unregister", "load"}
  BY DEF Wrote, Close, TypeOK, ContinuityTypeOK, ToolTypeOK, Idle
<1>2. \/ req.op = "put" /\ disk' = [disk EXCEPT ![req.key] = req.value]
      \/ req.op = "delete" /\ disk' = [disk EXCEPT ![req.key] = None]
  <2>1. /\ req \in [op : {"put"}, key : Key, value : Value] => req.op = "put"
        /\ req \in [op : {"delete"}, key : Key] => req.op = "delete"
    OBVIOUS
  <2> HIDE DEF req
  <2>2. Wrote(req)
    BY DEF req
  <2> QED
    BY <2>1, <2>2 DEF Wrote
<1> HIDE DEF req
<1>3. \A k, v : req = Put(k, v) => disk' = [disk EXCEPT ![k] = v]
  <2> SUFFICES ASSUME NEW k, NEW v, req = Put(k, v)
               PROVE  disk' = [disk EXCEPT ![k] = v]
    OBVIOUS
  <2>1. req.op = "put" /\ req.key = k /\ req.value = v
    BY DEF Put
  <2> QED
    BY <1>2, <2>1
<1>4. \A k : req = Delete(k) => disk' = [disk EXCEPT ![k] = None]
  <2> SUFFICES ASSUME NEW k, req = Delete(k)  PROVE disk' = [disk EXCEPT ![k] = None]
    OBVIOUS
  <2>1. req.op = "delete" /\ req.key = k
    BY DEF Delete
  <2> QED
    BY <1>2, <2>1
<1>5. task[t] # NoTask \/ chore[t] # NoChore
  BY <1>1 DEF CallerOK, req
<1>6. CASE task[t] # NoTask
  <2>1. CASE task[t].op \in {"update", "learn"}
    <3>1. task[t].at = "save" /\ task[t].user \in User /\ task[t].loaded \in ProfileOf
      BY <1>1, <1>6, <2>1 DEF TaskOK, Get, req
    <3>2. \/ /\ task[t].op = "update"
             /\ \E f \in Field, fact \in Fact, conf \in UpdateConf :
                   req = Put(task[t].user, SetField(task[t].loaded, f, fact, conf))
          \/ /\ task[t].op = "learn"
             /\ \E x \in Extractions :
                   req = Put(task[t].user, Merge(task[t].loaded, LearnedProfile(x)))
      BY <1>1, <2>1, <3>1 DEF TaskOK, req
    <3> QED
      BY <1>3, <3>1, <3>2, ProfileTypes DEF WritesProfile
  <2>2. CASE task[t].op = "delete"
    <3>1. task[t].user \in User /\ req = Delete(task[t].user) /\ task[t].at = "save"
      BY <1>1, <2>2 DEF TaskOK, req
    <3> QED
      BY <1>4, <2>2, <3>1 DEF WritesProfile
  <2>3. CASE task[t].op = "list"
    BY <1>1, <2>3 DEF TaskOK, List, req
  <2> QED
    BY <1>1, <1>6, <2>1, <2>2, <2>3 DEF TaskOK
<1>7. CASE chore[t] # NoChore
  <2>1. CASE chore[t].op = "register"
    <3>1. chore[t].tool \in Tool /\ \E d \in Description : req = Put(chore[t].tool, d)
      BY <1>1, <2>1 DEF ChoreOK, req
    <3> QED
      BY <1>3, <2>1, <3>1 DEF WritesTool, req
  <2>2. CASE chore[t].op = "unregister"
    <3>1. chore[t].tool \in Tool /\ req = Delete(chore[t].tool)
      BY <1>1, <2>2 DEF ChoreOK, req
    <3> QED
      BY <1>4, <2>2, <3>1 DEF WritesTool
  <2>3. CASE chore[t].op = "load"
    BY <1>1, <2>3 DEF ChoreOK, List, Get, req
  <2> QED
    BY <1>1, <1>7, <2>1, <2>2, <2>3 DEF ChoreOK
<1> QED
  BY <1>5, <1>6, <1>7

\* What a get of a key answers is what its row holds, or nothing yet.
LEMMA AnswersOfGet ==
    ASSUME SqliteTypeOK, NEW t \in Thread, Advances(t),
           NEW k \in Key, call[t].req = Get(k)
    PROVE  call'[t].answer \in {None, call[t].answer, disk[k]}
<1>1. call[t].req.op = "get" /\ call[t].req.key = k
  BY DEF Get
<1>2. CASE call'[t].answer = Rows(call[t].req)
  BY <1>1, <1>2 DEF Rows
<1> QED
  BY <1>2 DEF Advances

\* A step of a call keeps the types of the callers.
LEMMA AdvancesTypes ==
    ASSUME TypeOK, NEW t \in Thread, Advances(t),
           UNCHANGED <<task, tools, chore, unsure, alone>>
    PROVE  ContinuityTypeOK' /\ ToolTypeOK' /\ \A u \in Thread : CallerOK(u)'
<1>1. /\ \A u \in Thread : call'[u].req = call[u].req
      /\ \A u \in Thread : Idle(u)' <=> Idle(u)
  BY DEF Advances, Idle
<1>2. /\ \A u \in User : disk'[u] \in ProfileOf \cup {None}
      /\ \A x \in Tool : disk'[x] \in Description \cup {None}
  <2>0. /\ \A u \in User : disk[u] \in ProfileOf \cup {None}
        /\ \A x \in Tool : disk[x] \in Description \cup {None}
        /\ DOMAIN disk = Key
    BY DEF TypeOK, ContinuityTypeOK, ToolTypeOK, SqliteTypeOK
  <2>1. CASE UNCHANGED disk
    BY <2>0, <2>1
  <2>2. CASE call[t].st = "commit" /\ Wrote(call[t].req)
    <3>1. CASE \E u \in User, p \in ProfileOf \cup {None} : disk' = [disk EXCEPT ![u] = p]
      BY <2>0, <3>1, StoreAssumption, ContinuityAssumption, ToolAssumption
    <3>2. CASE \E x \in Tool, d \in Description \cup {None} : disk' = [disk EXCEPT ![x] = d]
      BY <2>0, <3>2, StoreAssumption, ContinuityAssumption, ToolAssumption
    <3> QED
      BY <2>2, <3>1, <3>2, WriteIs DEF WritesProfile, WritesTool
  <2> QED
    BY <2>1, <2>2 DEF Advances
<1>3. \A u \in Thread : TaskOK(u)'
  BY <1>1 DEF TypeOK, ContinuityTypeOK, TaskOK
<1>4. \A u \in Thread : ChoreOK(u)'
  BY <1>1 DEF TypeOK, ToolTypeOK, ChoreOK, Idle
<1>5. \A u \in Thread : CallerOK(u)'
  BY <1>1 DEF TypeOK, CallerOK
<1>6. ASSUME NEW v \in Thread, NEW u \in User, call'[v].req = Get(u)
      PROVE  call'[v].answer \in ProfileOf \cup {None}
  <2>1. /\ call[v].req = Get(u) /\ call[v].answer \in ProfileOf \cup {None}
        /\ disk[u] \in ProfileOf \cup {None} /\ SqliteTypeOK
    BY <1>1, <1>6 DEF TypeOK, ContinuityTypeOK
  <2>2. CASE v = t
    BY <2>1, <2>2, AnswersOfGet, ContinuityAssumption
  <2>3. CASE v # t
    BY <2>1, <2>3 DEF Advances
  <2> QED
    BY <2>2, <2>3
<1>7. ASSUME NEW v \in Thread, NEW x \in Tool, call'[v].req = Get(x)
      PROVE  call'[v].answer \in Description \cup {None}
  <2>1. /\ call[v].req = Get(x) /\ call[v].answer \in Description \cup {None}
        /\ disk[x] \in Description \cup {None} /\ SqliteTypeOK
    BY <1>1, <1>7 DEF TypeOK, ToolTypeOK
  <2>2. CASE v = t
    BY <2>1, <2>2, AnswersOfGet, ToolAssumption
  <2>3. CASE v # t
    BY <2>1, <2>3 DEF Advances
  <2> QED
    BY <2>2, <2>3
<1> QED
  BY <1>2, <1>3, <1>4, <1>5, <1>6, <1>7 DEF TypeOK, ContinuityTypeOK, ToolTypeOK

\* Every step of a caller is one, as the store sees it.
CallerStep(t) ==
    \/ CallContinuity(t) \/ CallRegistry(t) \/ CallClose(t)
    \/ ContinuityStep(t) /\ UNCHANGED <<toolVars, calls, restarts>>
    \/ ToolStep(t) /\ UNCHANGED <<task, calls, restarts>>
    \/ CloseReturns(t)

\* A register or unregister without a store changes the dict and no call.
Storeless(t) ==
    /\ Idle(t)
    /\ \E x \in Tool :
          /\ \/ tools' = [tools EXCEPT ![x] = None]
             \/ \E d \in Description : tools' = [tools EXCEPT ![x] = Info(d, TRUE)]
          /\ unsure' = unsure \cup {x} \/ UNCHANGED <<tools, unsure>>
          /\ alone' = alone \ Changing(x)
    /\ UNCHANGED <<disk, cache, listed, open, refused, strict, closing, writer>>
    /\ UNCHANGED <<call, task, chore>>

\* What a call of the registry is: with a store, a load, or without a store.
LEMMA RegistryCalls ==
    ASSUME TypeOK, NEW t \in Thread, CallRegistry(t)
    PROVE  \/ \E x \in Tool, d \in Description : Register(t, x, d, TRUE)
           \/ \E x \in Tool : Unregister(t, x, TRUE)
           \/ BeginLoad(t)
           \/ Storeless(t)
<1>1. ASSUME NEW x \in Tool, NEW d \in Description, Register(t, x, d, FALSE)
      PROVE  Storeless(t)
  <2>1. ThenStores(t, "register", x, Put(x, d), FALSE) /\ unsure' = unsure \cup {x}
    BY <1>1 DEF Register
  <2>2. alone' = alone \ Changing(x) /\ UNCHANGED <<chore, call>> /\ StoreStays
    BY <2>1 DEF ThenStores
  <2> QED
    BY <1>1, <2>1, <2>2 DEF Register, Storeless, CallRegistry, Idle, StoreStays
<1>2. ASSUME NEW x \in Tool, Unregister(t, x, FALSE)
      PROVE  Storeless(t)
  <2>1. ThenStores(t, "unregister", x, Delete(x), FALSE)
    BY <1>2 DEF Unregister
  <2>2. alone' = alone \ Changing(x) /\ UNCHANGED <<chore, call>> /\ StoreStays
    BY <2>1 DEF ThenStores
  <2>3. CASE tools[x] = None
    <3>1. unsure' = unsure
      BY <1>2, <2>3 DEF Unregister
    <3>2. tools' = tools
      BY <1>2, <2>3 DEF Unregister, TypeOK, ToolTypeOK
    <3> QED
      BY <1>2, <2>2, <3>1, <3>2 DEF Unregister, Storeless, CallRegistry, Idle, StoreStays
  <2>4. CASE tools[x] # None
    <3>1. unsure' = unsure \cup {x}
      BY <1>2, <2>4 DEF Unregister
    <3> QED
      BY <1>2, <2>2, <3>1 DEF Unregister, Storeless, CallRegistry, Idle, StoreStays
  <2> QED
    BY <2>3, <2>4
<1> QED
  BY <1>1, <1>2 DEF CallRegistry

\* The requests of the callers are requests of the store.
LEMMA RequestTypes ==
    /\ \A k \in Key : Get(k) \in Promise!Request /\ Delete(k) \in Promise!Request
    /\ \A k \in Key, v \in Value : Put(k, v) \in Promise!Request
    /\ \A ks \in SUBSET Key : List(ks) \in Promise!Request
  BY DEF Get, Delete, Put, List, Promise!Request

\* The places of update and autolearn where they hold a profile that was loaded.
LEMMA LoadedType ==
    ASSUME TypeOK, NEW t \in Thread, task[t].op \in {"update", "learn"}, task[t].at = "load"
    PROVE  /\ task[t].user \in User /\ call[t].req = Get(task[t].user)
           /\ FromStore(call[t].answer) \in ProfileOf
           /\ task[t] # NoTask /\ chore[t] = NoChore /\ ~Idle(t)
<1>1. TaskOK(t) /\ CallerOK(t) /\ task[t] # NoTask
  BY DEF TypeOK, ContinuityTypeOK, NoTask
<1>2. task[t].user \in User /\ call[t].req = Get(task[t].user)
  BY <1>1 DEF TaskOK
<1>3. call[t].answer \in ProfileOf \cup {None}
  BY <1>2 DEF TypeOK, ContinuityTypeOK
<1> QED
  BY <1>1, <1>2, <1>3, ProfileTypes DEF CallerOK, TaskOK

\* Asking the store is one.
LEMMA AskCalls ==
    ASSUME NEW t \in Thread, NEW req \in Promise!Request \cup {Close}, Ask(t, req),
           call[t].st \in {"idle", "done", "raised"},
           UNCHANGED <<disk, cache, listed, open, refused, strict, closing, writer>>
    PROVE  Calls(t, Asked(req))
  BY DEF Ask, Calls

\* Every caller's step is a step of the store's interface.
LEMMA CallerCalls ==
    ASSUME TypeOK, NEW t \in Thread, CallerStep(t)  PROVE \E next : Calls(t, next)
<1>1. CASE CallContinuity(t)
  BY <1>1, RequestTypes, ContinuityAssumption
     DEF CallContinuity, BeginChange, BeginDelete, BeginListUsers, Idle, Ask, StoreUnchanged, Calls
<1>2. CASE CallRegistry(t)
  <2>1. CASE Storeless(t)
    <3>1. call[t] = NoCall /\ DOMAIN call = Thread
      BY <2>1 DEF Storeless, Idle, TypeOK, SqliteTypeOK, ShapeOK
    <3>2. call[t].st = "idle" /\ call' = [call EXCEPT ![t] = NoCall]
      BY <2>1, <3>1 DEF Storeless, NoCall, TypeOK, SqliteTypeOK
    <3>3. Calls(t, NoCall)
      BY <2>1, <3>2 DEF Storeless, Calls
    <3> QED
      BY <3>3
  <2>2. CASE ~Storeless(t)
    <3>1. /\ call[t].st = "idle"
          /\ UNCHANGED <<disk, cache, listed, open, refused, strict, closing, writer>>
          /\ \/ \E x \in Tool, d \in Description : Ask(t, Put(x, d))
             \/ \E x \in Tool : Ask(t, Delete(x))
             \/ Ask(t, List(Tool))
      BY <1>2, <2>2, RegistryCalls DEF Register, Unregister, ThenStores, BeginLoad, StoreStays
    <3>2. \E req \in Promise!Request : Ask(t, req)
      BY <3>1, RequestTypes, ToolAssumption
    <3> QED
      BY <3>1, <3>2, AskCalls
  <2> QED
    BY <2>1, <2>2
<1>3. CASE CallClose(t) \/ CloseReturns(t)
  BY <1>3 DEF CallClose, CloseReturns, Idle, Ask, StoreUnchanged, Calls
<1>4. CASE SetAndSave(t) \/ LearnAndSave(t)
  <2>1. /\ task[t].op \in {"update", "learn"} /\ task[t].at = "load" /\ call[t].st = "done"
        /\ UNCHANGED <<disk, cache, listed, open, refused, strict, closing, writer>>
    BY <1>4 DEF SetAndSave, LearnAndSave, Saves, StoreUnchanged
  <2>2. task[t].user \in Key /\ FromStore(call[t].answer) \in ProfileOf
    BY <2>1, LoadedType, ContinuityAssumption
  <2>3. \E p \in ProfileOf : Saves(t, p)
    BY <1>4, <2>2, ProfileTypes DEF SetAndSave, LearnAndSave
  <2>4. PICK p \in ProfileOf : Ask(t, Put(task[t].user, p))
    BY <2>3 DEF Saves
  <2>5. Put(task[t].user, p) \in Promise!Request
    BY <2>2, RequestTypes, ContinuityAssumption
  <2> QED
    BY <2>1, <2>4, <2>5, AskCalls
<1>5. CASE LearnFails(t) \/ EndOfTask(t)
  BY <1>5 DEF LearnFails, EndOfTask, EndTask, StoreUnchanged, Calls
<1>6. CASE LoadListed(t) \/ LoadOne(t)
  <2>1. /\ call[t].st = "done"
        /\ UNCHANGED <<disk, cache, listed, open, refused, strict, closing, writer>>
        /\ Continue(t, call[t].answer) \/ Continue(t, chore[t].left)
    BY <1>6 DEF LoadListed, LoadOne, StoreStays
  <2>2. chore[t].op = "load" => chore[t].left \subseteq Key
    BY ToolAssumption DEF TypeOK, ToolTypeOK
  <2>3. LoadListed(t) => call[t].answer \subseteq Tool
    <3>1. SUFFICES ASSUME LoadListed(t)  PROVE call[t].answer \subseteq Tool
      OBVIOUS
    <3>2. ChoreOK(t) /\ ShapeOK(call[t]) /\ call[t].st = "done"
      BY <3>1 DEF LoadListed, TypeOK, ToolTypeOK, SqliteTypeOK
    <3>3. call[t].req.op = "list" /\ call[t].req.keys = Tool
      BY <3>1, <3>2 DEF LoadListed, ChoreOK, List
    <3> QED
      BY <3>2, <3>3 DEF ShapeOK
  <2>4. \E left \in SUBSET Key : Continue(t, left)
    BY <1>6, <2>2, <2>3, ToolAssumption DEF LoadListed, LoadOne
  <2>5. CASE EndChore(t)
    <3>1. Calls(t, NoCall)
      BY <2>1, <2>5 DEF EndChore, Calls
    <3> QED
      BY <3>1
  <2>6. CASE \E k \in Key : Ask(t, Get(k))
    BY <2>1, <2>6, RequestTypes, AskCalls
  <2> QED
    BY <2>4, <2>5, <2>6 DEF Continue
<1>7. CASE Stored(t) \/ ChoreRaises(t)
  BY <1>7 DEF Stored, ChoreRaises, EndChore, StoreStays, Calls
<1> QED
  BY <1>1, <1>2, <1>3, <1>4, <1>5, <1>6, <1>7 DEF CallerStep, ContinuityStep, ToolStep

\* What a caller's step leaves alone: the rows, and everything of the other
\* threads.
LEMMA CallerKeepsOthers ==
    ASSUME TypeOK, NEW t \in Thread, CallerStep(t)
    PROVE  /\ UNCHANGED disk
           /\ task' = [task EXCEPT ![t] = task'[t]]
           /\ chore' = [chore EXCEPT ![t] = chore'[t]]
           /\ call' = [call EXCEPT ![t] = call'[t]]
           /\ call'[t].answer = None
<1>1. PICK next : Calls(t, next)
  BY CallerCalls
<1>2. UNCHANGED disk /\ call' = [call EXCEPT ![t] = call'[t]] /\ call'[t].answer = None
  BY <1>1 DEF Calls, Asked, NoCall, TypeOK, SqliteTypeOK
<1>3. \/ UNCHANGED task
      \/ \E k : task' = [task EXCEPT ![t] = k]
  BY DEF CallerStep, CallContinuity, BeginChange, BeginDelete, BeginListUsers, CallRegistry,
     CallClose, CloseReturns, ContinuityStep, SetAndSave, LearnAndSave, Saves, LearnFails,
     EndOfTask, EndTask
<1>4. \/ UNCHANGED chore
      \/ \E k : chore' = [chore EXCEPT ![t] = k]
  BY DEF CallerStep, CallContinuity, CallRegistry, Register, Unregister, ThenStores, BeginLoad,
     CallClose, CloseReturns, ContinuityStep, ToolStep, LoadListed, LoadOne, Continue, EndChore, Stored,
     ChoreRaises, toolVars
<1>5. task' = [task EXCEPT ![t] = task'[t]]
  BY <1>3 DEF TypeOK, ContinuityTypeOK
<1>6. chore' = [chore EXCEPT ![t] = chore'[t]]
  BY <1>4 DEF TypeOK, ToolTypeOK
<1> QED
  BY <1>2, <1>5, <1>6

TaskType == [op : {"none", "update", "learn", "delete", "list"},
             at : {"none", "load", "save"}, user : User \cup {None},
             loaded : ProfileOf \cup {None}]
ChoreType == [op : {"none", "register", "unregister", "load"},
              tool : Tool \cup {None}, left : SUBSET Tool]
ToolType == {None} \cup [description : Description, bound : BOOLEAN]

\* The types of the callers, from what a step may do to those of one thread.
LEMMA CallerFromParts ==
    ASSUME TypeOK, NEW t \in Thread, CallerStep(t),
           task'[t] \in TaskType, TaskOK(t)', chore'[t] \in ChoreType, ChoreOK(t)',
           CallerOK(t)', tools' \in [Tool -> ToolType], unsure' \subseteq Tool
    PROVE  ContinuityTypeOK' /\ ToolTypeOK' /\ \A u \in Thread : CallerOK(u)'
<1>1. /\ UNCHANGED disk
      /\ task' = [task EXCEPT ![t] = task'[t]]
      /\ chore' = [chore EXCEPT ![t] = chore'[t]]
      /\ call' = [call EXCEPT ![t] = call'[t]]
      /\ call'[t].answer = None
  BY CallerKeepsOthers
<1>2. /\ task \in [Thread -> TaskType] /\ chore \in [Thread -> ChoreType]
      /\ \A u \in Thread : TaskOK(u) /\ ChoreOK(u) /\ CallerOK(u)
      /\ DOMAIN call = Thread
  BY DEF TypeOK, ContinuityTypeOK, ToolTypeOK, SqliteTypeOK, TaskType, ChoreType
<1>3. task' \in [Thread -> TaskType] /\ chore' \in [Thread -> ChoreType]
  BY <1>1, <1>2
<1>4. \A u \in Thread \ {t} : /\ task'[u] = task[u] /\ chore'[u] = chore[u]
                              /\ call'[u] = call[u]
  BY <1>1, <1>2
<1>5. ASSUME NEW u \in Thread  PROVE TaskOK(u)'
  BY <1>2, <1>4 DEF TaskOK, Idle
<1>6. ASSUME NEW u \in Thread  PROVE ChoreOK(u)'
  BY <1>2, <1>4 DEF ChoreOK
<1>7. ASSUME NEW u \in Thread  PROVE CallerOK(u)'
  BY <1>2, <1>4 DEF CallerOK, Idle
<1>8. /\ \A u \in User : disk'[u] \in ProfileOf \cup {None}
      /\ \A v \in Thread, u \in User :
            call'[v].req = Get(u) => call'[v].answer \in ProfileOf \cup {None}
  BY <1>1, <1>4 DEF TypeOK, ContinuityTypeOK
<1>9. /\ \A x \in Tool : disk'[x] \in Description \cup {None}
      /\ \A v \in Thread, x \in Tool :
            call'[v].req = Get(x) => call'[v].answer \in Description \cup {None}
  BY <1>1, <1>4 DEF TypeOK, ToolTypeOK
<1>10. alone' \subseteq alone \cup {t}
  BY DEF CallerStep, CallContinuity, CallRegistry, Register, Unregister, ThenStores, BeginLoad,
     CallClose, CloseReturns, ToolStep, LoadListed, LoadOne, Stored, ChoreRaises, toolVars
<1>11. alone' \subseteq Thread
  BY <1>10 DEF TypeOK, ToolTypeOK
<1> QED
  BY <1>3, <1>5, <1>6, <1>7, <1>8, <1>9, <1>11
     DEF ContinuityTypeOK, ToolTypeOK, TaskType, ChoreType, ToolType

\* A thread that is idle, or in another component's call, is in none of these.
LEMMA OneCaller ==
    ASSUME TypeOK, NEW t \in Thread
    PROVE  /\ TaskOK(t) /\ ChoreOK(t) /\ CallerOK(t)
           /\ DOMAIN call = Thread /\ DOMAIN task = Thread /\ DOMAIN chore = Thread
           /\ task[t] \in TaskType /\ chore[t] \in ChoreType
           /\ tools \in [Tool -> ToolType] /\ unsure \subseteq Tool
           /\ Idle(t) \/ call[t].req = Close => task[t] = NoTask /\ chore[t] = NoChore
           /\ task[t] # NoTask => chore[t] = NoChore
           /\ NoTask \in TaskType /\ NoChore \in ChoreType
<1>1. /\ TaskOK(t) /\ ChoreOK(t) /\ CallerOK(t)
      /\ DOMAIN call = Thread /\ DOMAIN task = Thread /\ DOMAIN chore = Thread
      /\ task[t] \in TaskType /\ chore[t] \in ChoreType
      /\ tools \in [Tool -> ToolType] /\ unsure \subseteq Tool
  BY DEF TypeOK, ContinuityTypeOK, ToolTypeOK, SqliteTypeOK, TaskType, ChoreType, ToolType
<1>2. NoTask \in TaskType /\ NoChore \in ChoreType
  BY DEF NoTask, NoChore, TaskType, ChoreType
<1>3. /\ Idle(t) \/ call[t].req = Close => task[t] = NoTask /\ chore[t] = NoChore
      /\ task[t] # NoTask => chore[t] = NoChore
  BY <1>1 DEF TaskOK, ChoreOK, CallerOK, Idle
<1> QED
  BY <1>1, <1>2, <1>3

\* The requests of the callers differ in what they ask.
LEMMA RequestsDiffer ==
    /\ Close.op = "close" /\ \A k : Get(k).op = "get" /\ Delete(k).op = "delete"
    /\ \A ks : List(ks).op = "list"
    /\ \A k, v : Put(k, v).op = "put"
    /\ \A k : Get(k) # Close /\ Delete(k) # Close
    /\ \A ks : List(ks) # Close
    /\ \A k, v : Put(k, v) # Close
  BY DEF Get, Put, Delete, List, Close

\* A call of a thread that was asked something is not idle.
LEMMA AskedIs ==
    ASSUME TypeOK, NEW t \in Thread, NEW req, Ask(t, req)
    PROVE  call'[t].req = req /\ call'[t].st # "idle" /\ ~Idle(t)'
  BY OneCaller DEF Ask, Asked, Idle

\* A call of Continuity keeps the types of the callers.
LEMMA CallContinuityTypes ==
    ASSUME TypeOK, NEW t \in Thread, CallContinuity(t)
    PROVE  ContinuityTypeOK' /\ ToolTypeOK' /\ \A u \in Thread : CallerOK(u)'
<1>1. CallerStep(t)
  BY DEF CallerStep
<1>2. /\ Idle(t) /\ UNCHANGED <<tools, chore, unsure, alone>>
      /\ \/ \E u \in User, op \in {"update", "learn"} :
               /\ task' = [task EXCEPT ![t] =
                             [op |-> op, at |-> "load", user |-> u, loaded |-> None]]
               /\ Ask(t, Get(u))
         \/ \E u \in User :
               /\ task' = [task EXCEPT ![t] =
                             [op |-> "delete", at |-> "save", user |-> u, loaded |-> None]]
               /\ Ask(t, Delete(u))
         \/ /\ task' = [task EXCEPT ![t] =
                           [op |-> "list", at |-> "load", user |-> None, loaded |-> None]]
            /\ Ask(t, List(User))
  BY DEF CallContinuity, BeginChange, BeginDelete, BeginListUsers, toolVars
<1>3. /\ task[t] = NoTask /\ chore[t] = NoChore /\ chore[t] \in ChoreType
      /\ DOMAIN task = Thread /\ tools \in [Tool -> ToolType] /\ unsure \subseteq Tool
  BY <1>2, OneCaller
<1>4. task'[t] \in TaskType /\ TaskOK(t)' /\ task'[t] # NoTask
      /\ call'[t].req # Close /\ call'[t].st # "idle"
  <2>1. ASSUME NEW u \in User, NEW op \in {"update", "learn"}, Ask(t, Get(u)),
               task'[t] = [op |-> op, at |-> "load", user |-> u, loaded |-> None]
        PROVE  <1>4!:
    BY <2>1, AskedIs, RequestsDiffer DEF TaskType, TaskOK, NoTask
  <2>2. ASSUME NEW u \in User, Ask(t, Delete(u)),
               task'[t] = [op |-> "delete", at |-> "save", user |-> u, loaded |-> None]
        PROVE  <1>4!:
    BY <2>2, AskedIs, RequestsDiffer DEF TaskType, TaskOK, NoTask
  <2>3. ASSUME Ask(t, List(User)),
               task'[t] = [op |-> "list", at |-> "load", user |-> None, loaded |-> None]
        PROVE  <1>4!:
    BY <2>3, AskedIs, RequestsDiffer DEF TaskType, TaskOK, NoTask
  <2> QED
    BY <1>2, <1>3, <2>1, <2>2, <2>3
<1>5. ChoreOK(t)' /\ CallerOK(t)'
  BY <1>2, <1>3, <1>4 DEF ChoreOK, CallerOK, NoChore
<1> QED
  BY <1>1, <1>2, <1>3, <1>4, <1>5, CallerFromParts

\* A call of the registry keeps them.
LEMMA CallRegistryTypes ==
    ASSUME TypeOK, NEW t \in Thread, CallRegistry(t)
    PROVE  ContinuityTypeOK' /\ ToolTypeOK' /\ \A u \in Thread : CallerOK(u)'
<1>1. CallerStep(t)
  BY DEF CallerStep
<1>2. CASE Storeless(t)
  <2>1. /\ task[t] = NoTask /\ chore[t] = NoChore /\ task[t] \in TaskType
        /\ chore[t] \in ChoreType /\ tools \in [Tool -> ToolType] /\ unsure \subseteq Tool
        /\ TaskOK(t) /\ ChoreOK(t) /\ CallerOK(t)
    BY <1>2, OneCaller DEF Storeless
  <2>2. None \in ToolType /\ \A d \in Description : Info(d, TRUE) \in ToolType
    BY DEF ToolType, Info
  <2>3. \E x \in Tool, y \in ToolType : tools' = [tools EXCEPT ![x] = y]
    BY <1>2, <2>2 DEF Storeless
  <2>4. tools' \in [Tool -> ToolType] /\ unsure' \subseteq Tool
    BY <1>2, <2>1, <2>3 DEF Storeless
  <2>5. TaskOK(t)' /\ ChoreOK(t)' /\ CallerOK(t)'
    BY <1>2, <2>1 DEF Storeless, TaskOK, ChoreOK, CallerOK, Idle
  <2> QED
    BY <1>1, <1>2, <2>1, <2>4, <2>5, CallerFromParts DEF Storeless
<1>3. CASE ~Storeless(t)
  <2>1. /\ Idle(t) /\ UNCHANGED task
        /\ \/ \E x \in Tool, d \in Description :
                 /\ tools' = [tools EXCEPT ![x] = Info(d, TRUE)]
                 /\ chore' = [chore EXCEPT ![t] = Chore("register", x, {})]
                 /\ Ask(t, Put(x, d)) /\ unsure' \in {unsure, unsure \cup {x}}
           \/ \E x \in Tool :
                 /\ tools' = [tools EXCEPT ![x] = None]
                 /\ chore' = [chore EXCEPT ![t] = Chore("unregister", x, {})]
                 /\ Ask(t, Delete(x)) /\ unsure' \in {unsure, unsure \cup {x}}
           \/ /\ UNCHANGED tools
              /\ chore' = [chore EXCEPT ![t] = Chore("load", None, {})]
              /\ Ask(t, List(Tool))
              /\ unsure' = unsure \cup {x \in Tool : Doing("unregister", x) # {}}
    <3>1. Idle(t) /\ UNCHANGED task
      BY DEF CallRegistry, Register, Unregister, BeginLoad, Idle
    <3> QED
      BY <1>3, <3>1, RegistryCalls DEF Register, Unregister, ThenStores, BeginLoad
  <2>2. /\ task[t] = NoTask /\ chore[t] = NoChore /\ task[t] \in TaskType
        /\ DOMAIN chore = Thread /\ tools \in [Tool -> ToolType] /\ unsure \subseteq Tool
    BY <2>1, OneCaller
  <2>3. unsure' \subseteq Tool
    BY <2>1, <2>2
  <2>4. tools' \in [Tool -> ToolType]
    <3>1. None \in ToolType /\ \A d \in Description : Info(d, TRUE) \in ToolType
      BY DEF ToolType, Info
    <3>2. \/ UNCHANGED tools
          \/ \E x \in Tool, y \in ToolType : tools' = [tools EXCEPT ![x] = y]
      BY <2>1, <3>1
    <3> QED
      BY <2>2, <3>2
  <2>5. chore'[t] \in ChoreType /\ ChoreOK(t)' /\ chore'[t] # NoChore
        /\ call'[t].req # Close /\ call'[t].st # "idle"
    <3>1. ASSUME NEW x \in Tool, NEW d \in Description, Ask(t, Put(x, d)),
                 chore'[t] = Chore("register", x, {})
          PROVE  <2>5!:
      BY <3>1, AskedIs, RequestsDiffer DEF Chore, ChoreType, ChoreOK, NoChore
    <3>2. ASSUME NEW x \in Tool, Ask(t, Delete(x)),
                 chore'[t] = Chore("unregister", x, {})
          PROVE  <2>5!:
      BY <3>2, AskedIs, RequestsDiffer DEF Chore, ChoreType, ChoreOK, NoChore
    <3>3. ASSUME Ask(t, List(Tool)), chore'[t] = Chore("load", None, {})
          PROVE  <2>5!:
      BY <3>3, AskedIs, RequestsDiffer DEF Chore, ChoreType, ChoreOK, NoChore
    <3> QED
      BY <2>1, <2>2, <3>1, <3>2, <3>3
  <2>6. TaskOK(t)' /\ CallerOK(t)'
    BY <2>1, <2>2, <2>5 DEF TaskOK, CallerOK, NoTask
  <2> QED
    BY <1>1, <2>1, <2>2, <2>3, <2>4, <2>5, <2>6, CallerFromParts
<1> QED
  BY <1>2, <1>3

\* close() and its return keep them.
LEMMA CloseTypes ==
    ASSUME TypeOK, NEW t \in Thread, CallClose(t) \/ CloseReturns(t)
    PROVE  ContinuityTypeOK' /\ ToolTypeOK' /\ \A u \in Thread : CallerOK(u)'
<1>1. CallerStep(t) /\ UNCHANGED <<task, tools, chore, unsure, alone>>
  BY DEF CallerStep, CallClose, CloseReturns, toolVars
<1>2. /\ task[t] = NoTask /\ chore[t] = NoChore
      /\ task[t] \in TaskType /\ chore[t] \in ChoreType
      /\ tools \in [Tool -> ToolType] /\ unsure \subseteq Tool
  BY OneCaller DEF CallClose, CloseReturns
<1>3. TaskOK(t)' /\ ChoreOK(t)'
  BY <1>1, <1>2 DEF TaskOK, ChoreOK, NoTask, NoChore
<1>4. CallerOK(t)'
  <2>1. Idle(t)' \/ call'[t].req = Close
    <3>1. CASE CallClose(t)
      BY <3>1, AskedIs DEF CallClose
    <3>2. CASE CloseReturns(t)
      BY <3>2, OneCaller DEF CloseReturns, Idle, NoCall
    <3> QED
      BY <3>1, <3>2
  <2> QED
    BY <1>1, <1>2, <2>1 DEF CallerOK
<1> QED
  BY <1>1, <1>2, <1>3, <1>4, CallerFromParts

\* A step in a call of Continuity keeps them.
LEMMA ContinuityStepTypes ==
    ASSUME TypeOK, NEW t \in Thread,
           ContinuityStep(t) /\ UNCHANGED <<toolVars, calls, restarts>>
    PROVE  ContinuityTypeOK' /\ ToolTypeOK' /\ \A u \in Thread : CallerOK(u)'
<1>1. CallerStep(t) /\ UNCHANGED <<tools, chore, unsure, alone>>
  BY DEF CallerStep, toolVars
<1>2. task[t] # NoTask /\ chore[t] = NoChore
  BY OneCaller DEF ContinuityStep, SetAndSave, LearnAndSave, LearnFails, EndOfTask, NoTask
<1>3. /\ DOMAIN task = Thread /\ DOMAIN call = Thread /\ chore[t] \in ChoreType
      /\ tools \in [Tool -> ToolType] /\ unsure \subseteq Tool /\ NoTask \in TaskType
  BY OneCaller
<1>4. ChoreOK(t)'
  BY <1>1, <1>2 DEF ChoreOK, NoChore
<1>5. CASE EndTask(t)
  <2>1. task'[t] = NoTask /\ call'[t] = NoCall
    BY <1>3, <1>5 DEF EndTask
  <2>2. TaskOK(t)'
    BY <2>1 DEF TaskOK, NoTask
  <2>3. CallerOK(t)'
    BY <1>1, <1>2, <2>1, NoneIs, RequestsDiffer DEF CallerOK, Idle, NoCall
  <2> QED
    BY <1>1, <1>2, <1>3, <1>4, <2>1, <2>2, <2>3, CallerFromParts
<1>6. CASE SetAndSave(t) \/ LearnAndSave(t)
  <2> DEFINE p == FromStore(call[t].answer)
             k == [op |-> task[t].op, at |-> "save", user |-> task[t].user, loaded |-> p]
  <2>1. /\ task[t].op \in {"update", "learn"} /\ task[t].at = "load"
        /\ task'[t] = k
    BY <1>3, <1>6 DEF SetAndSave, LearnAndSave, Saves
  <2>2. task[t].user \in User /\ p \in ProfileOf
    BY <2>1, LoadedType
  <2> HIDE DEF p
  <2>3. task'[t] \in TaskType
    BY <2>1, <2>2 DEF TaskType
  <2>4. \/ /\ task[t].op = "update"
           /\ \E f \in Field, fact \in Fact, conf \in UpdateConf :
                 Ask(t, Put(task[t].user, SetField(p, f, fact, conf)))
        \/ /\ task[t].op = "learn"
           /\ \E x \in Extractions :
                 Ask(t, Put(task[t].user, Merge(p, LearnedProfile(x))))
    BY <1>6 DEF SetAndSave, LearnAndSave, Saves, p
  <2>5. TaskOK(t)' /\ CallerOK(t)'
    <3>1. /\ task'[t].op = task[t].op /\ task'[t].at = "save"
          /\ task'[t].user = task[t].user /\ task'[t].loaded = p
      BY <2>1
    <3>2. task'[t] # NoTask
      BY <3>1 DEF NoTask
    <3>3. CASE task[t].op = "update"
      <4>1. PICK f \in Field, fact \in Fact, conf \in UpdateConf :
                Ask(t, Put(task[t].user, SetField(p, f, fact, conf)))
        BY <2>4, <3>3
      <4>2. /\ call'[t].req = Put(task[t].user, SetField(p, f, fact, conf))
            /\ ~Idle(t)' /\ call'[t].req # Close
        BY <4>1, AskedIs, RequestsDiffer
      <4> QED
        BY <1>1, <1>2, <2>2, <3>1, <3>2, <3>3, <4>2 DEF TaskOK, CallerOK
    <3>4. CASE task[t].op = "learn"
      <4>1. PICK x \in Extractions : Ask(t, Put(task[t].user, Merge(p, LearnedProfile(x))))
        BY <2>4, <3>4
      <4>2. /\ call'[t].req = Put(task[t].user, Merge(p, LearnedProfile(x)))
            /\ ~Idle(t)' /\ call'[t].req # Close
        BY <4>1, AskedIs, RequestsDiffer
      <4> QED
        BY <1>1, <1>2, <2>2, <3>1, <3>2, <3>4, <4>2 DEF TaskOK, CallerOK
    <3> QED
      BY <2>1, <3>3, <3>4
  <2> QED
    BY <1>1, <1>2, <1>3, <1>4, <2>3, <2>5, CallerFromParts
<1> QED
  BY <1>5, <1>6 DEF ContinuityStep, LearnFails, EndOfTask

\* What load_from_store goes on with are keys of tools.
LEMMA LoadLeft ==
    ASSUME TypeOK, NEW t \in Thread, LoadListed(t) \/ LoadOne(t)
    PROVE  \E left \in SUBSET Tool : Continue(t, left)
<1>1. chore[t].left \subseteq Tool
  BY OneCaller DEF ChoreType
<1>2. CASE LoadListed(t)
  <2>1. ChoreOK(t) /\ ShapeOK(call[t]) /\ call[t].st = "done"
    BY <1>2 DEF LoadListed, TypeOK, ToolTypeOK, SqliteTypeOK
  <2>2. call[t].req.op = "list" /\ call[t].req.keys = Tool
    BY <1>2, <2>1 DEF LoadListed, ChoreOK, List
  <2>3. call[t].answer \in SUBSET Tool
    BY <2>1, <2>2 DEF ShapeOK
  <2> QED
    BY <1>2, <2>3 DEF LoadListed
<1>3. CASE LoadOne(t)
  BY <1>1, <1>3 DEF LoadOne
<1> QED
  BY <1>2, <1>3

\* A step in a call of the registry keeps them.
LEMMA ToolStepTypes ==
    ASSUME TypeOK, NEW t \in Thread, ToolStep(t) /\ UNCHANGED <<task, calls, restarts>>
    PROVE  ContinuityTypeOK' /\ ToolTypeOK' /\ \A u \in Thread : CallerOK(u)'
<1>1. CallerStep(t) /\ UNCHANGED task
  BY DEF CallerStep
<1>2. chore[t] # NoChore /\ task[t] = NoTask
  <2>1. chore[t].op \in {"load", "register", "unregister"} \/ chore[t] # NoChore
    BY DEF ToolStep, LoadListed, LoadOne, Stored, ChoreRaises
  <2>2. NoChore.op = "none"
    BY DEF NoChore
  <2> QED
    BY <2>1, <2>2, OneCaller
<1>3. /\ DOMAIN chore = Thread /\ DOMAIN call = Thread /\ task[t] \in TaskType
      /\ tools \in [Tool -> ToolType] /\ unsure \subseteq Tool /\ NoChore \in ChoreType
      /\ chore[t] \in ChoreType /\ ChoreOK(t)
  BY OneCaller
<1>4. TaskOK(t)'
  BY <1>1, <1>2 DEF TaskOK, NoTask
<1>5. tools' \in [Tool -> ToolType]
  <2>1. CASE UNCHANGED tools
    BY <1>3, <2>1
  <2>2. CASE /\ LoadOne(t) /\ call[t].answer # None
             /\ tools' = [tools EXCEPT ![chore[t].tool] = Info(call[t].answer, FALSE)]
    <3>1. chore[t].tool \in Tool /\ call[t].req = Get(chore[t].tool)
      BY <1>3, <2>2 DEF LoadOne, ChoreOK, ChoreType
    <3>2. call[t].answer \in Description
      BY <2>2, <3>1 DEF TypeOK, ToolTypeOK
    <3>3. Info(call[t].answer, FALSE) \in ToolType
      BY <3>2 DEF Info, ToolType
    <3> QED
      BY <1>3, <2>2, <3>3
  <2> QED
    BY <2>1, <2>2 DEF ToolStep, LoadListed, LoadOne, Stored, ChoreRaises
<1>6. unsure' \subseteq Tool
  BY <1>3 DEF ToolStep, LoadListed, LoadOne, Stored, ChoreRaises, ChoreType, ChoreOK
<1>7. chore'[t] \in ChoreType /\ ChoreOK(t)' /\ CallerOK(t)'
  <2>1. CASE EndChore(t)
    <3>1. chore'[t] = NoChore /\ call'[t] = NoCall
      BY <1>3, <2>1 DEF EndChore
    <3>2. ChoreOK(t)'
      BY <3>1 DEF ChoreOK, NoChore
    <3>3. CallerOK(t)'
      BY <1>1, <1>2, <3>1 DEF CallerOK, Idle, NoCall
    <3> QED
      BY <1>3, <3>1, <3>2, <3>3
  <2>2. ASSUME NEW left \in SUBSET Tool, NEW x \in left, Ask(t, Get(x)),
               chore' = [chore EXCEPT ![t] = Chore("load", x, left \ {x})]
        PROVE  chore'[t] \in ChoreType /\ ChoreOK(t)' /\ CallerOK(t)'
    <3>1. chore'[t] = [op |-> "load", tool |-> x, left |-> left \ {x}] /\ x \in Tool
      BY <1>3, <2>2 DEF Chore
    <3>2. call'[t].req = Get(x) /\ call'[t].st # "idle" /\ ~Idle(t)' /\ Get(x) # Close
      BY <2>2, AskedIs, RequestsDiffer
    <3>3. x # None
      BY <3>1, ToolAssumption, SqliteAssumption
    <3>4. chore'[t] \in ChoreType /\ chore'[t] # NoChore
      BY <3>1 DEF ChoreType, NoChore
    <3>5. ChoreOK(t)'
      BY <3>1, <3>2, <3>3 DEF ChoreOK
    <3>6. CallerOK(t)'
      BY <1>1, <1>2, <3>2, <3>4 DEF CallerOK
    <3> QED
      BY <3>4, <3>5, <3>6
  <2>3. CASE LoadListed(t) \/ LoadOne(t)
    BY <2>1, <2>2, <2>3, LoadLeft DEF Continue
  <2> QED
    BY <2>1, <2>3 DEF ToolStep, Stored, ChoreRaises
<1> QED
  BY <1>1, <1>3, <1>4, <1>5, <1>6, <1>7, CallerFromParts

-----------------------------------------------------------------------------
(* The types                                                               *)

\* The initial states have them.
LEMMA InitTypes == Init => TypeOK
<1> SUFFICES ASSUME Init  PROVE TypeOK
  OBVIOUS
<1>1. /\ disk \in [Key -> Value \cup {None}]
      /\ \A u \in User : disk[u] \in ProfileOf \cup {None}
      /\ \A x \in Tool : disk[x] \in Description \cup {None}
  BY StoreAssumption DEF Init
<1>2. SqliteTypeOK
  BY <1>1, OpenedType DEF Init
<1>3. call = [t \in Thread |-> NoCall] /\ task = [t \in Thread |-> NoTask]
      /\ chore = [t \in Thread |-> NoChore] /\ tools = [x \in Tool |-> None]
      /\ unsure \subseteq Tool /\ alone \subseteq Thread
  BY DEF Init, Opened, ContinuityInit, ToolInit
<1>4. ContinuityTypeOK
  BY <1>1, <1>3 DEF ContinuityTypeOK, TaskOK, NoTask, NoCall, Idle
<1>5. ToolTypeOK
  BY <1>1, <1>3 DEF ToolTypeOK, ChoreOK, NoChore, NoCall
<1>6. \A t \in Thread : CallerOK(t)
  BY <1>3 DEF CallerOK, Idle, NoCall
<1> QED
  BY <1>2, <1>4, <1>5, <1>6 DEF TypeOK

\* A restart keeps them.
LEMMA RestartTypes == ASSUME TypeOK, Restart  PROVE TypeOK'
<1>1. /\ \A u \in User : disk'[u] \in ProfileOf \cup {None}
      /\ \A x \in Tool : disk'[x] \in Description \cup {None}
  BY DEF Restart, Reopen, TypeOK, ContinuityTypeOK, ToolTypeOK
<1>2. SqliteTypeOK'
  BY ReopenType DEF Restart, TypeOK
<1>3. call' = [t \in Thread |-> NoCall] /\ task' = [t \in Thread |-> NoTask]
      /\ chore' = [t \in Thread |-> NoChore] /\ tools' = [x \in Tool |-> None]
      /\ unsure' \subseteq Tool /\ alone' \subseteq Thread
  BY DEF Restart, Reopen, ToolReopen
<1>4. ContinuityTypeOK'
  BY <1>1, <1>3 DEF ContinuityTypeOK, TaskOK, NoTask, NoCall, Idle
<1>5. ToolTypeOK'
  BY <1>1, <1>3 DEF ToolTypeOK, ChoreOK, NoChore, NoCall
<1>6. \A t \in Thread : CallerOK(t)'
  BY <1>3 DEF CallerOK, Idle, NoCall
<1> QED
  BY <1>2, <1>4, <1>5, <1>6 DEF TypeOK

\* What a step is: one of the store's, of a caller's, a restart, or none.
LEMMA NextIs ==
    ASSUME [Next]_vars
    PROVE  \/ \E t \in Thread :
                 \/ StoreStep(t) /\ UNCHANGED <<task, toolVars, calls, restarts>>
                 \/ CallerStep(t)
           \/ Restart
           \/ UNCHANGED vars
  BY DEF Next, Step, Rest, CallerStep

\* The store, the profiles and the tools always have their types: what a thread
\* holds at each place of a call is what it asked, a lock belongs to the call
\* that took it, and under the key of a user there is a profile, whatever the
\* interleaving, close() and the restarts.
THEOREM TypeCorrect == Spec => []TypeOK
<1>1. ASSUME TypeOK, [Next]_vars  PROVE TypeOK'
  <2>1. ASSUME NEW t \in Thread,
               StoreStep(t) /\ UNCHANGED <<task, toolVars, calls, restarts>>
        PROVE  TypeOK'
    <3>1. SqliteTypeOK /\ Advances(t)
      BY <1>1, <2>1, StoreStepAdvances DEF TypeOK
    <3> QED
      BY <1>1, <2>1, <3>1, StoreStepType, AdvancesTypes DEF TypeOK, toolVars
  <2>2. ASSUME NEW t \in Thread, CallerStep(t)  PROVE TypeOK'
    <3>1. PICK next : Calls(t, next)
      BY <1>1, <2>2, CallerCalls
    <3>2. SqliteTypeOK'
      BY <1>1, <3>1, CallsType DEF TypeOK
    <3>3. ContinuityTypeOK' /\ ToolTypeOK' /\ \A u \in Thread : CallerOK(u)'
      BY <1>1, <2>2, CallContinuityTypes, CallRegistryTypes, CloseTypes, ContinuityStepTypes,
         ToolStepTypes DEF CallerStep
    <3> QED
      BY <3>2, <3>3 DEF TypeOK
  <2>3. CASE UNCHANGED vars
    BY <1>1, <2>3 DEF vars, sqliteVars, toolVars, TypeOK, SqliteTypeOK, ContinuityTypeOK,
       ToolTypeOK, TaskOK, ChoreOK, CallerOK, LocksOK, AppendOK, Idle
  <2> QED
    BY <1>1, <2>1, <2>2, <2>3, NextIs, RestartTypes
<1> QED
  BY <1>1, InitTypes, PTL DEF Spec

\* close() loses no connection, and a store that was closed can be used again:
\* what is open will be closed by the next close(), and a closed connection is
\* in a thread-local only until the close() that closed it has replaced that.
THEOREM ConnectionsAreKept == Spec => [](NoConnectionLost /\ ClosedIsForgotten)
<1>1. Init => NoConnectionLost /\ ClosedIsForgotten
  BY DEF Init, Opened, NoConnectionLost, ClosedIsForgotten
<1>2. ASSUME TypeOK, NoConnectionLost, ClosedIsForgotten, [Next]_vars
      PROVE  NoConnectionLost' /\ ClosedIsForgotten'
  <2>1. SqliteTypeOK
    BY <1>2 DEF TypeOK
  <2>2. ASSUME NEW t \in Thread, CallerStep(t)  PROVE NoConnectionLost' /\ ClosedIsForgotten'
    BY <1>2, <2>1, <2>2, CallerCalls, CallsConnections
  <2>3. CASE Restart
    BY <1>2, <2>1, <2>3, CallsConnections DEF Restart
  <2>4. CASE UNCHANGED vars
    BY <1>2, <2>4 DEF vars, sqliteVars, NoConnectionLost, ClosedIsForgotten
  <2> QED
    BY <1>2, <2>1, <2>2, <2>3, <2>4, NextIs, StoreStepConnections, StoreStepForgets
<1> QED
  BY <1>1, <1>2, TypeCorrect, PTL DEF Spec

\* A store that was closed opens again at its next use, in the thread that
\* closed it and in every other: the half of the above about thread-locals.
THEOREM ClosedForgotten == Spec => []ClosedIsForgotten
  BY ConnectionsAreKept, PTL

-----------------------------------------------------------------------------
(* The refinement: what a step is to the abstract store                    *)

Seen == [t \in Thread |-> CallSeen(call[t])]
NotSeen == [st |-> "idle", req |-> None, answer |-> None]
SeenAs(st, req, a) == [st |-> st, req |-> req, answer |-> a]

\* The fields of what is seen.
LEMMA SeenFields ==
    /\ NotSeen.st = "idle"
    /\ \A st, req, a : SeenAs(st, req, a).st = st /\ SeenAs(st, req, a).req = req
  BY DEF NotSeen, SeenAs

\* What a call is to its caller at each of its places.
LEMMA SeenPlaces ==
    /\ \A c : c.st = "idle" \/ c.req = Close => CallSeen(c) = NotSeen
    /\ \A c : c.req \in Promise!Request =>
          /\ c.st \in {"connect", "append", "execute", "commit"} =>
                CallSeen(c) = SeenAs("asked", c.req, None)
          /\ c.st = "raised" => CallSeen(c) = SeenAs("raised", c.req, None)
          /\ c.st \in {"fetch", "done"} => CallSeen(c) = SeenAs("done", c.req, c.answer)
<1>1. \A req \in Promise!Request : req # Close
  BY DEF Promise!Request, Close
<1> QED
  BY <1>1 DEF CallSeen, NotSeen, SeenAs

\* Every other thread's call is seen as before.
LEMMA SeenOthers ==
    ASSUME SqliteTypeOK, NEW t \in Thread, \A u \in Thread \ {t} : call'[u] = call[u]
    PROVE  /\ Seen' = [Seen EXCEPT ![t] = CallSeen(call'[t])]
           /\ Seen[t] = CallSeen(call[t]) /\ Seen'[t] = CallSeen(call'[t])
           /\ CallSeen(call'[t]) = CallSeen(call[t]) => Seen' = Seen
  BY DEF Seen

\* A call that raises is one that raises to its caller.
LEMMA RaisesSeen ==
    ASSUME SqliteTypeOK, NEW t \in Thread,
           \/ Unencodable(t) \/ ConnectFails(t) \/ ExecuteFails(t)
           \/ Commit(t) /\ call[t].conn \notin open
           \/ Fetch(t) /\ call[t].conn \notin open
    PROVE  Promise!Raise(t)
<1>1. /\ Moves(t, "raised", None, 0)
      /\ call[t].st \in {"connect", "execute", "commit", "fetch"}
      /\ UNCHANGED disk
  BY DEF Unencodable, ConnectFails, ExecuteFails, Commit, Fetch, Raises
<1>2. Moved(t, "raised", None, 0)
  BY <1>1, NoneIs, MovesFields DEF State
<1>3. /\ call[t].req \in Promise!Request /\ call'[t].req = call[t].req
      /\ call[t].st = "fetch" => ~IsWrite(call[t].req)
  BY <1>1, <1>2 DEF SqliteTypeOK, ShapeOK, Moved
<1>4. CallSeen(call'[t]) = SeenAs("raised", call[t].req, None)
  BY <1>2, <1>3, SeenPlaces DEF Moved
<1>5. \/ CallSeen(call[t]) = SeenAs("asked", call[t].req, None)
      \/ /\ CallSeen(call[t]) = SeenAs("done", call[t].req, call[t].answer)
         /\ Promise!IsRead(call[t].req)
  <2>1. CASE call[t].st = "fetch"
    BY <1>3, <2>1, SeenPlaces DEF Promise!IsRead, IsWrite, Promise!Request
  <2>2. CASE call[t].st # "fetch"
    BY <1>1, <1>3, <2>2, SeenPlaces
  <2> QED
    BY <2>1, <2>2
<1>6. /\ Seen[t] = CallSeen(call[t])
      /\ Seen' = [Seen EXCEPT ![t] = CallSeen(call'[t])]
  BY <1>2, SeenOthers DEF Moved
<1>7. /\ Seen[t].st = "asked" \/ (Seen[t].st = "done" /\ Promise!IsRead(Seen[t].req))
      /\ Seen[t].req = call[t].req
  BY <1>5, <1>6, SeenFields
<1>8. Seen' = [Seen EXCEPT ![t] = [st |-> "raised", req |-> Seen[t].req, answer |-> None]]
  BY <1>4, <1>6, <1>7 DEF SeenAs
<1> QED
  BY <1>1, <1>7, <1>8 DEF Promise!Raise, Seen

\* A read that executes, and a write that commits, takes effect.
LEMMA EffectSeen ==
    ASSUME SqliteTypeOK, NEW t \in Thread,
           ExecuteRead(t) \/ (Commit(t) /\ call[t].conn \in open)
    PROVE  Promise!Apply(t)
<1> DEFINE req == call[t].req
<1>1. /\ req \in Promise!Request /\ call[t].st \in {"execute", "commit"}
  BY DEF SqliteTypeOK, ShapeOK, ExecuteRead, Commit
<1>2. /\ call'[t].st \in {"fetch", "done"} /\ call'[t].req = req
      /\ \A u \in Thread \ {t} : call'[u] = call[u]
      /\ disk' = Promise!Effect(req, disk)
      /\ call'[t].answer = Promise!Answer(req, disk)
  <2>1. CASE ExecuteRead(t)
    <3>1. /\ Moves(t, "fetch", Rows(req), call[t].conn) /\ ~IsWrite(req)
          /\ call[t].conn \in Conn \cup {0} /\ UNCHANGED disk
      BY <2>1 DEF ExecuteRead, SqliteTypeOK
    <3>2. Rows(req) \in AnswerType
      BY <1>1, <3>1, RowsType
    <3>3. Moved(t, "fetch", Rows(req), call[t].conn)
      BY <3>1, <3>2, MovesFields DEF State
    <3>4. req.op \in {"get", "list"}
      BY <1>1, <3>1 DEF Promise!Request, IsWrite
    <3>5. Promise!Answer(req, disk) = Rows(req) /\ Promise!Effect(req, disk) = disk
      BY <3>4 DEF Promise!Answer, Promise!Effect, Rows
    <3> QED
      BY <3>1, <3>3, <3>5 DEF Moved
  <2>2. CASE Commit(t) /\ call[t].conn \in open
    <3>1. /\ Moved(t, "done", None, 0)
          /\ \/ /\ req \in [op : {"put"}, key : Key, value : Value]
                /\ disk' = [disk EXCEPT ![req.key] = req.value]
             \/ /\ req \in [op : {"delete"}, key : Key]
                /\ disk' = [disk EXCEPT ![req.key] = None]
      BY <2>2, CommitDoes
    <3>2. /\ req \in [op : {"put"}, key : Key, value : Value] => req.op = "put"
          /\ req \in [op : {"delete"}, key : Key] => req.op = "delete"
      OBVIOUS
    <3> HIDE DEF req
    <3>3. disk' = Promise!Effect(req, disk) /\ Promise!Answer(req, disk) = None
      BY <3>1, <3>2 DEF Promise!Effect, Promise!Answer
    <3> QED
      BY <3>1, <3>3 DEF Moved, req
  <2> QED
    BY <2>1, <2>2
<1> HIDE DEF req
<1>3. /\ CallSeen(call[t]) = SeenAs("asked", req, None)
      /\ CallSeen(call'[t]) = SeenAs("done", req, Promise!Answer(req, disk))
  BY <1>1, <1>2, SeenPlaces DEF req
<1>4. /\ Seen[t] = CallSeen(call[t])
      /\ Seen' = [Seen EXCEPT ![t] = CallSeen(call'[t])]
  BY <1>2, SeenOthers
<1>5. /\ Seen[t].st = "asked" /\ Seen[t].req = req
      /\ Seen' = [Seen EXCEPT ![t] = [st |-> "done", req |-> Seen[t].req,
                                      answer |-> Promise!Answer(Seen[t].req, disk)]]
  BY <1>3, <1>4 DEF SeenAs
<1> QED
  BY <1>2, <1>5 DEF Promise!Apply, Seen

\* The other steps of a call are not seen.
LEMMA OthersNotSeen ==
    ASSUME SqliteTypeOK, NEW t \in Thread,
           \/ Reuse(t) \/ Connect(t) \/ AppendConn(t) \/ ExecuteWrite(t)
           \/ Fetch(t) /\ call[t].conn \in open
           \/ CloseBegin(t) \/ CloseOne(t) \/ CloseRefused(t)
           \/ CloseClear(t) \/ CloseReplace(t)
    PROVE  Seen' = Seen /\ UNCHANGED disk
<1>1. CASE Reuse(t) \/ Connect(t) \/ AppendConn(t) \/ ExecuteWrite(t)
  <2>1. /\ \E st \in {"append", "execute", "commit"}, c \in Conn \cup {0} : Moves(t, st, None, c)
        /\ call[t].st \in {"connect", "append", "execute"} /\ UNCHANGED disk
    BY <1>1 DEF Reuse, Connect, AppendConn, ExecuteWrite, Unused, SqliteTypeOK
  <2>2. PICK st \in {"append", "execute", "commit"}, c \in Conn \cup {0} : Moved(t, st, None, c)
    BY <2>1, NoneIs, MovesFields DEF State
  <2>3. call[t].req \in Promise!Request
    BY <2>1 DEF SqliteTypeOK, ShapeOK
  <2>4. CallSeen(call'[t]) = CallSeen(call[t])
    BY <2>1, <2>2, <2>3, SeenPlaces DEF Moved
  <2> QED
    BY <2>1, <2>2, <2>4, SeenOthers DEF Moved
<1>2. CASE Fetch(t) /\ call[t].conn \in open
  <2>1. /\ Moves(t, "done", call[t].answer, 0) /\ call[t].answer \in AnswerType
        /\ call[t].st = "fetch" /\ UNCHANGED disk
    BY <1>2 DEF Fetch, Answers, SqliteTypeOK
  <2>2. Moved(t, "done", call[t].answer, 0)
    BY <2>1, MovesFields DEF State
  <2>3. call[t].req \in Promise!Request
    BY <2>1 DEF SqliteTypeOK, ShapeOK
  <2>4. CallSeen(call'[t]) = CallSeen(call[t])
    BY <2>1, <2>2, <2>3, SeenPlaces DEF Moved
  <2> QED
    BY <2>1, <2>2, <2>4, SeenOthers DEF Moved
<1>3. CASE CloseBegin(t) \/ CloseClear(t) \/ CloseReplace(t)
  <2>1. /\ \E st \in {"closing", "replace", "done"} : Moves(t, st, None, 0)
        /\ call[t].st \in {"lock", "closing", "replace"} /\ UNCHANGED disk
    BY <1>3 DEF CloseBegin, CloseClear, CloseReplace, Answers
  <2>2. PICK st \in {"closing", "replace", "done"} : Moved(t, st, None, 0)
    BY <2>1, NoneIs, MovesFields DEF State
  <2>3. call[t].req = Close
    BY <2>1 DEF SqliteTypeOK, ShapeOK
  <2>4. CallSeen(call'[t]) = CallSeen(call[t])
    BY <2>2, <2>3, SeenPlaces DEF Moved
  <2> QED
    BY <2>1, <2>2, <2>4, SeenOthers DEF Moved
<1>4. CASE CloseOne(t) \/ CloseRefused(t)
  BY <1>4, CloseOneDoes, CloseRefusedDoes DEF Seen
<1> QED
  BY <1>1, <1>2, <1>3, <1>4

\* A caller asks, or leaves with the answer, or is not seen.
LEMMA CallsSeen ==
    ASSUME SqliteTypeOK, NEW t \in Thread, NEW next, Calls(t, next)
    PROVE  Promise!Ask(t) \/ Promise!Leave(t) \/ (Seen' = Seen /\ UNCHANGED disk)
<1>1. /\ call' = [call EXCEPT ![t] = next] /\ UNCHANGED disk
      /\ call[t].st \in {"idle", "done", "raised"}
      /\ next = NoCall \/ next = Asked(Close) \/ \E req \in Promise!Request : next = Asked(req)
  BY DEF Calls
<1>2. call'[t] = next /\ \A u \in Thread \ {t} : call'[u] = call[u]
  BY <1>1 DEF SqliteTypeOK
<1>3. /\ Seen[t] = CallSeen(call[t]) /\ Seen'[t] = CallSeen(next)
      /\ Seen' = [Seen EXCEPT ![t] = CallSeen(next)]
      /\ CallSeen(next) = CallSeen(call[t]) => Seen' = Seen
  BY <1>2, SeenOthers
<1>4. CallSeen(call[t]) = NotSeen \/ CallSeen(call[t]).st \in {"done", "raised"}
  <2>1. \/ call[t].st = "idle" \/ call[t].req = Close
        \/ call[t].req \in Promise!Request
    BY <1>1 DEF SqliteTypeOK, ShapeOK
  <2> QED
    BY <1>1, <2>1, SeenPlaces, SeenFields
<1>5. CASE next = NoCall \/ next = Asked(Close)
  <2>1. CallSeen(next) = NotSeen
    BY <1>5, SeenPlaces DEF NoCall, Asked
  <2>2. CASE CallSeen(call[t]) = NotSeen
    BY <1>1, <1>3, <2>1, <2>2
  <2>3. CASE Seen[t].st \in {"done", "raised"}
    BY <1>1, <1>3, <2>1, <2>3 DEF Promise!Leave, Promise!NoCall, Seen, NotSeen
  <2> QED
    BY <1>3, <1>4, <2>2, <2>3
<1>6. ASSUME NEW req \in Promise!Request, next = Asked(req)  PROVE Promise!Ask(t)
  <2>1. req.op # "close"
    BY DEF Promise!Request
  <2>2. CallSeen(next) = SeenAs("asked", req, None)
    BY <1>6, <2>1, SeenPlaces DEF Asked
  <2>3. Seen[t].st # "asked"
    BY <1>3, <1>4, SeenFields
  <2>4. Seen'[t] \in [st : {"asked"}, req : Promise!Request, answer : {None}]
    BY <1>3, <2>2 DEF SeenAs
  <2>5. Seen' = [Seen EXCEPT ![t] = Seen'[t]]
    BY <1>3
  <2> QED
    BY <1>1, <2>3, <2>4, <2>5 DEF Promise!Ask, Seen
<1> QED
  BY <1>1, <1>5, <1>6

\* SQLiteStorage implements the abstract store: to the threads that call it, a
\* call takes effect once, whole, at one moment between its begin and its end,
\* or raises and has changed nothing, whatever close(), the write lock and the
\* restarts do in between.
THEOREM Implements == Spec => KeepsPromise
<1>1. Init => Promise!Init
  <2> SUFFICES ASSUME Init  PROVE Promise!Init
    OBVIOUS
  <2>1. SqliteTypeOK /\ call = [t \in Thread |-> NoCall]
    BY InitTypes DEF TypeOK, Init, Opened
  <2>2. CallSeen(NoCall) = NotSeen
    BY SeenPlaces DEF NoCall
  <2> QED
    BY <2>1, <2>2 DEF Promise!Init, Promise!NoCall, NotSeen, SqliteTypeOK
<1>2. ASSUME TypeOK, [Next]_vars  PROVE [Promise!Next]_<<disk, Seen>>
  <2>1. SqliteTypeOK
    BY <1>2 DEF TypeOK
  <2>2. ASSUME NEW t \in Thread, StoreStep(t)  PROVE [Promise!Next]_<<disk, Seen>>
    <3>1. Promise!Raise(t) \/ Promise!Apply(t) \/ (Seen' = Seen /\ UNCHANGED disk)
      BY <2>1, <2>2, RaisesSeen, EffectSeen, OthersNotSeen DEF StoreStep
    <3> QED
      BY <3>1 DEF Promise!Next
  <2>3. ASSUME NEW t \in Thread, CallerStep(t)  PROVE [Promise!Next]_<<disk, Seen>>
    <3>1. PICK next : Calls(t, next)
      BY <1>2, <2>3, CallerCalls
    <3>2. Promise!Ask(t) \/ Promise!Leave(t) \/ (Seen' = Seen /\ UNCHANGED disk)
      BY <2>1, <3>1, CallsSeen
    <3> QED
      BY <3>2 DEF Promise!Next
  <2>4. CASE Restart
    <3>1. call' = [t \in Thread |-> NoCall] /\ UNCHANGED disk
      BY <2>4 DEF Restart, Reopen
    <3>2. CallSeen(NoCall) = NotSeen
      BY SeenPlaces DEF NoCall
    <3>3. Promise!Crash
      BY <3>1, <3>2 DEF Promise!Crash, Promise!NoCall, NotSeen
    <3> QED
      BY <3>3 DEF Promise!Next
  <2>5. CASE UNCHANGED vars
    BY <2>5 DEF vars, sqliteVars, Seen
  <2> QED
    BY <1>2, <2>2, <2>3, <2>4, <2>5, NextIs
<1>3. [Promise!Next]_<<disk, Seen>> =>
          [Promise!Next]_<<disk, [t \in Thread |-> CallSeen(call[t])]>>
  BY DEF Seen
<1> QED
  BY <1>1, <1>2, <1>3, TypeCorrect, PTL DEF Spec, KeepsPromise, Promise!Spec

-----------------------------------------------------------------------------
(* Profiles                                                                *)

\* The commit of a thread's write.
Writes(t) ==
    /\ call[t].st = "commit" /\ call'[t].st = "done"
    /\ WritesProfile(t) \/ WritesTool(t)

\* Every step that changes a row is one.
LEMMA OnlyCommitsWrite ==
    ASSUME TypeOK, [Next]_vars, disk' # disk  PROVE \E t \in Thread : Writes(t)
<1>1. ASSUME NEW t \in Thread, StoreStep(t)  PROVE UNCHANGED disk \/ Writes(t)
  <2>1. Advances(t)
    BY <1>1, StoreStepAdvances DEF TypeOK
  <2> QED
    BY <2>1, WriteIs DEF Advances, Writes
<1>2. ASSUME NEW t \in Thread, CallerStep(t)  PROVE UNCHANGED disk
  BY <1>2, CallerCalls DEF Calls
<1>3. Restart \/ UNCHANGED vars => UNCHANGED disk
  BY DEF Restart, Reopen, vars, sqliteVars
<1> QED
  BY <1>1, <1>2, <1>3, NextIs

\* What a merge or a set does to a field that was set explicitly.
LEMMA ExplicitInProfile ==
    ASSUME NEW p \in ProfileOf, NEW f \in Field, p[f] # None, p[f].confidence = Explicit
    PROVE  /\ FromStore(p)[f] = p[f]
           /\ \A x \in Extractions : Merge(FromStore(p), LearnedProfile(x))[f] = p[f]
           /\ \A g \in Field, fact \in Fact, conf \in UpdateConf : \A h \in Field \ {g} :
                 SetField(FromStore(p), g, fact, conf)[h] = FromStore(p)[h]
<1>1. FromStore(p)[f] = p[f]
  <2>1. Decoded(p[f]) = p[f]
    BY DEF Decoded, Explicit
  <2>2. p # None
    BY SqliteAssumption, ContinuityAssumption
  <2> QED
    BY <2>1, <2>2 DEF FromStore
<1>2. ASSUME NEW x \in Extractions  PROVE Merge(FromStore(p), LearnedProfile(x))[f] = p[f]
  <2>1. LearnedProfile(x)[f] = None \/ LearnedProfile(x)[f].confidence = Learned
    BY DEF LearnedProfile, Entry
  <2> QED
    BY <1>1, <2>1 DEF Merge, Learned, Explicit
<1>3. FromStore(p) \in ProfileOf
  BY ProfileTypes
<1>4. ASSUME NEW g \in Field, NEW fact \in Fact, NEW conf \in UpdateConf, NEW h \in Field \ {g}
      PROVE  SetField(FromStore(p), g, fact, conf)[h] = FromStore(p)[h]
  BY <1>3 DEF SetField, ProfileOf
<1> QED
  BY <1>1, <1>2, <1>4

\* What a user has set explicitly is lost only by a delete, by a later update of
\* that field, or by a call whose profile was loaded before another write.
THEOREM ExplicitSurvives == Spec => ExplicitFactsSurvive
<1>1. ASSUME TypeOK, [Next]_vars, NEW u \in User, NEW f \in Field, Loses(u, f)
      PROVE  \E t \in Thread : Overrules(t, u, f)
  <2>1. /\ disk \in [Key -> Value \cup {None}] /\ u \in Key
        /\ disk[u] \in ProfileOf /\ disk[u][f] # None /\ disk[u][f].confidence = Explicit
    BY <1>1, ContinuityAssumption DEF TypeOK, SqliteTypeOK, ContinuityTypeOK, Explicitly, Loses
  <2>2. disk'[u] # disk[u]
    BY <1>1, <2>1 DEF Explicitly, Loses
  <2>3. PICK t \in Thread : Writes(t)
    BY <1>1, <2>2, OnlyCommitsWrite
  <2>4. CASE WritesTool(t)
    <3>1. chore[t].tool # u
      BY <2>4, StoreAssumption DEF WritesTool
    <3> QED
      BY <2>1, <2>2, <2>4, <3>1 DEF WritesTool
  <2>5. CASE WritesProfile(t)
    <3>1. task[t].user = u
      BY <2>1, <2>2, <2>5 DEF WritesProfile
    <3>2. CASE task[t].op # "delete" /\ task[t].loaded = FromStore(disk[u])
      <4>1. PICK p \in ProfileOf :
                /\ disk' = [disk EXCEPT ![u] = p]
                /\ \/ /\ task[t].op = "update"
                      /\ \E g \in Field, fact \in Fact, conf \in UpdateConf :
                            p = SetField(FromStore(disk[u]), g, fact, conf)
                   \/ /\ task[t].op = "learn"
                      /\ \E x \in Extractions :
                            p = Merge(FromStore(disk[u]), LearnedProfile(x))
        BY <2>5, <3>1, <3>2 DEF WritesProfile
      <4>2. disk'[u] = p /\ p # None
        BY <2>1, <4>1, SqliteAssumption, ContinuityAssumption
      <4>3. p[f] # disk[u][f]
        BY <1>1, <2>1, <4>2 DEF Explicitly, Loses
      <4>4. CASE task[t].op = "learn"
        BY <2>1, <4>1, <4>3, <4>4, ExplicitInProfile
      <4>5. CASE task[t].op = "update"
        <5>1. PICK g \in Field, fact \in Fact, conf \in UpdateConf :
                  p = SetField(FromStore(disk[u]), g, fact, conf)
          BY <4>1, <4>5
        <5>2. \A h \in Field \ {g} : p[h] = FromStore(disk[u])[h]
          BY <2>1, <5>1, ExplicitInProfile
        <5>3. g = f
          BY <2>1, <4>3, <5>2, ExplicitInProfile
        <5> QED
          BY <2>3, <3>1, <3>2, <4>2, <4>5, <5>2, <5>3 DEF Overrules, Writes
      <4> QED
        BY <4>1, <4>4, <4>5
    <3> QED
      BY <2>3, <3>1, <3>2 DEF Overrules, Writes
  <2> QED
    BY <2>3, <2>4, <2>5 DEF Writes
<1>2. TypeOK /\ [Next]_vars =>
          [\A u \in User, f \in Field :
              Loses(u, f) => \E t \in Thread : Overrules(t, u, f)]_disk
  BY <1>1
<1> QED
  BY <1>2, TypeCorrect, PTL DEF Spec, ExplicitFactsSurvive

-----------------------------------------------------------------------------
(* The registry                                                            *)

Registers(k, x) == k.op = "register" /\ k.tool = x
Unregisters(k, x) == k.op = "unregister" /\ k.tool = x
Loads(k) == k.op = "load"

\* The dict and the store agree on a name.
Agrees(info, row) == IF info = None THEN row = None ELSE row = info.description

\* What a thread's call knows of the name it is about.
ChoreKnows(k, c, x, info, row) ==
    /\ Registers(k, x) =>
          /\ info # None /\ c.req = Put(x, info.description)
          /\ row = IF c.st = "done" THEN info.description ELSE None
    /\ Unregisters(k, x) => info = None /\ (c.st = "done" => row = None)
    /\ Loads(k) /\ k.tool = x /\ c.st \in {"fetch", "done"} => c.answer \in {None, row}

\* The inductive invariant of a name that the history is sure of: a name that is
\* being registered is not stored yet, by no other call; one that is being
\* unregistered is in no load; and one that no call changes agrees.
NameOK(x) ==
    /\ \A t, u \in Thread : Registers(chore[t], x) =>
          (Registers(chore[u], x) => t = u) /\ ~Unregisters(chore[u], x)
    /\ \A t, u \in Thread : Unregisters(chore[t], x) => ~Loads(chore[u])
    /\ \A t \in Thread : ChoreKnows(chore[t], call[t], x, tools[x], disk[x])
    /\ (\A t \in Thread : ~Registers(chore[t], x) /\ ~Unregisters(chore[t], x))
          => Agrees(tools[x], disk[x])

RegistryOK == \A x \in Tool : x \in unsure \/ NameOK(x)

\* A thread's call that changes the name: no other changes it and none is a load,
\* so what it has put or deleted is what the dict has.
AloneOn(t, x) ==
    /\ Registers(chore[t], x) \/ Unregisters(chore[t], x)
    /\ \A u \in Thread \ {t} : ~Registers(chore[u], x) /\ ~Unregisters(chore[u], x)
    /\ \A u \in Thread : ~Loads(chore[u])
    /\ Registers(chore[t], x) => /\ tools[x] # None
                                 /\ call[t].req = Put(x, tools[x].description)
    /\ Unregisters(chore[t], x) => tools[x] = None
    /\ call[t].st = "done" => Agrees(tools[x], disk[x])

AloneOK == \A t \in alone : \E x \in Tool : AloneOn(t, x)

\* The sets of calls that the registry's history looks at.
LEMMA DoingIs ==
    ASSUME NEW x
    PROVE  /\ Changing(x) = {} <=>
                 \A u \in Thread : ~Registers(chore[u], x) /\ ~Unregisters(chore[u], x)
           /\ Doing("register", x) = {} <=> \A u \in Thread : ~Registers(chore[u], x)
           /\ Doing("unregister", x) = {} <=> \A u \in Thread : ~Unregisters(chore[u], x)
           /\ Loading = {} <=> \A u \in Thread : ~Loads(chore[u])
           /\ \A t \in Thread : Loading = {t} => \A u \in Thread : Loads(chore[u]) => u = t
  BY DEF Changing, Doing, Loading, Registers, Unregisters, Loads

\* A step of one thread that leaves the name alone and neither begins nor ends a
\* call that changes it.
LEMMA NameStays ==
    ASSUME NEW x \in Tool, NEW t \in Thread, NameOK(x),
           tools'[x] = tools[x], disk'[x] = disk[x],
           \A u \in Thread \ {t} : chore'[u] = chore[u] /\ call'[u] = call[u],
           ~Registers(chore[t], x), ~Unregisters(chore[t], x), ~Registers(chore'[t], x), ~Unregisters(chore'[t], x),
           Loads(chore'[t]) => Loads(chore[t]) \/ \A u \in Thread : ~Unregisters(chore[u], x),
           Loads(chore'[t]) /\ chore'[t].tool = x => call'[t].st \notin {"fetch", "done"}
    PROVE  NameOK(x)'
<1>1. \A u \in Thread \ {t} : /\ Registers(chore'[u], x) <=> Registers(chore[u], x)
                              /\ Unregisters(chore'[u], x) <=> Unregisters(chore[u], x)
                              /\ Loads(chore'[u]) <=> Loads(chore[u])
  BY DEF Registers, Unregisters, Loads
<1>2. \A u \in Thread : ChoreKnows(chore'[u], call'[u], x, tools'[x], disk'[x])
  <2> SUFFICES ASSUME NEW u \in Thread  PROVE ChoreKnows(chore'[u], call'[u], x, tools'[x], disk'[x])
    OBVIOUS
  <2>1. CASE u = t
    BY <2>1 DEF ChoreKnows
  <2>2. CASE u # t
    BY <1>1, <2>2 DEF ChoreKnows, NameOK
  <2> QED
    BY <2>1, <2>2
<1>3. \A v, u \in Thread : /\ Registers(chore'[v], x) => /\ Registers(chore'[u], x) => v = u
                                                /\ ~Unregisters(chore'[u], x)
                          /\ Unregisters(chore'[v], x) => ~Loads(chore'[u])
  BY <1>1 DEF NameOK
<1>4. (\A u \in Thread : ~Registers(chore'[u], x) /\ ~Unregisters(chore'[u], x)) => Agrees(tools'[x], disk'[x])
  BY <1>1 DEF NameOK, Agrees
<1> QED
  BY <1>2, <1>3, <1>4 DEF NameOK

\* What a step of a call does to a name.
LEMMA AdvancesName ==
    ASSUME TypeOK, NEW t \in Thread, Advances(t), UNCHANGED <<task, tools, chore, unsure, alone>>,
           NEW x \in Tool, NameOK(x)
    PROVE  NameOK(x)'
<1>0. /\ x \in Key /\ disk \in [Key -> Value \cup {None}] /\ SqliteTypeOK /\ ShapeOK(call[t])
      /\ TaskOK(t) /\ ChoreOK(t) /\ CallerOK(t)
  BY ToolAssumption, OneCaller DEF TypeOK, SqliteTypeOK
<1>1. UNCHANGED <<chore, tools>>
  OBVIOUS
<1>2. \/ disk'[x] = disk[x]
      \/ /\ Registers(chore[t], x) /\ call[t].st = "commit" /\ call'[t].st = "done"
         /\ disk'[x] = tools[x].description
      \/ /\ Unregisters(chore[t], x) /\ call[t].st = "commit" /\ call'[t].st = "done"
         /\ disk'[x] = None
  <2>1. CASE UNCHANGED disk
    BY <2>1
  <2>2. CASE disk' # disk
    <3>1. /\ call[t].st = "commit" /\ call'[t].st = "done"
          /\ WritesProfile(t) \/ WritesTool(t)
      BY <2>2, WriteIs DEF Advances
    <3>2. CASE WritesProfile(t)
      BY <1>0, <3>2, StoreAssumption DEF WritesProfile
    <3>3. CASE WritesTool(t) /\ chore[t].tool # x
      BY <1>0, <3>3 DEF WritesTool
    <3>4. CASE WritesTool(t) /\ chore[t].tool = x /\ chore[t].op = "register"
      <4>1. PICK d : call[t].req = Put(x, d) /\ disk' = [disk EXCEPT ![x] = d]
        BY <3>4 DEF WritesTool
      <4>2. call[t].req = Put(x, tools[x].description) /\ Registers(chore[t], x)
        BY <3>4 DEF Registers, NameOK, ChoreKnows
      <4>3. d = tools[x].description
        BY <4>1, <4>2 DEF Put
      <4> QED
        BY <1>0, <3>1, <4>1, <4>2, <4>3
    <3>5. CASE WritesTool(t) /\ chore[t].tool = x /\ chore[t].op = "unregister"
      BY <1>0, <3>1, <3>5 DEF WritesTool, Unregisters
    <3> QED
      BY <3>1, <3>2, <3>3, <3>4, <3>5 DEF WritesTool
  <2> QED
    BY <2>1, <2>2
<1>3. Agrees(tools[x], disk[x]) /\ disk'[x] = disk[x] => Agrees(tools'[x], disk'[x])
  BY DEF Agrees
<1>4. ASSUME NEW u \in Thread  PROVE ChoreKnows(chore'[u], call'[u], x, tools'[x], disk'[x])
  <2>1. ChoreKnows(chore[u], call[u], x, tools[x], disk[x])
    BY DEF NameOK
  <2>2. CASE u # t
    <3>1. call'[u] = call[u]
      BY <2>2 DEF Advances
    <3>2. CASE disk'[x] = disk[x]
      BY <1>1, <2>1, <3>1, <3>2 DEF ChoreKnows
    <3>3. CASE Registers(chore[t], x) /\ call[t].st = "commit" /\ disk'[x] = tools[x].description
      <4>1. ~Registers(chore[u], x) /\ ~Unregisters(chore[u], x) /\ disk[x] = None
        BY <2>2, <3>3 DEF NameOK, ChoreKnows
      <4> QED
        BY <1>1, <2>1, <3>1, <4>1 DEF ChoreKnows
    <3>4. CASE Unregisters(chore[t], x) /\ disk'[x] = None
      <4>1. ~Registers(chore[u], x) /\ ~Loads(chore[u])
        BY <2>2, <3>4 DEF NameOK
      <4> QED
        BY <1>1, <2>1, <3>1, <3>4, <4>1 DEF ChoreKnows
    <3> QED
      BY <1>2, <3>2, <3>3, <3>4
  <2>3. CASE u = t /\ Registers(chore[t], x)
    <3>1. call[t].req = Put(x, tools[x].description) /\ tools[x] # None /\ IsWrite(call[t].req)
      BY <2>1, <2>3 DEF ChoreKnows, IsWrite, Put
    <3>2. call[t].st # "done" /\ disk[x] = None
      BY <2>1, <2>3 DEF ChoreKnows, Advances
    <3>3. ~Unregisters(chore[t], x) /\ ~Loads(chore[t])
      BY <2>3 DEF Registers, Unregisters, Loads
    <3>4. disk'[x] = IF call'[t].st = "done" THEN tools[x].description ELSE None
      <4>1. CASE call'[t].st = "done"
        <5>1. Wrote(call[t].req)
          BY <3>1, <4>1 DEF Advances
        <5>2. call[t].req.op = "put" /\ call[t].req.key = x
              /\ call[t].req.value = tools[x].description
          BY <3>1 DEF Put
        <5>3. disk' = [disk EXCEPT ![x] = tools[x].description]
          <6>1. call[t].req \notin [op : {"delete"}, key : Key]
            BY <5>2
          <6> QED
            BY <5>1, <5>2, <6>1 DEF Wrote
        <5> QED
          BY <1>0, <4>1, <5>3
      <4>2. CASE call'[t].st # "done"
        BY <1>2, <3>2, <4>2
      <4> QED
        BY <4>1, <4>2
    <3>5. call'[t].req = call[t].req
      BY DEF Advances
    <3> QED
      BY <1>1, <2>3, <3>1, <3>3, <3>4, <3>5 DEF ChoreKnows
  <2>4. CASE u = t /\ Unregisters(chore[t], x)
    <3>1. call[t].req = Delete(x) /\ IsWrite(call[t].req)
      BY <1>0, <2>4 DEF Unregisters, ChoreOK, IsWrite, Delete
    <3>2. ~Registers(chore[t], x) /\ ~Loads(chore[t])
      BY <2>4 DEF Registers, Unregisters, Loads
    <3>3. call'[t].st = "done" => disk'[x] = None
      <4> SUFFICES ASSUME call'[t].st = "done"  PROVE disk'[x] = None
        OBVIOUS
      <4>1. Wrote(call[t].req)
        BY <3>1 DEF Advances
      <4>2. call[t].req.op = "delete" /\ call[t].req.key = x
        BY <3>1 DEF Delete
      <4>3. call[t].req \notin [op : {"put"}, key : Key, value : Value]
        BY <4>2
      <4> QED
        BY <1>0, <4>1, <4>2, <4>3 DEF Wrote
    <3> QED
      BY <1>1, <2>1, <2>4, <3>2, <3>3 DEF ChoreKnows
  <2>5. CASE u = t /\ Loads(chore[t]) /\ chore[t].tool = x
    <3>1. call[t].req = Get(x) /\ ~IsWrite(call[t].req)
      <4>1. x # None
        BY <1>0, SqliteAssumption
      <4> QED
        BY <1>0, <2>5, <4>1 DEF Loads, ChoreOK, IsWrite, Get
    <3>2. call'[t].answer \in {None, call[t].answer, disk[x]}
      BY <1>0, <3>1, AnswersOfGet
    <3>3. call[t].answer \in {None, disk[x]}
      BY <1>0, <2>1, <2>5 DEF ChoreKnows, ShapeOK
    <3>4. ~Registers(chore[t], x) /\ ~Unregisters(chore[t], x) /\ disk'[x] = disk[x]
      BY <1>2, <2>5 DEF Registers, Unregisters, Loads
    <3> QED
      BY <1>1, <2>5, <3>2, <3>3, <3>4 DEF ChoreKnows
  <2>6. CASE u = t /\ ~Registers(chore[t], x) /\ ~Unregisters(chore[t], x) /\ ~(Loads(chore[t]) /\ chore[t].tool = x)
    BY <1>1, <2>6 DEF ChoreKnows
  <2> QED
    BY <2>2, <2>3, <2>4, <2>5, <2>6
<1>5. (\A u \in Thread : ~Registers(chore'[u], x) /\ ~Unregisters(chore'[u], x)) => Agrees(tools'[x], disk'[x])
  BY <1>1, <1>2, <1>3 DEF NameOK
<1>6. \A v, u \in Thread : /\ Registers(chore'[v], x) => /\ Registers(chore'[u], x) => v = u
                                                /\ ~Unregisters(chore'[u], x)
                          /\ Unregisters(chore'[v], x) => ~Loads(chore'[u])
  BY <1>1 DEF NameOK
<1> QED
  BY <1>4, <1>5, <1>6 DEF NameOK

\* A tool of the dict.
LEMMA InfoIs ==
    \A d \in Description, bound \in BOOLEAN :
        Info(d, bound) # None /\ Info(d, bound).description = d
<1>1. \A d \in Description, bound \in BOOLEAN :
          Info(d, bound) \in [description : Description, bound : BOOLEAN]
  BY DEF Info
<1> QED
  BY <1>1, ToolAssumption DEF Info

\* What is left of the history that a step knows of.
SureOf(x) == x \notin unsure /\ NameOK(x)

\* A register begins.
LEMMA RegisterName ==
    ASSUME TypeOK, NEW t \in Thread, NEW y \in Tool, NEW d \in Description,
           Register(t, y, d, TRUE),
           NEW x \in Tool, SureOf(x), x \notin unsure'
    PROVE  NameOK(x)'
<1>1. /\ chore[t] = NoChore /\ tools \in [Tool -> ToolType] /\ DOMAIN chore = Thread
      /\ call' = [call EXCEPT ![t] = call'[t]] /\ DOMAIN call = Thread /\ UNCHANGED disk
      /\ chore'[t] = [op |-> "register", tool |-> y, left |-> {}]
      /\ \A u \in Thread \ {t} : chore'[u] = chore[u] /\ call'[u] = call[u]
      /\ tools' = [tools EXCEPT ![y] = Info(d, TRUE)] /\ tools[y] = None
      /\ call'[t].req = Put(y, d) /\ call'[t].st # "done"
  <2>1. Idle(t) /\ UNCHANGED disk
    BY DEF Register, ThenStores, Idle, StoreStays
  <2>2. /\ chore[t] = NoChore /\ tools \in [Tool -> ToolType] /\ DOMAIN chore = Thread
        /\ DOMAIN call = Thread
    BY <2>1, OneCaller
  <2>3. call' = [call EXCEPT ![t] = Asked(Put(y, d))]
    BY DEF Register, ThenStores, Ask
  <2>4. /\ chore' = [chore EXCEPT ![t] = Chore("register", y, {})]
        /\ tools' = [tools EXCEPT ![y] = Info(d, TRUE)] /\ tools[y] = None
    BY DEF Register, ThenStores
  <2> QED
    BY <2>1, <2>2, <2>3, <2>4 DEF Chore, Asked, Put
<1>2. CASE y # x
  <2>1. /\ ~Registers(chore[t], x) /\ ~Unregisters(chore[t], x)
        /\ ~Registers(chore'[t], x) /\ ~Unregisters(chore'[t], x) /\ ~Loads(chore'[t])
    BY <1>1, <1>2 DEF Registers, Unregisters, Loads, NoChore
  <2>2. tools'[x] = tools[x] /\ disk'[x] = disk[x]
    BY <1>1, <1>2
  <2> QED
    BY <1>1, <2>1, <2>2, NameStays DEF SureOf
<1>3. CASE y = x
  <2>1. \A u \in Thread : ~Unregisters(chore[u], x)
    BY <1>3, DoingIs DEF Register, SureOf
  <2>2. \A u \in Thread : ~Registers(chore[u], x)
    BY <1>1, <1>3 DEF SureOf, NameOK, ChoreKnows
  <2>3. disk[x] = None
    BY <1>1, <1>3, <2>1, <2>2 DEF SureOf, NameOK, Agrees
  <2>4. /\ Registers(chore'[t], x) /\ ~Unregisters(chore'[t], x) /\ ~Loads(chore'[t])
    BY <1>1, <1>3 DEF Registers, Unregisters, Loads
  <2>5. tools'[x] = Info(d, TRUE) /\ tools'[x] # None /\ tools'[x].description = d
    BY <1>1, <1>3, InfoIs
  <2>6. ASSUME NEW u \in Thread
        PROVE  ChoreKnows(chore'[u], call'[u], x, tools'[x], disk'[x])
    <3>1. CASE u = t
      BY <1>1, <1>3, <2>3, <2>4, <2>5, <3>1 DEF ChoreKnows
    <3>2. CASE u # t
      BY <1>1, <2>1, <2>2, <3>2 DEF ChoreKnows, SureOf, NameOK
    <3> QED
      BY <3>1, <3>2
  <2>7. /\ \A v, u \in Thread : Registers(chore'[v], x) =>
              (Registers(chore'[u], x) => v = u) /\ ~Unregisters(chore'[u], x)
        /\ \A v, u \in Thread : Unregisters(chore'[v], x) => ~Loads(chore'[u])
    BY <1>1, <2>1, <2>2, <2>4
  <2> QED
    BY <2>4, <2>6, <2>7 DEF NameOK
<1> QED
  BY <1>2, <1>3

\* An unregister begins.
LEMMA UnregisterName ==
    ASSUME TypeOK, NEW t \in Thread, NEW y \in Tool, Unregister(t, y, TRUE),
           NEW x \in Tool, SureOf(x), x \notin unsure'
    PROVE  NameOK(x)'
<1>1. /\ chore[t] = NoChore /\ tools \in [Tool -> ToolType] /\ UNCHANGED disk
      /\ chore'[t] = [op |-> "unregister", tool |-> y, left |-> {}]
      /\ \A u \in Thread \ {t} : chore'[u] = chore[u] /\ call'[u] = call[u]
      /\ tools' = [tools EXCEPT ![y] = None]
      /\ call'[t].st # "done"
  <2>1. Idle(t) /\ UNCHANGED disk
    BY DEF Unregister, ThenStores, Idle, StoreStays
  <2>2. /\ chore[t] = NoChore /\ tools \in [Tool -> ToolType] /\ DOMAIN chore = Thread
        /\ DOMAIN call = Thread
    BY <2>1, OneCaller
  <2>3. call' = [call EXCEPT ![t] = Asked(Delete(y))]
    BY DEF Unregister, ThenStores, Ask
  <2>4. /\ chore' = [chore EXCEPT ![t] = Chore("unregister", y, {})]
        /\ tools' = [tools EXCEPT ![y] = None]
    BY DEF Unregister, ThenStores
  <2> QED
    BY <2>1, <2>2, <2>3, <2>4 DEF Chore, Asked, Delete
<1>2. CASE y # x
  <2>1. /\ ~Registers(chore[t], x) /\ ~Unregisters(chore[t], x)
        /\ ~Registers(chore'[t], x) /\ ~Unregisters(chore'[t], x) /\ ~Loads(chore'[t])
    BY <1>1, <1>2 DEF Registers, Unregisters, Loads, NoChore
  <2>2. tools'[x] = tools[x] /\ disk'[x] = disk[x]
    BY <1>1, <1>2
  <2> QED
    BY <1>1, <2>1, <2>2, NameStays DEF SureOf
<1>3. CASE y = x
  <2>1. \A u \in Thread : ~Registers(chore[u], x) /\ ~Loads(chore[u])
    <3>1. Doing("register", x) \cup Loading = {}
      BY <1>3 DEF Unregister, SureOf
    <3> QED
      BY <3>1, DoingIs
  <2>2. Unregisters(chore'[t], x) /\ ~Registers(chore'[t], x) /\ ~Loads(chore'[t])
    BY <1>1, <1>3 DEF Registers, Unregisters, Loads
  <2>3. tools'[x] = None
    BY <1>1, <1>3
  <2>4. ASSUME NEW u \in Thread
        PROVE  ChoreKnows(chore'[u], call'[u], x, tools'[x], disk'[x])
    <3>1. CASE u = t
      BY <1>1, <2>2, <2>3, <3>1 DEF ChoreKnows
    <3>2. CASE u # t
      BY <1>1, <2>1, <2>3, <3>2 DEF ChoreKnows, SureOf, NameOK
    <3> QED
      BY <3>1, <3>2
  <2>5. /\ \A u \in Thread : ~Registers(chore'[u], x)
        /\ \A u \in Thread : ~Loads(chore'[u])
    BY <1>1, <2>1, <2>2
  <2> QED
    BY <2>2, <2>4, <2>5 DEF NameOK
<1> QED
  BY <1>2, <1>3

\* A load begins.
LEMMA BeginLoadName ==
    ASSUME TypeOK, NEW t \in Thread, BeginLoad(t),
           NEW x \in Tool, SureOf(x), x \notin unsure'
    PROVE  NameOK(x)'
<1>1. Idle(t) /\ UNCHANGED <<disk, tools>>
  BY DEF BeginLoad, Idle, StoreStays
<1>2. chore[t] = NoChore /\ DOMAIN chore = Thread /\ DOMAIN call = Thread
  BY <1>1, OneCaller
<1>3. call' = [call EXCEPT ![t] = Asked(List(Tool))]
  BY DEF BeginLoad, Ask
<1>4. /\ chore'[t] = [op |-> "load", tool |-> None, left |-> {}]
      /\ \A u \in Thread \ {t} : chore'[u] = chore[u] /\ call'[u] = call[u]
  BY <1>2, <1>3 DEF BeginLoad, Chore
<1>5. x # None
  BY ToolAssumption, SqliteAssumption
<1>6. \A u \in Thread : ~Unregisters(chore[u], x)
  <2>1. Doing("unregister", x) = {}
    BY DEF BeginLoad
  <2> QED
    BY <2>1, DoingIs
<1>7. /\ ~Registers(chore[t], x) /\ ~Unregisters(chore[t], x)
      /\ ~Registers(chore'[t], x) /\ ~Unregisters(chore'[t], x) /\ chore'[t].tool # x
  BY <1>2, <1>4, <1>5 DEF Registers, Unregisters, NoChore
<1> QED
  BY <1>1, <1>4, <1>6, <1>7, NameStays DEF SureOf

\* A register or unregister without a store: the history is no longer sure of
\* the name it changes.
LEMMA StorelessName ==
    ASSUME TypeOK, NEW t \in Thread, Storeless(t),
           NEW x \in Tool, SureOf(x), x \notin unsure'
    PROVE  NameOK(x)'
<1>1. chore[t] = NoChore
  BY OneCaller DEF Storeless
<1>2. tools'[x] = tools[x] /\ UNCHANGED <<disk, chore, call>>
  BY DEF Storeless, TypeOK, ToolTypeOK
<1>3. ~Registers(chore[t], x) /\ ~Unregisters(chore[t], x) /\ ~Loads(chore[t])
  BY <1>1 DEF Registers, Unregisters, Loads, NoChore
<1> QED
  BY <1>2, <1>3, NameStays DEF SureOf

\* Where load_from_store goes on.
LEMMA ContinueIs ==
    ASSUME TypeOK, NEW t \in Thread, NEW left, Continue(t, left)
    PROVE  /\ \A u \in Thread \ {t} : chore'[u] = chore[u] /\ call'[u] = call[u]
           /\ chore'[t].op \in {"none", "load"} /\ call'[t].st \notin {"fetch", "done"}
           /\ \A x : ~Registers(chore'[t], x) /\ ~Unregisters(chore'[t], x)
<1>1. DOMAIN chore = Thread /\ DOMAIN call = Thread
  BY OneCaller
<1> DEFINE Goes == /\ \A u \in Thread \ {t} : chore'[u] = chore[u] /\ call'[u] = call[u]
                   /\ chore'[t].op \in {"none", "load"}
                   /\ call'[t].st \notin {"fetch", "done"}
<1>2. CASE EndChore(t)
  <2>1. NoChore.op = "none" /\ NoCall.st = "idle"
    BY DEF NoChore, NoCall
  <2> QED
    BY <1>1, <1>2, <2>1 DEF EndChore, Registers, Unregisters
<1>3. ASSUME NEW x \in left, Ask(t, Get(x)),
             chore' = [chore EXCEPT ![t] = Chore("load", x, left \ {x})]
      PROVE  Goes
  <2>1. Asked(Get(x)).st \in {"lock", "connect"}
    BY DEF Asked
  <2> QED
    BY <1>1, <1>3, <2>1 DEF Ask, Chore
<1>4. EndChore(t) \/ Goes
  BY <1>3 DEF Continue
<1> QED
  BY <1>2, <1>4 DEF Registers, Unregisters

\* A load reads the keys, or a tool.
LEMMA LoadName ==
    ASSUME TypeOK, NEW t \in Thread, LoadListed(t) \/ LoadOne(t),
           NEW x \in Tool, x \in unsure \/ NameOK(x), x \notin unsure'
    PROVE  NameOK(x)'
<1>1. /\ Loads(chore[t]) /\ UNCHANGED disk /\ call[t].st = "done"
      /\ tools \in [Tool -> ToolType] /\ ChoreOK(t) /\ chore[t] \in ChoreType
  BY OneCaller DEF LoadListed, LoadOne, Loads, StoreStays
<1>2. PICK left : Continue(t, left)
  BY LoadLeft
<1>3. /\ \A u \in Thread \ {t} : chore'[u] = chore[u] /\ call'[u] = call[u]
      /\ chore'[t].op \in {"none", "load"} /\ call'[t].st \notin {"fetch", "done"}
      /\ ~Registers(chore'[t], x) /\ ~Unregisters(chore'[t], x)
  BY <1>2, ContinueIs
<1>4. ~Registers(chore[t], x) /\ ~Unregisters(chore[t], x)
  BY <1>1 DEF Registers, Unregisters, Loads
<1>5. CASE tools'[x] = tools[x] /\ NameOK(x)
  BY <1>1, <1>3, <1>4, <1>5, NameStays
<1>6. CASE /\ LoadOne(t) /\ chore[t].tool = x /\ call[t].answer # None
           /\ tools' = [tools EXCEPT ![x] = Info(call[t].answer, FALSE)]
  <2>1. call[t].answer = disk[x]
    BY <1>1, <1>6 DEF LoadOne, NameOK, ChoreKnows
  <2>2. /\ tools'[x] = Info(disk[x], FALSE) /\ tools'[x].description = disk[x]
        /\ tools'[x] # None
    <3>1. call[t].answer \in Description
      <4>1. chore[t].tool # None
        BY <1>6 DEF LoadOne
      <4>2. call[t].req = Get(x)
        BY <1>1, <1>6, <4>1 DEF Loads, ChoreOK
      <4> QED
        BY <1>6, <4>2 DEF TypeOK, ToolTypeOK
    <3> QED
      BY <1>1, <1>6, <2>1, <3>1, InfoIs
  <2>3. \A u \in Thread : ~Unregisters(chore[u], x)
    <3>1. CASE NameOK(x)
      BY <1>1, <3>1 DEF NameOK
    <3>2. CASE x \in unsure
      <4>1. Doing("register", x) \cup Doing("unregister", x) = {}
        BY <1>6, <3>2 DEF LoadOne, Changing
      <4> QED
        BY <4>1, DoingIs
    <3> QED
      BY <3>1, <3>2
  <2>4. \A u \in Thread : ~Unregisters(chore'[u], x)
    BY <1>3, <2>3
  <2>5. \A v, u \in Thread : Registers(chore'[v], x) => (Registers(chore'[u], x) => v = u)
    <3>1. CASE NameOK(x)
      BY <1>3, <3>1 DEF NameOK
    <3>2. CASE x \in unsure
      <4>1. Doing("register", x) \cup Doing("unregister", x) = {}
        BY <1>6, <3>2 DEF LoadOne, Changing
      <4>2. \A u \in Thread : ~Registers(chore[u], x)
        BY <4>1, DoingIs
      <4> QED
        BY <1>3, <4>2
    <3> QED
      BY <3>1, <3>2
  <2>6. ASSUME NEW u \in Thread
        PROVE  ChoreKnows(chore'[u], call'[u], x, tools'[x], disk'[x])
    <3>1. CASE u = t
      BY <1>3, <3>1 DEF ChoreKnows, Loads
    <3>2. CASE u # t /\ x \in unsure
      <4>1. Doing("register", x) \cup Doing("unregister", x) = {} /\ Loading = {t}
        BY <1>6, <3>2 DEF LoadOne, Changing
      <4>2. ~Registers(chore[u], x) /\ ~Unregisters(chore[u], x) /\ ~Loads(chore[u])
        BY <3>2, <4>1, DoingIs
      <4> QED
        BY <1>3, <3>2, <4>2 DEF ChoreKnows
    <3>3. CASE u # t /\ NameOK(x)
      <4>1. ChoreKnows(chore[u], call[u], x, tools[x], disk[x]) /\ ~Unregisters(chore[u], x)
        BY <2>3, <3>3 DEF NameOK
      <4>2. Registers(chore[u], x) => /\ call[u].st = "done" /\ tools[x].description = disk[x]
                                      /\ call[u].req = Put(x, disk[x])
        BY <1>6, <2>1, <4>1 DEF ChoreKnows
      <4> QED
        BY <1>1, <1>3, <2>2, <3>3, <4>1, <4>2 DEF ChoreKnows
    <3> QED
      BY <3>1, <3>2, <3>3
  <2>7. Agrees(tools'[x], disk'[x])
    BY <1>1, <2>2 DEF Agrees
  <2> QED
    BY <2>4, <2>5, <2>6, <2>7 DEF NameOK
<1>7. \/ tools'[x] = tools[x] /\ NameOK(x)
      \/ /\ LoadOne(t) /\ chore[t].tool = x /\ call[t].answer # None
         /\ tools' = [tools EXCEPT ![x] = Info(call[t].answer, FALSE)]
  <2>1. CASE UNCHANGED <<tools, unsure>>
    BY <2>1
  <2>2. CASE /\ LoadOne(t) /\ call[t].answer # None
             /\ tools' = [tools EXCEPT ![chore[t].tool] = Info(call[t].answer, FALSE)]
             /\ unsure' = unsure \ {chore[t].tool} \/ unsure' = unsure
    BY <1>1, <2>2 DEF ChoreType
  <2> QED
    BY <2>1, <2>2 DEF LoadListed, LoadOne
<1> QED
  BY <1>5, <1>6, <1>7

\* A call of the registry ends.
LEMMA EndName ==
    ASSUME TypeOK, NEW t \in Thread, Stored(t) \/ ChoreRaises(t),
           NEW x \in Tool, NameOK(x), x \notin unsure'
    PROVE  NameOK(x)'
<1>1. /\ UNCHANGED <<disk, tools>> /\ EndChore(t)
      /\ DOMAIN chore = Thread /\ DOMAIN call = Thread /\ chore[t] # NoChore
      /\ chore[t].op \in {"none", "register", "unregister", "load"} /\ ChoreOK(t)
  <2>1. chore[t] # NoChore
    <3>1. NoChore.op = "none"
      BY DEF NoChore
    <3> QED
      BY <3>1 DEF Stored, ChoreRaises
  <2> QED
    BY <2>1, OneCaller DEF Stored, ChoreRaises, StoreStays, ChoreType
<1>2. /\ \A u \in Thread \ {t} : chore'[u] = chore[u] /\ call'[u] = call[u]
      /\ chore'[t] = NoChore /\ call'[t] = NoCall /\ NameOK(x)
  BY <1>1 DEF EndChore
<1>3. ~Registers(chore'[t], x) /\ ~Unregisters(chore'[t], x) /\ ~Loads(chore'[t])
  BY <1>2 DEF Registers, Unregisters, Loads, NoChore
<1>4. CASE ~Registers(chore[t], x) /\ ~Unregisters(chore[t], x)
  BY <1>1, <1>2, <1>3, <1>4, NameStays
<1>5. CASE Registers(chore[t], x) \/ Unregisters(chore[t], x)
  <2>1. Stored(t) /\ call[t].st = "done"
    <3>1. chore[t].op # "load" /\ chore[t].tool = x
      BY <1>5 DEF Registers, Unregisters
    <3>2. ~ChoreRaises(t)
      BY <3>1 DEF ChoreRaises
    <3> QED
      BY <3>2 DEF Stored
  <2>2. Agrees(tools[x], disk[x])
    BY <1>2, <1>5, <2>1 DEF NameOK, ChoreKnows, Agrees
  <2>3. ASSUME NEW u \in Thread
        PROVE  ChoreKnows(chore'[u], call'[u], x, tools'[x], disk'[x])
    <3>1. CASE u = t
      BY <1>3, <3>1 DEF ChoreKnows
    <3>2. CASE u # t
      BY <1>1, <1>2, <3>2 DEF NameOK
    <3> QED
      BY <3>1, <3>2
  <2>4. \A v, u \in Thread :
            /\ Registers(chore'[v], x) =>
                  (Registers(chore'[u], x) => v = u) /\ ~Unregisters(chore'[u], x)
            /\ Unregisters(chore'[v], x) => ~Loads(chore'[u])
    <3> SUFFICES ASSUME NEW v \in Thread, NEW u \in Thread
                 PROVE  /\ Registers(chore'[v], x) =>
                              (Registers(chore'[u], x) => v = u) /\ ~Unregisters(chore'[u], x)
                        /\ Unregisters(chore'[v], x) => ~Loads(chore'[u])
      OBVIOUS
    <3>1. CASE v = t \/ u = t
      BY <1>3, <3>1
    <3>2. CASE v # t /\ u # t
      BY <1>2, <3>2 DEF NameOK
    <3> QED
      BY <3>1, <3>2
  <2> QED
    BY <1>1, <2>2, <2>3, <2>4 DEF NameOK
<1> QED
  BY <1>4, <1>5

\* A register or unregister ends that no other call has overlapped: the history
\* is sure of the name again.
LEMMA SureAgain ==
    ASSUME TypeOK, AloneOK, NEW t \in Thread, Stored(t) \/ ChoreRaises(t),
           NEW x \in Tool, x \in unsure, x \notin unsure'
    PROVE  NameOK(x)'
<1>1. /\ Stored(t) /\ t \in alone /\ x = chore[t].tool /\ call[t].st = "done"
      /\ UNCHANGED <<disk, tools>> /\ EndChore(t)
  BY DEF Stored, ChoreRaises, StoreStays
<1>2. PICK y \in Tool : AloneOn(t, y)
  BY <1>1 DEF AloneOK
<1>3. AloneOn(t, x)
  BY <1>1, <1>2 DEF AloneOn, Registers, Unregisters
<1>4. /\ \A u \in Thread \ {t} : chore'[u] = chore[u]
      /\ chore'[t] = NoChore
  BY <1>1, OneCaller DEF EndChore
<1>5. \A u \in Thread : /\ ~Registers(chore'[u], x) /\ ~Unregisters(chore'[u], x)
                        /\ ~Loads(chore'[u])
  <2> SUFFICES ASSUME NEW u \in Thread
               PROVE  /\ ~Registers(chore'[u], x) /\ ~Unregisters(chore'[u], x)
                      /\ ~Loads(chore'[u])
    OBVIOUS
  <2>1. CASE u = t
    BY <1>4, <2>1 DEF Registers, Unregisters, Loads, NoChore
  <2>2. CASE u # t
    BY <1>3, <1>4, <2>2 DEF AloneOn
  <2> QED
    BY <2>1, <2>2
<1>6. Agrees(tools'[x], disk'[x])
  BY <1>1, <1>3 DEF AloneOn
<1>7. \A u \in Thread : ChoreKnows(chore'[u], call'[u], x, tools'[x], disk'[x])
  BY <1>5 DEF ChoreKnows
<1> QED
  BY <1>5, <1>6, <1>7 DEF NameOK

\* A caller that is not the registry.
LEMMA OtherName ==
    ASSUME TypeOK, NEW t \in Thread, CallerStep(t), UNCHANGED <<tools, chore, unsure, alone>>,
           chore[t] = NoChore, NEW x \in Tool, NameOK(x)
    PROVE  NameOK(x)'
<1>1. /\ UNCHANGED disk /\ call' = [call EXCEPT ![t] = call'[t]] /\ DOMAIN call = Thread
  BY CallerKeepsOthers, OneCaller
<1>2. \A u \in Thread \ {t} : chore'[u] = chore[u] /\ call'[u] = call[u]
  BY <1>1
<1>3. /\ ~Registers(chore[t], x) /\ ~Unregisters(chore[t], x) /\ ~Loads(chore[t])
      /\ chore'[t] = chore[t]
  BY DEF Registers, Unregisters, Loads, NoChore
<1> QED
  BY <1>1, <1>2, <1>3, NameStays

\* Every caller's step keeps the invariant of the registry.
LEMMA CallerNames ==
    ASSUME TypeOK, AloneOK, RegistryOK, NEW t \in Thread, CallerStep(t),
           NEW x \in Tool, x \notin unsure'
    PROVE  NameOK(x)'
<1>0. x \in unsure \/ NameOK(x)
  BY DEF RegistryOK
<1>1. CASE CallRegistry(t)
  <2>1. x \notin unsure
    BY <1>1 DEF CallRegistry, Register, Unregister, BeginLoad
  <2>2. SureOf(x)
    BY <1>0, <2>1 DEF SureOf
  <2> QED
    BY <1>1, <2>2, RegistryCalls, RegisterName, UnregisterName, BeginLoadName, StorelessName
<1>2. CASE ToolStep(t)
  BY <1>0, <1>2, LoadName, EndName, SureAgain DEF ToolStep
<1>3. CASE CallContinuity(t) \/ CallClose(t) \/ CloseReturns(t)
           \/ (ContinuityStep(t) /\ UNCHANGED <<toolVars, calls, restarts>>)
  <2>1. UNCHANGED <<tools, chore, unsure, alone>>
    BY <1>3 DEF CallContinuity, CallClose, CloseReturns, toolVars
  <2>2. Idle(t) \/ call[t].req = Close \/ task[t] # NoTask
    BY <1>3 DEF CallContinuity, BeginChange, BeginDelete, BeginListUsers, CallClose,
       CloseReturns, ContinuityStep, SetAndSave, LearnAndSave, LearnFails, EndOfTask, NoTask
  <2>3. chore[t] = NoChore
    BY <2>2, OneCaller
  <2> QED
    BY <1>0, <2>1, <2>3, OtherName
<1>4. CallRegistry(t) \/ ToolStep(t)
      \/ (CallContinuity(t) \/ CallClose(t) \/ CloseReturns(t)
           \/ (ContinuityStep(t) /\ UNCHANGED <<toolVars, calls, restarts>>))
  BY SMT DEF CallerStep
<1> QED
  BY <1>1, <1>2, <1>3, <1>4, Zenon

\* A step of others leaves a call alone that is alone.
LEMMA AloneStays ==
    ASSUME NEW t \in Thread, NEW x \in Tool, AloneOn(t, x),
           chore'[t] = chore[t], call'[t] = call[t],
           tools'[x] = tools[x], disk'[x] = disk[x],
           \A u \in Thread \ {t} : \/ chore'[u] = chore[u]
                                    \/ /\ ~Registers(chore'[u], x) /\ ~Unregisters(chore'[u], x)
                                       /\ ~Loads(chore'[u])
    PROVE  AloneOn(t, x)'
<1>1. \A u \in Thread \ {t} : /\ ~Registers(chore'[u], x) /\ ~Unregisters(chore'[u], x)
                              /\ ~Loads(chore'[u])
  BY DEF AloneOn
<1>2. ~Loads(chore'[t])
  BY DEF AloneOn
<1> QED
  BY <1>1, <1>2 DEF AloneOn

\* Its own steps, and those of other calls of the store, do too.
LEMMA AdvancesAlone ==
    ASSUME TypeOK, NEW u \in Thread, Advances(u), UNCHANGED <<task, tools, chore, unsure, alone>>,
           NEW t \in Thread, NEW x \in Tool, AloneOn(t, x)
    PROVE  AloneOn(t, x)'
<1>0. /\ x \in Key /\ disk \in [Key -> Value \cup {None}]
      /\ tools'[x] = tools[x] /\ UNCHANGED chore
  BY ToolAssumption DEF TypeOK, SqliteTypeOK
<1>1. CASE u # t
  <2>1. disk'[x] = disk[x]
    <3>1. CASE UNCHANGED disk
      BY <3>1
    <3>2. CASE disk' # disk
      <4>1. WritesProfile(u) \/ WritesTool(u)
        BY <3>2, WriteIs DEF Advances
      <4>2. CASE WritesProfile(u)
        BY <1>0, <4>2, StoreAssumption DEF WritesProfile
      <4>3. CASE WritesTool(u)
        <5>1. chore[u].tool # x
          BY <1>1, <4>3 DEF WritesTool, AloneOn, Registers, Unregisters
        <5> QED
          BY <1>0, <4>3, <5>1 DEF WritesTool
      <4> QED
        BY <4>1, <4>2, <4>3
    <3> QED
      BY <3>1, <3>2
  <2>2. call'[t] = call[t]
    BY <1>1 DEF Advances
  <2> QED
    BY <1>0, <2>1, <2>2, AloneStays
<1>2. CASE u = t
  <2>1. call'[t].req = call[t].req
    BY <1>2 DEF Advances
  <2>2. ASSUME call'[t].st = "done"  PROVE Agrees(tools[x], disk'[x])
    <3>1. CASE Registers(chore[t], x)
      <4>1. call[t].req = Put(x, tools[x].description) /\ tools[x] # None
        BY <3>1 DEF AloneOn
      <4>2. call[t].req.op = "put" /\ call[t].req.key = x
            /\ call[t].req.value = tools[x].description
        BY <4>1 DEF Put
      <4>3. Wrote(call[t].req)
        BY <1>2, <2>2, <4>2 DEF Advances, IsWrite
      <4>4. call[t].req \notin [op : {"delete"}, key : Key]
        BY <4>2
      <4>5. disk' = [disk EXCEPT ![x] = tools[x].description]
        BY <4>2, <4>3, <4>4 DEF Wrote
      <4> QED
        BY <1>0, <4>1, <4>5 DEF Agrees
    <3>2. CASE Unregisters(chore[t], x)
      <4>1. call[t].req = Delete(x)
        BY <3>2, OneCaller DEF ChoreOK, Unregisters
      <4>2. call[t].req.op = "delete" /\ call[t].req.key = x
        BY <4>1 DEF Delete
      <4>3. Wrote(call[t].req)
        BY <1>2, <2>2, <4>2 DEF Advances, IsWrite
      <4>4. call[t].req \notin [op : {"put"}, key : Key, value : Value]
        BY <4>2
      <4>5. disk' = [disk EXCEPT ![x] = None]
        BY <4>2, <4>3, <4>4 DEF Wrote
      <4> QED
        BY <1>0, <3>2, <4>5 DEF AloneOn, Agrees
    <3> QED
      BY <3>1, <3>2 DEF AloneOn
  <2> QED
    BY <1>0, <2>1, <2>2 DEF AloneOn
<1> QED
  BY <1>1, <1>2

\* A register or unregister with the store begins: it is alone if no other call
\* is under way, and it ends that of the others on its name.
LEMMA BeginAlone ==
    ASSUME TypeOK, AloneOK, NEW u \in Thread, NEW y \in Tool,
           \/ \E d \in Description : Register(u, y, d, TRUE)
           \/ Unregister(u, y, TRUE)
    PROVE  AloneOK'
<1>1. PICK op \in {"register", "unregister"}, info \in ToolType, req \in Promise!Request :
          /\ tools' = [tools EXCEPT ![y] = info] /\ Idle(u)
          /\ ThenStores(u, op, y, req, TRUE)
          /\ op = "register" => info # None /\ req = Put(y, info.description)
          /\ op = "unregister" => info = None
  <2>1. ASSUME NEW d \in Description, Register(u, y, d, TRUE)
        PROVE  /\ tools' = [tools EXCEPT ![y] = Info(d, TRUE)] /\ Idle(u)
               /\ Put(y, d) \in Promise!Request
               /\ ThenStores(u, "register", y, Put(y, d), TRUE)
               /\ Info(d, TRUE) \in ToolType /\ Info(d, TRUE) # None
               /\ Info(d, TRUE).description = d
    BY <2>1, InfoIs, RequestTypes, ToolAssumption DEF Register, Idle, ToolType, Info
  <2>2. ASSUME Unregister(u, y, TRUE)
        PROVE  /\ tools' = [tools EXCEPT ![y] = None] /\ Idle(u)
               /\ ThenStores(u, "unregister", y, Delete(y), TRUE)
               /\ None \in ToolType /\ Delete(y) \in Promise!Request
    BY <2>2, RequestTypes, ToolAssumption DEF Unregister, Idle, ToolType
  <2> QED
    BY <2>1, <2>2
<1>2. /\ chore[u] = NoChore /\ DOMAIN chore = Thread /\ DOMAIN call = Thread
      /\ tools \in [Tool -> ToolType]
  BY <1>1, OneCaller
<1>3. /\ chore' = [chore EXCEPT ![u] = Chore(op, y, {})]
      /\ call' = [call EXCEPT ![u] = Asked(req)] /\ UNCHANGED disk
      /\ alone' = (alone \ Changing(y)) \cup (IF Changing(y) \cup Loading = {} THEN {u} ELSE {})
  BY <1>1 DEF ThenStores, Ask, StoreStays
<1>4. /\ chore'[u] = Chore(op, y, {}) /\ call'[u] = Asked(req)
      /\ \A v \in Thread \ {u} : chore'[v] = chore[v] /\ call'[v] = call[v]
  BY <1>2, <1>3
<1>5. Asked(req).st # "done" /\ Asked(req).req = req
  BY DEF Asked
<1>6. /\ ~Loads(chore'[u]) /\ \A x : Registers(chore'[u], x) => x = y /\ op = "register"
      /\ \A x : Unregisters(chore'[u], x) => x = y /\ op = "unregister"
      /\ Registers(chore'[u], y) \/ Unregisters(chore'[u], y)
  BY <1>4 DEF Chore, Loads, Registers, Unregisters
<1>7. ASSUME Changing(y) \cup Loading = {}  PROVE AloneOn(u, y)'
  <2>1. Changing(y) = {} /\ Loading = {}
    BY <1>7
  <2>2. \A v \in Thread : ~Registers(chore[v], y) /\ ~Unregisters(chore[v], y) /\ ~Loads(chore[v])
    BY <2>1, DoingIs
  <2>3. tools'[y] = info
    BY <1>1, <1>2
  <2> QED
    BY <1>1, <1>4, <1>5, <1>6, <2>2, <2>3 DEF AloneOn
<1>8. ASSUME NEW t \in alone, t \notin Changing(y)
      PROVE  \E x \in Tool : AloneOn(t, x)'
  <2>1. PICK x \in Tool : AloneOn(t, x)
    BY <1>8 DEF AloneOK
  <2>2. t \in Thread
    BY DEF TypeOK, ToolTypeOK
  <2>3. x # y /\ t # u
    BY <1>2, <1>8, <2>1, <2>2 DEF AloneOn, Registers, Unregisters, Changing, Doing, NoChore
  <2>4. tools'[x] = tools[x] /\ disk'[x] = disk[x]
    BY <1>1, <1>2, <1>3, <2>3
  <2>5. \A v \in Thread \ {t} : \/ chore'[v] = chore[v]
                                 \/ /\ ~Registers(chore'[v], x) /\ ~Unregisters(chore'[v], x)
                                    /\ ~Loads(chore'[v])
    BY <1>4, <1>6, <2>3
  <2>6. chore'[t] = chore[t] /\ call'[t] = call[t]
    BY <1>4, <2>2, <2>3
  <2>7. AloneOn(t, x)'
    BY <2>1, <2>2, <2>4, <2>5, <2>6, AloneStays
  <2> QED
    BY <2>7
<1>9. ASSUME NEW t \in alone'  PROVE \E x \in Tool : AloneOn(t, x)'
  <2>1. \/ t \in alone /\ t \notin Changing(y)
        \/ t = u /\ Changing(y) \cup Loading = {}
    BY <1>3, <1>9
  <2> QED
    BY <1>7, <1>8, <2>1
<1> QED
  BY <1>9 DEF AloneOK

\* The other steps of the callers keep the calls that are alone, or end them.
LEMMA CallerAlone ==
    ASSUME TypeOK, AloneOK, NEW u \in Thread, CallerStep(u)
    PROVE  AloneOK'
<1>1. CASE \E y \in Tool, d \in Description : Register(u, y, d, TRUE)
  BY <1>1, BeginAlone
<1>2. CASE \E y \in Tool : Unregister(u, y, TRUE)
  BY <1>2, BeginAlone
<1>3. CASE BeginLoad(u)
  BY <1>3 DEF BeginLoad, AloneOK
<1>4. CASE LoadListed(u) \/ LoadOne(u)
  <2>1. Loads(chore[u]) /\ alone' = alone
    BY <1>4 DEF LoadListed, LoadOne, Loads
  <2>2. alone = {}
    BY <2>1 DEF AloneOK, AloneOn
  <2> QED
    BY <2>1, <2>2 DEF AloneOK
<1>5. CASE Storeless(u)
  <2>1. PICK y \in Tool :
            /\ \/ tools' = [tools EXCEPT ![y] = None]
               \/ \E d \in Description : tools' = [tools EXCEPT ![y] = Info(d, TRUE)]
            /\ alone' = alone \ Changing(y)
    BY <1>5 DEF Storeless
  <2>2. ASSUME NEW t \in alone'  PROVE \E x \in Tool : AloneOn(t, x)'
    <3>1. t \in Thread /\ t \in alone /\ t \notin Changing(y)
      BY <2>1, <2>2 DEF TypeOK, ToolTypeOK
    <3>2. PICK x \in Tool : AloneOn(t, x)
      BY <3>1 DEF AloneOK
    <3>3. x # y
      BY <3>1, <3>2 DEF AloneOn, Registers, Unregisters, Changing, Doing
    <3>4. tools'[x] = tools[x]
      BY <2>1, <3>3 DEF TypeOK, ToolTypeOK
    <3>5. AloneOn(t, x)'
      BY <1>5, <3>1, <3>2, <3>4, AloneStays DEF Storeless
    <3> QED
      BY <3>5
  <2> QED
    BY <2>2 DEF AloneOK
<1>6. CASE Stored(u) \/ ChoreRaises(u)
  <2>1. /\ alone' = alone \ {u} /\ UNCHANGED <<disk, tools>> /\ EndChore(u)
        /\ DOMAIN chore = Thread /\ DOMAIN call = Thread
    BY <1>6, OneCaller DEF Stored, ChoreRaises, StoreStays
  <2>2. /\ chore'[u] = NoChore
        /\ \A v \in Thread \ {u} : chore'[v] = chore[v] /\ call'[v] = call[v]
    BY <2>1 DEF EndChore
  <2>3. ASSUME NEW t \in alone'  PROVE \E x \in Tool : AloneOn(t, x)'
    <3>1. t \in Thread /\ t \in alone /\ t # u
      BY <2>1, <2>3 DEF TypeOK, ToolTypeOK
    <3>2. PICK x \in Tool : AloneOn(t, x)
      BY <3>1 DEF AloneOK
    <3>3. ~Registers(chore'[u], x) /\ ~Unregisters(chore'[u], x) /\ ~Loads(chore'[u])
      BY <2>2 DEF Registers, Unregisters, Loads, NoChore
    <3>4. AloneOn(t, x)'
      BY <2>1, <2>2, <3>1, <3>2, <3>3, AloneStays
    <3> QED
      BY <3>4
  <2> QED
    BY <2>3 DEF AloneOK
<1>7. CASE CallContinuity(u) \/ CallClose(u) \/ CloseReturns(u)
           \/ (ContinuityStep(u) /\ UNCHANGED <<toolVars, calls, restarts>>)
  <2>1. UNCHANGED <<tools, chore, unsure, alone>>
    BY <1>7 DEF CallContinuity, CallClose, CloseReturns, toolVars
  <2>2. Idle(u) \/ call[u].req = Close \/ task[u] # NoTask
    BY <1>7 DEF CallContinuity, BeginChange, BeginDelete, BeginListUsers, CallClose,
       CloseReturns, ContinuityStep, SetAndSave, LearnAndSave, LearnFails, EndOfTask, NoTask
  <2>3. chore[u] = NoChore
    BY <2>2, OneCaller
  <2>4. UNCHANGED disk /\ \A v \in Thread \ {u} : call'[v] = call[v]
    <3>1. call' = [call EXCEPT ![u] = call'[u]] /\ DOMAIN call = Thread /\ UNCHANGED disk
      BY CallerKeepsOthers, OneCaller
    <3> QED
      BY <3>1
  <2>5. ASSUME NEW t \in alone'  PROVE \E x \in Tool : AloneOn(t, x)'
    <3>1. t \in Thread /\ t \in alone
      BY <2>1, <2>5 DEF TypeOK, ToolTypeOK
    <3>2. PICK x \in Tool : AloneOn(t, x)
      BY <3>1 DEF AloneOK
    <3>3. t # u
      BY <2>3, <3>2 DEF AloneOn, Registers, Unregisters, NoChore
    <3>4. AloneOn(t, x)'
      BY <2>1, <2>4, <3>1, <3>2, <3>3, AloneStays
    <3> QED
      BY <3>4
  <2> QED
    BY <2>5 DEF AloneOK
<1>8. CallRegistry(u) \/ ToolStep(u)
      \/ (CallContinuity(u) \/ CallClose(u) \/ CloseReturns(u)
           \/ (ContinuityStep(u) /\ UNCHANGED <<toolVars, calls, restarts>>))
  BY SMT DEF CallerStep
<1>9. CallRegistry(u) => \/ \E x \in Tool, d \in Description : Register(u, x, d, TRUE)
                         \/ \E x \in Tool : Unregister(u, x, TRUE)
                         \/ BeginLoad(u)
                         \/ Storeless(u)
  BY RegistryCalls
<1> QED
  BY <1>1, <1>2, <1>3, <1>4, <1>5, <1>6, <1>7, <1>8, <1>9 DEF ToolStep

\* The calls that the history has for alone are.
LEMMA AlonesAreAlone == Spec => []AloneOK
<1>1. Init => AloneOK
  BY DEF Init, ToolInit, AloneOK
<1>2. ASSUME TypeOK, AloneOK, [Next]_vars  PROVE AloneOK'
  <2>1. ASSUME NEW u \in Thread,
               StoreStep(u) /\ UNCHANGED <<task, toolVars, calls, restarts>>
        PROVE  AloneOK'
    <3>1. Advances(u) /\ UNCHANGED <<task, tools, chore, unsure, alone>>
      BY <1>2, <2>1, StoreStepAdvances DEF TypeOK, toolVars
    <3>2. ASSUME NEW t \in alone'  PROVE \E x \in Tool : AloneOn(t, x)'
      <4>1. t \in Thread /\ t \in alone
        BY <1>2, <3>1, <3>2 DEF TypeOK, ToolTypeOK
      <4>2. PICK x \in Tool : AloneOn(t, x)
        BY <1>2, <4>1 DEF AloneOK
      <4>3. AloneOn(t, x)'
        BY <1>2, <3>1, <4>1, <4>2, AdvancesAlone
      <4> QED
        BY <4>3
    <3> QED
      BY <3>2 DEF AloneOK
  <2>2. CASE Restart
    BY <2>2 DEF Restart, ToolReopen, AloneOK
  <2>3. CASE UNCHANGED vars
    BY <1>2, <2>3 DEF vars, sqliteVars, toolVars, AloneOK, AloneOn
  <2> QED
    BY <1>2, <2>1, <2>2, <2>3, NextIs, CallerAlone
<1> QED
  BY <1>1, <1>2, TypeCorrect, PTL DEF Spec

\* The names of the dict are the names of the store, except where the history
\* cannot be sure: between the calls that change a name, a tool is registered
\* exactly if it is stored, with the same description.
THEOREM RegistryAgrees == Spec => []RegistryIsStored
<1>1. Init => RegistryOK
  <2> SUFFICES ASSUME Init, NEW x \in Tool, x \notin unsure  PROVE NameOK(x)
    BY DEF RegistryOK
  <2>1. /\ chore = [t \in Thread |-> NoChore] /\ tools[x] = None /\ disk[x] = None
    BY DEF Init, ToolInit
  <2>2. \A t \in Thread : /\ ~Registers(chore[t], x) /\ ~Unregisters(chore[t], x)
                          /\ ~Loads(chore[t])
    BY <2>1 DEF Registers, Unregisters, Loads, NoChore
  <2> QED
    BY <2>1, <2>2 DEF NameOK, ChoreKnows, Agrees
<1>2. ASSUME TypeOK, AloneOK, RegistryOK, [Next]_vars  PROVE RegistryOK'
  <2> SUFFICES ASSUME NEW x \in Tool, x \notin unsure'  PROVE NameOK(x)'
    BY DEF RegistryOK
  <2>1. ASSUME NEW t \in Thread,
               StoreStep(t) /\ UNCHANGED <<task, toolVars, calls, restarts>>
        PROVE  NameOK(x)'
    <3>1. Advances(t) /\ UNCHANGED <<task, tools, chore, unsure, alone>>
      BY <1>2, <2>1, StoreStepAdvances DEF TypeOK, toolVars
    <3>2. NameOK(x)
      BY <1>2, <3>1 DEF RegistryOK
    <3> QED
      BY <1>2, <3>1, <3>2, AdvancesName
  <2>2. CASE Restart
    <3>1. /\ chore' = [t \in Thread |-> NoChore] /\ tools'[x] = None /\ disk'[x] = None
      BY <2>2 DEF Restart, ToolReopen, Reopen
    <3>2. \A t \in Thread : /\ ~Registers(chore'[t], x) /\ ~Unregisters(chore'[t], x)
                            /\ ~Loads(chore'[t])
      BY <3>1 DEF Registers, Unregisters, Loads, NoChore
    <3> QED
      BY <3>1, <3>2 DEF NameOK, ChoreKnows, Agrees
  <2>3. CASE UNCHANGED vars
    <3>1. UNCHANGED <<disk, call, tools, chore, unsure, alone>>
      BY <2>3 DEF vars, sqliteVars, toolVars
    <3>2. NameOK(x)
      BY <1>2, <3>1 DEF RegistryOK
    <3> QED
      BY <3>1, <3>2 DEF NameOK
  <2> QED
    BY <1>2, <2>1, <2>2, <2>3, NextIs, CallerNames
<1>3. RegistryOK => RegistryIsStored
  <2> SUFFICES ASSUME NEW x \in Tool, NameOK(x), Changing(x) = {}
               PROVE  Agrees(tools[x], disk[x])
    BY DEF RegistryOK, RegistryIsStored, Agrees
  <2>1. \A t \in Thread : ~Registers(chore[t], x) /\ ~Unregisters(chore[t], x)
    BY DoingIs
  <2> QED
    BY <2>1 DEF NameOK
<1> QED
  BY <1>1, <1>2, <1>3, TypeCorrect, AlonesAreAlone, PTL DEF Spec
=============================================================================
