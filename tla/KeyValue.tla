------------------------------ MODULE KeyValue ------------------------------
(***************************************************************************)
(* What a Storage promises the threads that call it.  A call takes effect  *)
(* at one moment between its begin and its end; a call that raises has     *)
(* changed nothing; a crash ends the calls that run and loses nothing that *)
(* had taken effect.                                                       *)
(*                                                                         *)
(* InMemoryStorage is this, one dict operation each, without the raising,  *)
(* the crash and list_keys.                                                *)
(***************************************************************************)
CONSTANTS
    Thread,
    Key,
    Value,
    None        \* neither a key nor a value

VARIABLES
    kv,         \* the value under each key, or None
    call        \* the call each thread makes: how far it is, what it was
                \* asked, what it answers

Request ==
    [op : {"put"}, key : Key, value : Value]
        \cup [op : {"get", "delete"}, key : Key]
        \cup [op : {"list"}, keys : SUBSET Key]

NoCall == [st |-> "idle", req |-> None, answer |-> None]

TypeOK ==
    /\ kv \in [Key -> Value \cup {None}]
    /\ \A t \in Thread :
          /\ call[t].st \in {"idle", "asked", "done", "raised"}
          /\ call[t].st = "idle" => call[t] = NoCall
          /\ call[t].st # "idle" => call[t].req \in Request

\* A file may hold rows from before.
Init ==
    /\ kv \in [Key -> Value \cup {None}]
    /\ call = [t \in Thread |-> NoCall]

\* What a call leaves in the store ...
Effect(req, store) ==
    CASE req.op = "put" -> [store EXCEPT ![req.key] = req.value]
      [] req.op = "delete" -> [store EXCEPT ![req.key] = None]
      [] OTHER -> store

\* ... and what it answers.  list_keys takes a prefix, which stands for the
\* keys that have it; the order of the answer is left out.
Answer(req, store) ==
    CASE req.op = "get" -> store[req.key]
      [] req.op = "list" -> {k \in req.keys : store[k] # None}
      [] OTHER -> None

IsRead(req) == req.op \in {"get", "list"}

\* A thread makes its next call, any there is, ...
Ask(t) ==
    /\ call[t].st # "asked"
    /\ call'[t] \in [st : {"asked"}, req : Request, answer : {None}]
    /\ call' = [call EXCEPT ![t] = call'[t]]
    /\ UNCHANGED kv

\* ... which takes effect ...
Apply(t) ==
    /\ call[t].st = "asked"
    /\ kv' = Effect(call[t].req, kv)
    /\ call' = [call EXCEPT ![t] = [st |-> "done", req |-> @.req,
                                    answer |-> Answer(@.req, kv)]]

\* ... or raises, which a read may do although it had its answer; ...
Raise(t) ==
    /\ \/ call[t].st = "asked"
       \/ call[t].st = "done" /\ IsRead(call[t].req)
    /\ call' = [call EXCEPT ![t] = [st |-> "raised", req |-> @.req, answer |-> None]]
    /\ UNCHANGED kv

\* ... and goes on with the answer.
Leave(t) ==
    /\ call[t].st \in {"done", "raised"}
    /\ call' = [call EXCEPT ![t] = NoCall]
    /\ UNCHANGED kv

Crash ==
    /\ call' = [t \in Thread |-> NoCall]
    /\ UNCHANGED kv

Next ==
    \/ \E t \in Thread :
          Ask(t) \/ Apply(t) \/ Raise(t) \/ Leave(t)
    \/ Crash

Spec == Init /\ [][Next]_<<kv, call>>
=============================================================================
