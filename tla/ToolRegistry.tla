---------------------------- MODULE ToolRegistry ----------------------------
(***************************************************************************)
(* The tool registry of Harness: a dict under a lock, and a copy of each   *)
(* tool in a store.  register, unregister and load_from_store change the   *)
(* dict and call the store one after the other, and only the dict is under *)
(* the lock.                                                               *)
(*                                                                         *)
(* A tool is its description and whether it has a handler; the store keeps *)
(* the description.                                                        *)
(***************************************************************************)
EXTENDS Sqlite

CONSTANTS
    Tool,       \* a name is also the key of the tool
    Description

ASSUME ToolAssumption ==
    /\ Tool \subseteq Key /\ Description \subseteq Value
    /\ None \notin [description : Description, bound : BOOLEAN]

VARIABLES
    tools,      \* ToolRegistry._tools
    chore,      \* the call of the registry that each thread is in
    unsure,     \* history: the names whose copy may differ, see RegistryIsStored
    alone       \* history: the calls that no other has overlapped, see Stored

toolVars == <<tools, chore, unsure, alone>>

NoChore == [op |-> "none", tool |-> None, left |-> {}]
Chore(op, x, left) == [op |-> op, tool |-> x, left |-> left]
Info(d, bound) == [description |-> d, bound |-> bound]
StoreStays == UNCHANGED <<disk, cache, listed, open, refused, strict, closing, writer>>
Doing(op, x) == {t \in Thread : chore[t].op = op /\ chore[t].tool = x}
Changing(x) == Doing("register", x) \cup Doing("unregister", x)
Loading == {t \in Thread : chore[t].op = "load"}

\* What register and unregister do after the lock: with a store its call, and
\* without one nothing.  Either way the calls that change the name overlap.
ThenStores(t, op, x, req, stored) ==
    /\ IF stored
       THEN /\ chore' = [chore EXCEPT ![t] = Chore(op, x, {})]
            /\ Ask(t, req)
            /\ alone' = (alone \ Changing(x))
                        \cup (IF Changing(x) \cup Loading = {} THEN {t} ELSE {})
       ELSE /\ alone' = alone \ Changing(x)
            /\ UNCHANGED <<chore, call>>
    /\ StoreStays

\* A slip: the lock is given back between the look and the insertion.
Register_Unlocked(t, x, d, stored) ==
    /\ call[t].st = "idle"
    /\ tools[x] = None \/ Doing("register", x) # {}
    /\ tools' = [tools EXCEPT ![x] = Info(d, TRUE)]
    /\ ThenStores(t, "register", x, Put(x, d), stored)
    /\ unsure' = IF stored /\ Doing("unregister", x) = {}
                 THEN unsure ELSE unsure \cup {x}

\* register inserts under the lock, unless the name is taken (ValueError), and
\* then puts, if it is given a store.
Register(t, x, d, stored) ==
    /\ call[t].st = "idle"
    /\ tools[x] = None
    /\ tools' = [tools EXCEPT ![x] = Info(d, TRUE)]
    /\ ThenStores(t, "register", x, Put(x, d), stored)
    /\ unsure' = IF stored /\ Doing("unregister", x) = {}
                 THEN unsure ELSE unsure \cup {x}

\* unregister pops under the lock and then deletes, if it is given a store,
\* whether there was a tool or not.
Unregister(t, x, stored) ==
    /\ call[t].st = "idle"
    /\ tools' = [tools EXCEPT ![x] = None]
    /\ ThenStores(t, "unregister", x, Delete(x), stored)
    /\ unsure' = IF \/ stored /\ Doing("register", x) \cup Loading = {}
                    \/ ~stored /\ tools[x] = None
                 THEN unsure ELSE unsure \cup {x}

\* load_from_store lists the keys, ...
BeginLoad(t) ==
    /\ call[t].st = "idle"
    /\ chore' = [chore EXCEPT ![t] = Chore("load", None, {})]
    /\ Ask(t, List(Tool))
    /\ unsure' = unsure \cup {x \in Tool : Doing("unregister", x) # {}}
    /\ alone' = {}
    /\ StoreStays
    /\ UNCHANGED tools

EndChore(t) ==
    /\ chore' = [chore EXCEPT ![t] = NoChore]
    /\ call' = [call EXCEPT ![t] = NoCall]

\* (the keys that are left, one after the other, in some order)
Continue(t, left) ==
    IF left = {}
    THEN EndChore(t)
    ELSE \E x \in left :
            /\ chore' = [chore EXCEPT ![t] = Chore("load", x, left \ {x})]
            /\ Ask(t, Get(x))

LoadListed(t) ==
    /\ chore[t].op = "load" /\ chore[t].tool = None /\ call[t].st = "done"
    /\ Continue(t, call[t].answer)
    /\ StoreStays
    /\ UNCHANGED <<tools, unsure, alone>>

\* ... and gets them one by one; what it finds replaces the tool of that name,
\* without a handler.  (The history is sure of the name again if no other call
\* is under way that knows what it was before.)
LoadOne(t) ==
    LET x == chore[t].tool IN
    /\ chore[t].op = "load" /\ x # None /\ call[t].st = "done"
    /\ IF call[t].answer = None
       THEN UNCHANGED <<tools, unsure>>
       ELSE /\ tools' = [tools EXCEPT ![x] = Info(call[t].answer, FALSE)]
            /\ unsure' = IF disk[x] = call[t].answer /\ Loading = {t}
                            /\ Changing(x) = {}
                         THEN unsure \ {x} ELSE unsure
    /\ Continue(t, chore[t].left)
    /\ StoreStays
    /\ UNCHANGED alone

\* register and unregister end after their call of the store.  (The history is
\* sure of the name again if nothing has overlapped the call.)
Stored(t) ==
    /\ chore[t].op \in {"register", "unregister"} /\ call[t].st = "done"
    /\ EndChore(t)
    /\ unsure' = IF t \in alone THEN unsure \ {chore[t].tool} ELSE unsure
    /\ alone' = alone \ {t}
    /\ StoreStays
    /\ UNCHANGED tools

\* What the store raises leaves the registry's method at once.
ChoreRaises(t) ==
    /\ chore[t] # NoChore /\ call[t].st = "raised"
    /\ EndChore(t)
    /\ unsure' = IF chore[t].op = "load" THEN unsure ELSE unsure \cup {chore[t].tool}
    /\ alone' = alone \ {t}
    /\ StoreStays
    /\ UNCHANGED tools

ToolStep(t) == LoadListed(t) \/ LoadOne(t) \/ Stored(t) \/ ChoreRaises(t)

ToolInit ==
    /\ tools = [x \in Tool |-> None]
    /\ chore = [t \in Thread |-> NoChore]
    /\ unsure = {x \in Tool : disk[x] # None}
    /\ alone = {}

\* After a restart the dict is empty and the store is not.
ToolReopen ==
    /\ tools' = [x \in Tool |-> None]
    /\ chore' = [t \in Thread |-> NoChore]
    /\ unsure' = {x \in Tool : disk[x] # None}
    /\ alone' = {}

------------------------------------------------------------------------------
(* Properties                                                              *)

\* What the store is asked at each place of a call.
ChoreOK(t) ==
    LET k == chore[t] IN
    /\ k # NoChore => call[t].st # "idle"
    /\ k.op = "none" => k = NoChore
    /\ k.op = "register" => /\ k.tool \in Tool
                            /\ \E d \in Description : call[t].req = Put(k.tool, d)
    /\ k.op = "unregister" => k.tool \in Tool /\ call[t].req = Delete(k.tool)
    /\ k.op = "load" /\ k.tool = None => call[t].req = List(Tool)
    /\ k.op = "load" /\ k.tool # None => call[t].req = Get(k.tool)

\* The types, and that the store has descriptions of tools.
ToolTypeOK ==
    /\ tools \in [Tool -> {None} \cup [description : Description, bound : BOOLEAN]]
    /\ unsure \subseteq Tool /\ alone \subseteq Thread
    /\ chore \in [Thread -> [op : {"none", "register", "unregister", "load"},
                             tool : Tool \cup {None}, left : SUBSET Tool]]
    /\ \A t \in Thread : ChoreOK(t)
    /\ \A x \in Tool : disk[x] \in Description \cup {None}
    /\ \A t \in Thread, x \in Tool :
          call[t].req = Get(x) => call[t].answer \in Description \cup {None}

\* When no register or unregister of a name is under way, the name is registered
\* exactly if it is stored, with the same description.  The exceptions are a name
\* that the file held when the process started, that was registered or
\* unregistered without a store, for which the store raised, or whose unregister
\* another call overlapped; and they last until a load_from_store has read the
\* name, or a register or unregister with the store has ended, that no other call
\* overlapped.
RegistryIsStored ==
    \A x \in Tool :
        x \in unsure \/ Changing(x) # {}
        \/ IF tools[x] = None THEN disk[x] = None
                              ELSE disk[x] = tools[x].description
=============================================================================
