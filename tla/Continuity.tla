----------------------------- MODULE Continuity -----------------------------
(***************************************************************************)
(* Continuity: load, change and save of user profiles.  The facade has no  *)
(* state and no lock: update and autolearn are a get, some work (a call of *)
(* a language model, for autolearn) and a put, and other threads write the *)
(* same profile in between.                                                *)
(*                                                                         *)
(* A field is its value and its confidence in tenths; source, timestamps   *)
(* and metadata are left out.                                              *)
(***************************************************************************)
EXTENDS Sqlite

CONSTANTS
    User,       \* a user is also the key of the profile
    Field,
    Fact,       \* the values of fields
    Confidence, \* in tenths
    UpdateConf, \* those that update is given
    Extractions \* what extract may find, once _parse has read the answer

Explicit == 10
Learned == 7

Entry(fact, conf) == [value |-> fact, confidence |-> conf]
ProfileOf == [Field -> {None} \cup [value : Fact, confidence : Confidence]]

ASSUME ContinuityAssumption ==
    /\ User \subseteq Key /\ ProfileOf \subseteq Value
    /\ {Learned, Explicit} \subseteq Confidence /\ Confidence \subseteq 0..10
    /\ UpdateConf \subseteq Confidence
    /\ Extractions \subseteq [Field -> Fact \cup {None}]

VARIABLE
    task        \* the call of Continuity that each thread is in

NoProfile == [f \in Field |-> None]

NoTask == [op |-> "none", at |-> "none", user |-> None, loaded |-> None]

\* UserProfile.set
SetField(profile, f, fact, conf) == [profile EXCEPT ![f] = Entry(fact, conf)]

\* ProfileField.from_dict: a confidence of 0 is falsy and comes back as 1.0.
Decoded(entry) ==
    IF entry # None /\ entry.confidence = 0
    THEN [entry EXCEPT !.confidence = Explicit] ELSE entry

\* load: a missing profile is a fresh, empty one.
FromStore(payload) ==
    IF payload = None THEN NoProfile ELSE [f \in Field |-> Decoded(payload[f])]

\* A slip: the strategy is "other".
Merge_Other(current, other) ==
    [f \in Field |-> IF other[f] # None THEN other[f] ELSE current[f]]

\* merge with higher_confidence: a tie goes to what was there.
Merge(current, other) ==
    [f \in Field |->
        IF other[f] # None /\ (current[f] = None
              \/ other[f].confidence > current[f].confidence)
        THEN other[f] ELSE current[f]]

\* What extract returns, as a profile.
LearnedProfile(extraction) ==
    [f \in Field |-> IF extraction[f] = None THEN None
                                             ELSE Entry(extraction[f], Learned)]

Idle(t) == call[t].st = "idle"
EndTask(t) ==
    /\ task' = [task EXCEPT ![t] = NoTask]
    /\ call' = [call EXCEPT ![t] = NoCall]
StoreUnchanged == UNCHANGED <<disk, cache, listed, open, refused, strict, closing, writer>>

\* update and autolearn begin with load.
BeginChange(t, op, u) ==
    /\ Idle(t)
    /\ task' = [task EXCEPT ![t] =
                   [op |-> op, at |-> "load", user |-> u, loaded |-> None]]
    /\ Ask(t, Get(u))
    /\ StoreUnchanged

Saves(t, profile) ==
    /\ Ask(t, Put(task[t].user, profile))
    /\ task' = [task EXCEPT ![t] = [op |-> @.op, at |-> "save", user |-> @.user,
                                    loaded |-> FromStore(call[t].answer)]]
    /\ StoreUnchanged

\* update: set overwrites one field of the profile that was loaded.
SetAndSave(t) ==
    /\ task[t].op = "update" /\ task[t].at = "load" /\ call[t].st = "done"
    /\ \E f \in Field, fact \in Fact, conf \in UpdateConf :
          Saves(t, SetField(FromStore(call[t].answer), f, fact, conf))

\* autolearn: the model is called with the profile that was loaded, ...
LearnAndSave(t) ==
    /\ task[t].op = "learn" /\ task[t].at = "load" /\ call[t].st = "done"
    /\ \E x \in Extractions :
          Saves(t, Merge(FromStore(call[t].answer), LearnedProfile(x)))

\* ... and may raise, out of autolearn.
LearnFails(t) ==
    /\ task[t].op = "learn" /\ task[t].at = "load" /\ call[t].st = "done"
    /\ EndTask(t)
    /\ StoreUnchanged

\* delete and list_users are one call of the store.
BeginDelete(t, u) ==
    /\ Idle(t)
    /\ task' = [task EXCEPT ![t] =
                   [op |-> "delete", at |-> "save", user |-> u, loaded |-> None]]
    /\ Ask(t, Delete(u))
    /\ StoreUnchanged

BeginListUsers(t) ==
    /\ Idle(t)
    /\ task' = [task EXCEPT ![t] =
                   [op |-> "list", at |-> "load", user |-> None, loaded |-> None]]
    /\ Ask(t, List(User))
    /\ StoreUnchanged

\* A call of Continuity ends with its last call of the store, or with the first
\* that raises.  (update returns the profile as it was before the put.)
EndOfTask(t) ==
    /\ task[t] # NoTask
    /\ \/ call[t].st = "raised"
       \/ call[t].st = "done" /\ (task[t].at = "save" \/ task[t].op = "list")
    /\ EndTask(t)
    /\ StoreUnchanged

ContinuityInit == task = [t \in Thread |-> NoTask]

ContinuityStep(t) ==
    SetAndSave(t) \/ LearnAndSave(t) \/ LearnFails(t) \/ EndOfTask(t)

------------------------------------------------------------------------------
(* Properties                                                              *)

\* What the store is asked at each place of a call.
TaskOK(t) ==
    LET k == task[t] IN
    /\ k # NoTask => ~Idle(t)
    /\ k.op = "none" \/ k.at = "none" => k = NoTask
    /\ k.op \in {"update", "learn"} =>
          /\ k.user \in User
          /\ k.at = "load" => call[t].req = Get(k.user)
          /\ k.at = "save" => k.loaded \in ProfileOf
    /\ k.op = "update" /\ k.at = "save" =>
          \E f \in Field, fact \in Fact, conf \in UpdateConf :
             call[t].req = Put(k.user, SetField(k.loaded, f, fact, conf))
    /\ k.op = "learn" /\ k.at = "save" =>
          \E x \in Extractions :
             call[t].req = Put(k.user, Merge(k.loaded, LearnedProfile(x)))
    /\ k.op = "delete" =>
          k.at = "save" /\ k.user \in User /\ call[t].req = Delete(k.user)
    /\ k.op = "list" => k.at = "load" /\ call[t].req = List(User)

\* The types, and that the store has profiles for users.
ContinuityTypeOK ==
    /\ task \in [Thread -> [op : {"none", "update", "learn", "delete", "list"},
                            at : {"none", "load", "save"}, user : User \cup {None},
                            loaded : ProfileOf \cup {None}]]
    /\ \A t \in Thread : TaskOK(t)
    /\ \A u \in User : disk[u] \in ProfileOf \cup {None}
    /\ \A t \in Thread, u \in User :
          call[t].req = Get(u) => call[t].answer \in ProfileOf \cup {None}

Explicitly(u, f) ==
    disk[u] # None /\ disk[u][f] # None /\ disk[u][f].confidence = Explicit

\* The user loses a field that was set explicitly, ...
Loses(u, f) ==
    /\ Explicitly(u, f)
    /\ \/ disk'[u] = None \/ disk'[u][f] = None
       \/ disk'[u][f].value # disk[u][f].value

\* ... as a thread's delete, or its update of just that field, or its save of a
\* profile that another write has changed since it was loaded, commits.
Overrules(t, u, f) ==
    /\ call[t].st = "commit" /\ call'[t].st = "done"
    /\ task[t].user = u
    /\ \/ task[t].op = "delete"
       \/ task[t].loaded # FromStore(disk[u])
       \/ /\ task[t].op = "update"
          /\ \A g \in Field \ {f} : disk'[u][g] = task[t].loaded[g]

\* What a user has set explicitly is lost only by a later update or delete, or
\* by an update or autolearn whose profile was loaded before another write: a
\* model never overrides the user, and an update changes no other field, unless
\* the profile changed below it.
ExplicitFactsSurvive ==
    [][\A u \in User, f \in Field :
          Loses(u, f) => \E t \in Thread : Overrules(t, u, f)]_disk
=============================================================================
