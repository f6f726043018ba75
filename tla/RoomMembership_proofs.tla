------------------------ MODULE RoomMembership_proofs ------------------------
(***************************************************************************)
(* Theorems about room membership and its cache, for every set of users,   *)
(* rooms, handlers and member-set reads.                                   *)
(***************************************************************************)
EXTENDS RoomMembership, TLAPS

\* Only rooms in the database have members, a cache entry, or a read in flight.
\* A creation is alone on its room until it commits, and is the only one ever;
\* the other handlers are about one user, and past their query the room exists.
Structure ==
  /\ DOMAIN memberCache \subseteq chats
  /\ \A r \in Rooms \ chats : member[r] = {}
  /\ \A f \in Fills : fill[f] # Idle => fill[f].room \in chats
  /\ \A t \in Tasks : task[t] # Idle =>
       /\ task[t].op = "create" =>
            /\ task[t].step \in {"query", "done", "load"}
            /\ task[t].step = "query" => task[t].room \notin chats
            /\ task[t].step # "query" => task[t].room \in chats
            /\ task[t].step = "load" => task[t].room \in DOMAIN memberCache
            /\ \A s \in Tasks : /\ task[s] # Idle /\ task[s].op = "create"
                                /\ task[s].room = task[t].room
                                => s = t
       /\ task[t].op # "create" =>
            /\ \E u \in Users : task[t].users = {u}
            /\ task[t].step \in {"done", "load", "duplicate"} => task[t].room \in chats
            /\ task[t].op # "message" /\ task[t].step = "post" => task[t].room \in chats
       /\ task[t].op = "message" => task[t].step = "post"

\* The cache and the client's view agree with the row of u in r.
CacheAgree(r, u) == r \in DOMAIN memberCache => (u \in memberCache[r] <=> u \in member[r])
ViewAgree(r, u) == r \in view[u] <=> u \in member[r]

\* What holds of u in r while t is changing it.
Underway(q, r, u) ==
  /\ q.op \in {"create", "enter", "invite"} /\ q.step = "query" =>
       CacheAgree(r, u) /\ ViewAgree(r, u)
  /\ q.op \in {"create", "enter", "invite"} /\ q.step \in {"done", "load"} => u \in member[r]
  /\ q.step = "load" => (r \in DOMAIN memberCache => u \in memberCache[r])
  /\ q.op = "leave" => (r \in DOMAIN memberCache => u \notin memberCache[r])
  /\ q.op = "leave" /\ q.step = "query" => ViewAgree(r, u)
  /\ q.op = "leave" /\ q.step = "done" => u \notin member[r]

\* The state of a pair that nothing disturbed.
Undisturbed(r, u) ==
  /\ <<r, u>> \notin Overlaps(task, fill)
  /\ \A t \in Changing(task, r, u) : Underway(task[t], r, u)
  /\ Changing(task, r, u) = {} => CacheAgree(r, u) /\ ViewAgree(r, u)
  /\ \A f \in Fills :
       fill[f] # Idle /\ fill[f].room = r /\ fill[f].read
         => (u \in fill[f].snapshot <=> u \in member[r])
  /\ \A t \in Tasks :
       /\ task[t] # Idle /\ task[t].op = "create" /\ task[t].room = r
       /\ task[t].step = "done"
       => (u \in task[t].users <=> u \in member[r])

Pairs == \A r \in Rooms, u \in Users : <<r, u>> \notin disturbed => Undisturbed(r, u)

\* The inductive invariant.
IInv == TypeOK /\ Structure /\ Pairs

LEMMA InitIInv == Init => IInv
  <1> SUFFICES ASSUME Init PROVE IInv
    OBVIOUS
  <1> USE DEF Init
  <1>1. TypeOK
    BY DEF TypeOK, EmptyMap
  <1>2. Structure
    BY DEF Structure, EmptyMap
  <1>3. Pairs
    BY DEF Pairs, Undisturbed, Overlaps, Changing, Reading, CacheAgree, ViewAgree, EmptyMap
  <1> QED BY <1>1, <1>2, <1>3 DEF IInv

-----------------------------------------------------------------------------
(* Types. *)

\* Updating the cache keeps its type.
LEMMA CacheType ==
  ASSUME TypeOK, NEW r \in Rooms, NEW S \in SUBSET Users, memberCache' = MapSet(memberCache, r, S)
  PROVE  /\ DOMAIN memberCache' \subseteq Rooms
         /\ memberCache' \in [DOMAIN memberCache' -> SUBSET Users]
         /\ DOMAIN memberCache' = DOMAIN memberCache \cup {r}
         /\ memberCache'[r] = S
         /\ \A x \in DOMAIN memberCache \ {r} : memberCache'[x] = memberCache[x]
  BY DEF TypeOK, MapSet

\* So do the updates of insertChatMember and deleteChatMember.
LEMMA CacheUpdates ==
  ASSUME TypeOK, NEW r \in Rooms, NEW u \in Users, CacheAdd(r, u) \/ CacheRemove(r, u)
  PROVE  /\ DOMAIN memberCache' = DOMAIN memberCache
         /\ memberCache' \in [DOMAIN memberCache' -> SUBSET Users]
         /\ \A x \in DOMAIN memberCache \ {r} : memberCache'[x] = memberCache[x]
         /\ \A v \in Users \ {u} :
              r \in DOMAIN memberCache => (v \in memberCache'[r] <=> v \in memberCache[r])
  <1>1. CASE r \notin DOMAIN memberCache
    BY <1>1 DEF CacheAdd, CacheRemove, TypeOK
  <1>2. CASE r \in DOMAIN memberCache
    <2>1. memberCache[r] \in SUBSET Users
      BY <1>2 DEF TypeOK
    <2> QED BY <1>2, <2>1, CacheType DEF CacheAdd, CacheRemove
  <1> QED BY <1>1, <1>2

\* A multicast starts one read, or none.
LEMMA MulticastFill ==
  ASSUME TypeOK, NEW r \in Rooms, Multicast(r, memberCache)
  PROVE  /\ fill' \in [Fills -> FillRecords \cup {Idle}]
         /\ \A f \in Fills :
              fill'[f] # fill[f] => fill'[f] # Idle /\ fill'[f].room = r /\ ~fill'[f].read
  <1>1. CASE UNCHANGED fill
    BY <1>1 DEF TypeOK
  <1>2. ASSUME NEW f \in Fills,
               fill' = [fill EXCEPT ![f] = [room |-> r, read |-> FALSE, snapshot |-> {}]]
        PROVE  /\ fill' \in [Fills -> FillRecords \cup {Idle}]
               /\ \A g \in Fills :
                    fill'[g] # fill[g] => fill'[g] # Idle /\ fill'[g].room = r /\ ~fill'[g].read
    <2> DEFINE new == [room |-> r, read |-> FALSE, snapshot |-> {}]
    <2>1. new \in FillRecords
      BY DEF FillRecords
    <2>2. new # Idle
      BY <2>1, IdleAssumption
    <2>3. \A g \in Fills : fill'[g] = IF g = f THEN new ELSE fill[g]
      BY <1>2 DEF TypeOK
    <2> QED BY <1>2, <2>1, <2>2, <2>3 DEF TypeOK
  <1> QED BY <1>1, <1>2 DEF Multicast

\* disturbed only ever holds pairs.
LEMMA WatchType ==
  ASSUME TypeOK, Watch
  PROVE  disturbed' \subseteq Rooms \X Users
  BY DEF TypeOK, Watch, Overlaps

\* The record of a handler at some step.
LEMMA AtType ==
  ASSUME TypeOK, NEW t \in Tasks, NEW ops, NEW step, At(t, ops, step)
  PROVE  /\ task[t] \in TaskRecords
         /\ task[t].room \in Rooms /\ task[t].users \subseteq Users
         /\ task[t].op \in ops /\ task[t].step = step
  BY DEF TypeOK, At, TaskRecords

\* What GoTo, End and a new handler do to the handlers.
LEMMA GoToTask ==
  ASSUME TypeOK, NEW t \in Tasks, task[t] \in TaskRecords, NEW step \in Steps, GoTo(t, step)
  PROVE  /\ task' \in [Tasks -> TaskRecords \cup {Idle}]
         /\ \A x \in Tasks \ {t} : task'[x] = task[x]
         /\ task'[t] \in TaskRecords /\ task'[t] # Idle
         /\ task'[t].op = task[t].op /\ task'[t].room = task[t].room
         /\ task'[t].users = task[t].users /\ task'[t].step = step
  BY IdleAssumption DEF TypeOK, GoTo, TaskRecords

LEMMA EndTask ==
  ASSUME TypeOK, NEW t \in Tasks, NEW how \in {"SUCCESS", "ERROR_ALREADY_MEMBER",
                                             "ERROR_NOT_MEMBER", "terminated"},
         End(t, how)
  PROVE  /\ task' \in [Tasks -> TaskRecords \cup {Idle}]
         /\ \A x \in Tasks \ {t} : task'[x] = task[x]
         /\ task'[t] = Idle
         /\ reply' \in [Tasks -> {"none", "SUCCESS", "ERROR_ALREADY_MEMBER", "ERROR_NOT_MEMBER",
                                  "terminated"}]
  BY DEF TypeOK, End

-----------------------------------------------------------------------------
(* What a step that is not about a pair leaves true of it. *)

DataSame(r, u) ==
  /\ u \in member'[r] <=> u \in member[r]
  /\ r \in view'[u] <=> r \in view[u]
  /\ r \in DOMAIN memberCache' <=> r \in DOMAIN memberCache
  /\ r \in DOMAIN memberCache => (u \in memberCache'[r] <=> u \in memberCache[r])

TasksSame(r, u) ==
  /\ \A t \in Changing(task, r, u) \cup Changing(task', r, u) :
       task'[t] = task[t]
  /\ \A t \in Tasks :
       /\ task'[t] # Idle /\ task'[t].op = "create" /\ task'[t].room = r
       /\ task'[t].step = "done"
       => task'[t] = task[t] \/ (u \in task'[t].users <=> u \in member'[r])

FillsSame(r, u) ==
  \A f \in Fills :
    fill'[f] # Idle /\ fill'[f].room = r /\ fill'[f].read
      => fill'[f] = fill[f] \/ (u \in fill'[f].snapshot <=> u \in member'[r])

LEMMA PairFrame ==
  ASSUME NEW r \in Rooms, NEW u \in Users, Undisturbed(r, u), <<r, u>> \notin Overlaps(task, fill)',
         DataSame(r, u), TasksSame(r, u), FillsSame(r, u)
  PROVE  Undisturbed(r, u)'
  <1>1. CacheAgree(r, u) <=> CacheAgree(r, u)'
    BY DEF CacheAgree, DataSame
  <1>2. ViewAgree(r, u) <=> ViewAgree(r, u)'
    BY DEF ViewAgree, DataSame
  <1>3. Changing(task, r, u)' = Changing(task, r, u)
    BY DEF TasksSame, Changing
  <1>4. ASSUME NEW t \in Changing(task, r, u)' PROVE Underway(task[t], r, u)'
    <2>1. task'[t] = task[t] /\ Underway(task[t], r, u)
      BY <1>3 DEF TasksSame, Undisturbed
    <2> QED BY <1>1, <1>2, <2>1 DEF Underway, DataSame
  <1>5. ASSUME NEW f \in Fills, fill'[f] # Idle, fill'[f].room = r, fill'[f].read
        PROVE  u \in fill'[f].snapshot <=> u \in member'[r]
    BY <1>5 DEF FillsSame, Undisturbed, DataSame
  <1>6. ASSUME NEW t \in Tasks, task'[t] # Idle, task'[t].op = "create", task'[t].room = r,
               task'[t].step = "done"
        PROVE  u \in task'[t].users <=> u \in member'[r]
    BY <1>6 DEF TasksSame, Undisturbed, DataSame
  <1> QED BY <1>1, <1>2, <1>3, <1>4, <1>5, <1>6 DEF Undisturbed

\* A pair that no operation touches alone.
LEMMA Alone ==
  ASSUME NEW r \in Rooms, NEW u \in Users, <<r, u>> \notin Overlaps(task, fill)
  PROVE  /\ \A t1, t2 \in Changing(task, r, u) : t1 = t2
         /\ Changing(task, r, u) # {} => Reading(fill, r) = {}
         /\ \A t1, t2 \in Tasks :
              /\ task[t1] # Idle /\ task[t1].op = "create" /\ task[t1].room = r
              /\ t2 \in Changing(task, r, u)
              => t1 = t2
  BY DEF Overlaps

\* What Watch says of a pair that is still undisturbed after the step.
LEMMA Watched ==
  ASSUME Pairs, Watch, NEW r \in Rooms, NEW u \in Users, <<r, u>> \notin disturbed'
  PROVE  Undisturbed(r, u) /\ <<r, u>> \notin Overlaps(task, fill)'
  BY DEF Pairs, Watch

\* A step of one handler that is not about the pair, before or after.
LEMMA OneTask ==
  ASSUME NEW t \in Tasks, \A x \in Tasks \ {t} : task'[x] = task[x],
         NEW r \in Rooms, NEW u \in Users,
         t \notin Changing(task, r, u), t \notin Changing(task', r, u),
         task'[t] # Idle => task'[t].op # "create" \/ task'[t].room # r \/ task'[t].step # "done"
  PROVE  TasksSame(r, u)
  BY DEF TasksSame, Changing

\* The same of the state after the step.
LEMMA AloneAfter ==
  ASSUME NEW r \in Rooms, NEW u \in Users, <<r, u>> \notin Overlaps(task, fill)'
  PROVE  /\ \A t1, t2 \in Changing(task, r, u)' : t1 = t2
         /\ Changing(task, r, u)' # {} => Reading(fill, r)' = {}
         /\ \A t1, t2 \in Tasks :
              /\ task'[t1] # Idle /\ task'[t1].op = "create" /\ task'[t1].room = r
              /\ t2 \in Changing(task, r, u)'
              => t1 = t2
  BY DEF Overlaps

-----------------------------------------------------------------------------
(* A handler that is changing the pair after the step, or was before it. *)

LEMMA ChangingAfter ==
  ASSUME NEW r \in Rooms, NEW u \in Users, <<r, u>> \notin Overlaps(task, fill)',
         NEW t \in Tasks, t \in Changing(task, r, u)', Underway(task[t], r, u)'
  PROVE  Undisturbed(r, u)'
  <1>1. Changing(task, r, u)' = {t} /\ Reading(fill, r)' = {}
    BY AloneAfter
  <1>2. \A x \in Tasks : task'[x] # Idle /\ task'[x].op = "create" /\ task'[x].room = r => x = t
    BY AloneAfter
  <1>3. u \in task'[t].users
    BY DEF Changing
  <1>4. task'[t].op = "create" /\ task'[t].step = "done" => u \in member'[r]
    BY DEF Underway
  <1>5. \A f \in Fills : ~(fill'[f] # Idle /\ fill'[f].room = r)
    BY <1>1 DEF Reading
  <1> QED BY <1>1, <1>2, <1>3, <1>4, <1>5 DEF Undisturbed

LEMMA ChangingEnds ==
  ASSUME NEW r \in Rooms, NEW u \in Users, Undisturbed(r, u),
         <<r, u>> \notin Overlaps(task, fill)',
         NEW t \in Tasks, t \in Changing(task, r, u), t \notin Changing(task, r, u)',
         \A x \in Tasks \ {t} : task'[x] = task[x],
         task'[t] # Idle => task'[t].op # "create",
         FillsSame(r, u), CacheAgree(r, u)', ViewAgree(r, u)'
  PROVE  Undisturbed(r, u)'
  <1>1. <<r, u>> \notin Overlaps(task, fill)
    BY DEF Undisturbed
  <1>2. Changing(task, r, u) = {t} /\ Reading(fill, r) = {}
    BY <1>1, Alone
  <1>3. Changing(task, r, u)' = {}
    BY <1>2 DEF Changing
  <1>4. ASSUME NEW f \in Fills, fill'[f] # Idle, fill'[f].room = r, fill'[f].read
        PROVE  u \in fill'[f].snapshot <=> u \in member'[r]
    BY <1>2, <1>4 DEF FillsSame, Reading
  <1>5. ASSUME NEW x \in Tasks, task'[x] # Idle, task'[x].op = "create", task'[x].room = r
        PROVE  FALSE
    <2>1. x # t /\ task[x] = task'[x]
      BY <1>5
    <2> QED BY <1>1, <1>5, <2>1, Alone
  <1> QED BY <1>3, <1>4, <1>5 DEF Undisturbed

-----------------------------------------------------------------------------
(* The steps that end a handler, or begin one that is about nobody. *)

\* Refusals, and the message that ends the other handlers.
LEMMA EndingStep ==
  ASSUME IInv, NEW t \in Tasks,
         \/ InsertRefused(t) \/ EnterThrows(t) \/ LeaveRefused(t)
         \/ MessagePosted(t) \/ MessageThrows(t)
  PROVE  IInv'
  <1> USE DEF IInv
  <1>1. /\ task[t] # Idle /\ task[t] \in TaskRecords
        /\ task[t].step \in {"missing", "duplicate", "nobody", "post"}
        /\ \E how \in {"SUCCESS", "ERROR_ALREADY_MEMBER", "ERROR_NOT_MEMBER", "terminated"} :
             End(t, how)
        /\ UNCHANGED <<chats, member, memberCache, view>>
        /\ Watch
    BY DEF InsertRefused, EnterThrows, LeaveRefused, MessagePosted, MessageThrows, At, TypeOK
  <1>2. /\ task' \in [Tasks -> TaskRecords \cup {Idle}]
        /\ \A x \in Tasks \ {t} : task'[x] = task[x]
        /\ task'[t] = Idle
        /\ reply' \in [Tasks -> {"none", "SUCCESS", "ERROR_ALREADY_MEMBER", "ERROR_NOT_MEMBER",
                                 "terminated"}]
    BY <1>1, EndTask
  <1>3. /\ fill' \in [Fills -> FillRecords \cup {Idle}]
        /\ \A f \in Fills : fill'[f] # fill[f] =>
             fill'[f] # Idle /\ fill'[f].room \in chats /\ ~fill'[f].read
    <2>1. CASE UNCHANGED fill
      BY <2>1 DEF TypeOK
    <2>2. CASE MessagePosted(t)
      BY <1>1, <2>2, MulticastFill DEF MessagePosted, TaskRecords
    <2> QED BY <2>1, <2>2 DEF InsertRefused, EnterThrows, LeaveRefused, MessageThrows
  <1>4. TypeOK'
    BY <1>1, <1>2, <1>3, WatchType DEF TypeOK
  <1>5. Structure'
    BY <1>1, <1>2, <1>3 DEF Structure
  <1>6. ASSUME NEW r \in Rooms, NEW u \in Users, <<r, u>> \notin disturbed'
        PROVE  Undisturbed(r, u)'
    <2>1. Undisturbed(r, u) /\ <<r, u>> \notin Overlaps(task, fill)'
      BY <1>1, <1>6, Watched
    <2>2. TasksSame(r, u)
      BY <1>1, <1>2, OneTask DEF Changing
    <2>3. FillsSame(r, u) /\ DataSame(r, u)
      BY <1>1, <1>3 DEF FillsSame, DataSame
    <2> QED BY <2>1, <2>2, <2>3, PairFrame
  <1>7. Pairs'
    BY <1>6 DEF Pairs
  <1> QED BY <1>4, <1>5, <1>7

LEMMA BeginChatMessageStep ==
  ASSUME IInv, NEW t \in Tasks, NEW r0 \in Rooms, NEW u0 \in Users, BeginChatMessage(t, r0, u0)
  PROVE  IInv'
  <1> USE DEF IInv
  <1> DEFINE q == [op |-> "message", room |-> r0, users |-> {u0}, step |-> "post"]
  <1>1. /\ task[t] = Idle
        /\ UNCHANGED <<chats, member, memberCache, fill, view>>
        /\ Watch
        /\ q \in TaskRecords
        /\ \A x \in Tasks : task'[x] = IF x = t THEN q ELSE task[x]
    BY DEF BeginChatMessage, TypeOK, TaskRecords, Changes, Steps
  <1>2. TypeOK'
    BY <1>1, WatchType DEF TypeOK, BeginChatMessage
  <1>3. Structure'
    BY <1>1 DEF Structure
  <1>4. ASSUME NEW r \in Rooms, NEW u \in Users, <<r, u>> \notin disturbed'
        PROVE  Undisturbed(r, u)'
    <2>1. Undisturbed(r, u) /\ <<r, u>> \notin Overlaps(task, fill)'
      BY <1>1, <1>4, Watched
    <2>2. TasksSame(r, u)
      BY <1>1, OneTask DEF Changing, Changes
    <2>3. FillsSame(r, u) /\ DataSame(r, u)
      BY <1>1 DEF FillsSame, DataSame
    <2> QED BY <2>1, <2>2, <2>3, PairFrame
  <1>5. Pairs'
    BY <1>4 DEF Pairs
  <1> QED BY <1>2, <1>3, <1>5

\* A query that fails: what it left undone disturbs the pairs it was about.
LEMMA QueryFailsStep ==
  ASSUME IInv, NEW t \in Tasks, QueryFails(t)
  PROVE  IInv'
  <1> USE DEF IInv
  <1>1. /\ task[t] # Idle /\ task[t] \in TaskRecords
        /\ \E how \in {"ERROR_ALREADY_MEMBER", "terminated"} : End(t, how)
        /\ UNCHANGED <<chats, member, memberCache, fill, view>>
        /\ disturbed' = disturbed \cup (IF task[t].op \in Changes
                                        THEN {task[t].room} \X task[t].users ELSE {})
    BY DEF QueryFails, TypeOK
  <1>2. /\ task' \in [Tasks -> TaskRecords \cup {Idle}]
        /\ \A x \in Tasks \ {t} : task'[x] = task[x]
        /\ task'[t] = Idle
        /\ reply' \in [Tasks -> {"none", "SUCCESS", "ERROR_ALREADY_MEMBER", "ERROR_NOT_MEMBER",
                                 "terminated"}]
    BY <1>1, EndTask
  <1>3. TypeOK'
    BY <1>1, <1>2 DEF TypeOK, TaskRecords
  <1>4. Structure'
    BY <1>1, <1>2 DEF Structure
  <1>5. ASSUME NEW r \in Rooms, NEW u \in Users, <<r, u>> \notin disturbed'
        PROVE  Undisturbed(r, u)'
    <2>1. Undisturbed(r, u) /\ <<r, u>> \notin Overlaps(task, fill)
      BY <1>1, <1>5 DEF Pairs, Undisturbed
    <2>2. t \notin Changing(task, r, u)
      BY <1>1, <1>5 DEF Changing
    <2>3. TasksSame(r, u)
      BY <1>2, <2>2, OneTask DEF Changing
    <2>4. Changing(task, r, u)' = Changing(task, r, u) /\ Reading(fill, r)' = Reading(fill, r)
      BY <1>1, <2>3 DEF TasksSame, Changing, Reading
    <2>5. <<r, u>> \notin Overlaps(task, fill)'
      <3> SUFFICES ASSUME <<r, u>> \in Overlaps(task, fill)' PROVE FALSE
        OBVIOUS
      <3>1. \/ \E t1, t2 \in Changing(task, r, u)' : t1 # t2
            \/ Changing(task, r, u)' # {} /\ Reading(fill, r)' # {}
            \/ \E t1, t2 \in Tasks :
                 /\ t1 # t2
                 /\ task'[t1] # Idle /\ task'[t1].op = "create" /\ task'[t1].room = r
                 /\ t2 \in Changing(task, r, u)'
        BY DEF Overlaps
      <3>2. \A x \in Tasks : task'[x] # Idle => task'[x] = task[x]
        BY <1>2
      <3> QED BY <2>1, <2>4, <3>1, <3>2, Alone
    <2>6. FillsSame(r, u) /\ DataSame(r, u)
      BY <1>1 DEF FillsSame, DataSame
    <2> QED BY <2>1, <2>3, <2>5, <2>6, PairFrame
  <1>6. Pairs'
    BY <1>5 DEF Pairs
  <1> QED BY <1>3, <1>4, <1>6

\* A restart forgets the cache and what was in flight.
LEMMA RestartStep ==
  ASSUME IInv, Restart
  PROVE  IInv'
  <1> USE DEF IInv, Restart
  <1>1. TypeOK'
    BY DEF TypeOK, EmptyMap
  <1>2. Structure'
    BY DEF Structure, EmptyMap
  <1>3. ASSUME NEW r \in Rooms, NEW u \in Users PROVE Undisturbed(r, u)'
    <2>1. (\A t \in Tasks : task'[t] = Idle) /\ (\A f \in Fills : fill'[f] = Idle)
      OBVIOUS
    <2>2. Changing(task, r, u)' = {}
      BY <2>1 DEF Changing
    <2>3. <<r, u>> \notin Overlaps(task, fill)'
      BY <2>1 DEF Overlaps, Changing
    <2>4. CacheAgree(r, u)' /\ ViewAgree(r, u)'
      BY DEF CacheAgree, ViewAgree, EmptyMap
    <2> HIDE DEF Restart, IInv
    <2> QED BY <2>1, <2>2, <2>3, <2>4 DEF Undisturbed
  <1> QED BY <1>1, <1>2, <1>3 DEF Pairs

-----------------------------------------------------------------------------
(* The beginnings. *)

\* What a new handler does to the handlers.
LEMMA BeginTask ==
  ASSUME IInv, NEW t \in Tasks, NEW op \in Changes, NEW r0 \in Rooms, NEW users \in SUBSET Users,
         Begin(t, op, r0, users)
  PROVE  /\ task[t] = Idle
         /\ task'[t] \in TaskRecords /\ task'[t] # Idle
         /\ task'[t].op = op /\ task'[t].room = r0
         /\ task'[t].users = users /\ task'[t].step = "query"
         /\ \A x \in Tasks \ {t} : task'[x] = task[x]
         /\ task' \in [Tasks -> TaskRecords \cup {Idle}]
         /\ reply' \in [Tasks -> {"none", "SUCCESS", "ERROR_ALREADY_MEMBER",
                                  "ERROR_NOT_MEMBER", "terminated"}]
         /\ UNCHANGED <<chats, member, fill, view>>
         /\ Watch
  <1> DEFINE q == [op |-> op, room |-> r0, users |-> users, step |-> "query"]
  <1>1. q \in TaskRecords /\ q # Idle
    BY IdleAssumption DEF TaskRecords, Steps
  <1>2. \A x \in Tasks : task'[x] = IF x = t THEN q ELSE task[x]
    BY DEF IInv, Begin, TypeOK
  <1> QED BY <1>1, <1>2 DEF IInv, Begin, TypeOK

\* The pairs after a beginning: those of the new handler are underway.
LEMMA BeginPairs ==
  ASSUME IInv, NEW t \in Tasks, NEW op \in Changes, NEW r0 \in Rooms, NEW users \in SUBSET Users,
         Begin(t, op, r0, users),
         \A r \in Rooms, u \in Users :
           r # r0 \/ u \notin users => DataSame(r, u),
         op # "leave" => UNCHANGED memberCache,
         op = "leave" => \A u \in users : r0 \in DOMAIN memberCache' => u \notin memberCache'[r0]
  PROVE  Pairs'
  <1>1. /\ task[t] = Idle
        /\ task'[t] # Idle
        /\ task'[t].op = op /\ task'[t].room = r0
        /\ task'[t].users = users /\ task'[t].step = "query"
        /\ \A x \in Tasks \ {t} : task'[x] = task[x]
        /\ UNCHANGED <<chats, member, fill, view>>
        /\ Watch
    BY BeginTask
  <1>2. ASSUME NEW r \in Rooms, NEW u \in Users, <<r, u>> \notin disturbed'
        PROVE  Undisturbed(r, u)'
    <2>1. Undisturbed(r, u) /\ <<r, u>> \notin Overlaps(task, fill)'
      BY <1>1, <1>2, Watched DEF IInv
    <2>2. CASE r # r0 \/ u \notin users
      <3>1. TasksSame(r, u)
        BY <1>1, <2>2, OneTask DEF Changing
      <3>2. FillsSame(r, u) /\ DataSame(r, u)
        BY <1>1, <2>2 DEF FillsSame
      <3> QED BY <2>1, <3>1, <3>2, PairFrame
    <2>3. CASE r = r0 /\ u \in users
      <3>1. t \in Changing(task, r, u)'
        BY <1>1, <2>3 DEF Changing
      <3>2. Changing(task, r, u)' = {t}
        BY <2>1, <3>1, AloneAfter
      <3>3. Changing(task, r, u) = {}
        BY <1>1, <3>2 DEF Changing
      <3>4. CacheAgree(r, u) /\ ViewAgree(r, u)
        BY <2>1, <3>3 DEF Undisturbed
      <3>5. Underway(task[t], r, u)'
        BY <1>1, <2>3, <3>4 DEF Underway, CacheAgree, ViewAgree
      <3> QED BY <2>1, <3>1, <3>5, ChangingAfter
    <2> QED BY <2>2, <2>3
  <1> QED BY <1>2 DEF Pairs

LEMMA BeginCreateRoomStep ==
  ASSUME IInv, NEW t \in Tasks, NEW r0 \in Rooms, NEW users \in SUBSET Users,
         BeginCreateRoom(t, r0, users)
  PROVE  IInv'
  <1>1. "create" \in Changes /\ Begin(t, "create", r0, users) /\ UNCHANGED memberCache
        /\ r0 \notin chats /\ \A s \in Tasks : task[s] # Idle => task[s].room # r0
    BY DEF BeginCreateRoom, Changes
  <1>2. TypeOK'
    BY <1>1, BeginTask, WatchType DEF IInv, TypeOK
  <1>3. Structure'
    <2>1. /\ task'[t].op = "create" /\ task'[t].room = r0 /\ task'[t].step = "query"
          /\ \A x \in Tasks \ {t} : task'[x] = task[x]
          /\ UNCHANGED <<chats, member, fill, view, memberCache>>
      BY <1>1, BeginTask
    <2> QED BY <1>1, <2>1 DEF IInv, Structure
  <1>4. Pairs'
    <2>1. \A r \in Rooms, u \in Users : DataSame(r, u)
      BY <1>1, BeginTask DEF DataSame
    <2> QED BY <1>1, <2>1, BeginPairs
  <1> QED BY <1>2, <1>3, <1>4 DEF IInv

LEMMA BeginInsertStep ==
  ASSUME IInv, NEW t \in Tasks, NEW op \in {"enter", "invite"}, NEW r0 \in Rooms, NEW u0 \in Users,
         BeginInsert(t, op, r0, u0)
  PROVE  IInv'
  <1>1. op \in Changes /\ op # "leave" /\ {u0} \in SUBSET Users
        /\ Begin(t, op, r0, {u0}) /\ UNCHANGED memberCache
    BY DEF BeginInsert, Changes
  <1>2. TypeOK'
    BY <1>1, BeginTask, WatchType DEF IInv, TypeOK
  <1>3. Structure'
    <2>1. /\ task'[t].op = op /\ task'[t].users = {u0} /\ task'[t].step = "query"
          /\ \A x \in Tasks \ {t} : task'[x] = task[x]
          /\ UNCHANGED <<chats, member, fill, view, memberCache>>
      BY <1>1, BeginTask
    <2> QED BY <1>1, <2>1 DEF IInv, Structure
  <1>4. Pairs'
    <2>1. \A r \in Rooms, u \in Users : DataSame(r, u)
      BY <1>1, BeginTask DEF DataSame
    <2> QED BY <1>1, <2>1, BeginPairs
  <1> QED BY <1>2, <1>3, <1>4 DEF IInv

LEMMA BeginLeaveRoomStep ==
  ASSUME IInv, NEW t \in Tasks, NEW r0 \in Rooms, NEW u0 \in Users, BeginLeaveRoom(t, r0, u0)
  PROVE  IInv'
  <1>1. "leave" \in Changes /\ {u0} \in SUBSET Users
        /\ Begin(t, "leave", r0, {u0}) /\ CacheRemove(r0, u0)
    BY DEF BeginLeaveRoom, Changes
  <1>2. /\ DOMAIN memberCache' = DOMAIN memberCache
        /\ memberCache' \in [DOMAIN memberCache' -> SUBSET Users]
        /\ \A x \in DOMAIN memberCache \ {r0} : memberCache'[x] = memberCache[x]
        /\ \A v \in Users \ {u0} :
             r0 \in DOMAIN memberCache => (v \in memberCache'[r0] <=> v \in memberCache[r0])
    BY <1>1, CacheUpdates DEF IInv
  <1>3. TypeOK'
    BY <1>1, <1>2, BeginTask, WatchType DEF IInv, TypeOK
  <1>4. Structure'
    <2>1. /\ task'[t].op = "leave" /\ task'[t].users = {u0} /\ task'[t].step = "query"
          /\ \A x \in Tasks \ {t} : task'[x] = task[x]
          /\ UNCHANGED <<chats, member, fill, view>>
      BY <1>1, BeginTask
    <2> QED BY <1>1, <1>2, <2>1 DEF IInv, Structure
  <1>5. Pairs'
    <2>1. \A r \in Rooms, u \in Users : r # r0 \/ u \notin {u0} => DataSame(r, u)
      BY <1>1, <1>2, BeginTask DEF DataSame
    <2>2. r0 \in DOMAIN memberCache' => u0 \notin memberCache'[r0]
      BY <1>1, <1>2 DEF CacheRemove, MapSet
    <2> QED BY <1>1, <2>1, <2>2, BeginPairs
  <1> QED BY <1>3, <1>4, <1>5 DEF IInv

-----------------------------------------------------------------------------
(* The steps of a creation. *)

\* What a step of a handler from one step to another does to it.
LEMMA MovesTask ==
  ASSUME IInv, NEW t \in Tasks, NEW ops, NEW from, NEW to \in Steps, At(t, ops, from), GoTo(t, to)
  PROVE  /\ task[t] \in TaskRecords /\ task[t] # Idle
         /\ task[t].op \in ops /\ task[t].step = from
         /\ task[t].room \in Rooms /\ task[t].users \in SUBSET Users
         /\ task' \in [Tasks -> TaskRecords \cup {Idle}]
         /\ \A x \in Tasks \ {t} : task'[x] = task[x]
         /\ task'[t] # Idle
         /\ task'[t].op = task[t].op /\ task'[t].room = task[t].room
         /\ task'[t].users = task[t].users /\ task'[t].step = to
  <1>1. task[t] \in TaskRecords /\ task[t] # Idle
        /\ task[t].op \in ops /\ task[t].step = from
        /\ task[t].room \in Rooms /\ task[t].users \in SUBSET Users
    BY AtType DEF IInv, At
  <1> QED BY <1>1, GoToTask DEF IInv

LEMMA CreateCommitsStep ==
  ASSUME IInv, NEW t \in Tasks, CreateCommits(t)
  PROVE  IInv'
  <1> DEFINE r0 == task[t].room
             users == task[t].users
  <1>1. /\ task[t] \in TaskRecords /\ task[t] # Idle
        /\ task[t].op = "create" /\ task[t].step = "query"
        /\ r0 \in Rooms /\ users \in SUBSET Users
        /\ task' \in [Tasks -> TaskRecords \cup {Idle}]
        /\ \A x \in Tasks \ {t} : task'[x] = task[x]
        /\ task'[t] # Idle /\ task'[t].op = "create" /\ task'[t].room = r0
        /\ task'[t].users = users /\ task'[t].step = "done"
    BY MovesTask DEF CreateCommits, Steps
  <1>2. /\ chats' = chats \cup {r0}
        /\ member' = [member EXCEPT ![r0] = users]
        /\ UNCHANGED <<memberCache, reply, fill, view>>
        /\ Watch
    BY DEF CreateCommits
  <1>3. /\ member' \in [Rooms -> SUBSET Users]
        /\ member'[r0] = users
        /\ \A r \in Rooms \ {r0} : member'[r] = member[r]
    BY <1>1, <1>2 DEF IInv, TypeOK
  <1>4. r0 \notin chats /\ member[r0] = {} /\ \A f \in Fills : fill[f] # Idle => fill[f].room # r0
    BY <1>1 DEF IInv, Structure
  <1>5. TypeOK'
    BY <1>1, <1>2, <1>3, WatchType DEF IInv, TypeOK
  <1>6. Structure'
    BY <1>1, <1>2, <1>3, <1>4 DEF IInv, Structure
  <1>7. ASSUME NEW r \in Rooms, NEW u \in Users, <<r, u>> \notin disturbed'
        PROVE  Undisturbed(r, u)'
    <2>1. Undisturbed(r, u) /\ <<r, u>> \notin Overlaps(task, fill)'
      BY <1>2, <1>7, Watched DEF IInv
    <2>2. CASE r = r0 /\ u \in users
      <3>1. t \in Changing(task, r, u)'
        BY <1>1, <2>2 DEF Changing, Changes
      <3>2. Underway(task[t], r, u)'
        BY <1>1, <1>3, <2>2 DEF Underway
      <3> QED BY <2>1, <3>1, <3>2, ChangingAfter
    <2>3. CASE r # r0 \/ u \notin users
      <3>1. DataSame(r, u)
        BY <1>2, <1>3, <1>4, <2>3 DEF DataSame
      <3>2. FillsSame(r, u)
        BY <1>2 DEF FillsSame
      <3>3. t \notin Changing(task, r, u) \cup Changing(task', r, u)
        BY <1>1, <2>3 DEF Changing
      <3>4. TasksSame(r, u)
        BY <1>1, <1>3, <2>3, <3>3 DEF TasksSame, Changing
      <3> QED BY <2>1, <3>1, <3>2, <3>4, PairFrame
    <2> QED BY <2>2, <2>3
  <1>8. Pairs'
    BY <1>7 DEF Pairs
  <1> QED BY <1>5, <1>6, <1>8 DEF IInv

\* What an undisturbed pair of a room under creation looks like.
LEMMA UnderCreation ==
  ASSUME NEW r \in Rooms, NEW u \in Users, Undisturbed(r, u),
         NEW t \in Tasks, task[t] # Idle, task[t].op = "create", task[t].room = r,
         t \notin Changing(task, r, u)
  PROVE  Changing(task, r, u) = {} /\ CacheAgree(r, u) /\ ViewAgree(r, u)
  BY Alone DEF Undisturbed, Changing

LEMMA CreateResumesStep ==
  ASSUME IInv, NEW t \in Tasks, CreateResumes(t)
  PROVE  IInv'
  <1> DEFINE r0 == task[t].room
             users == task[t].users
  <1>1. /\ task[t] \in TaskRecords /\ task[t] # Idle
        /\ task[t].op = "create" /\ task[t].step = "done"
        /\ r0 \in Rooms /\ users \in SUBSET Users
        /\ task' \in [Tasks -> TaskRecords \cup {Idle}]
        /\ \A x \in Tasks \ {t} : task'[x] = task[x]
        /\ task'[t] # Idle /\ task'[t].op = "create" /\ task'[t].room = r0
        /\ task'[t].users = users /\ task'[t].step = "load"
    BY MovesTask DEF CreateResumes, Steps
  <1>2. /\ memberCache' = MapSet(memberCache, r0, users)
        /\ UNCHANGED <<chats, member, reply, fill, view>>
        /\ Watch
    BY DEF CreateResumes
  <1>3. /\ DOMAIN memberCache' \subseteq Rooms
        /\ memberCache' \in [DOMAIN memberCache' -> SUBSET Users]
        /\ DOMAIN memberCache' = DOMAIN memberCache \cup {r0}
        /\ memberCache'[r0] = users
        /\ \A x \in DOMAIN memberCache \ {r0} : memberCache'[x] = memberCache[x]
    BY <1>1, <1>2, CacheType DEF IInv
  <1>4. r0 \in chats
    BY <1>1 DEF IInv, Structure
  <1>5. TypeOK'
    BY <1>1, <1>2, <1>3, WatchType DEF IInv, TypeOK
  <1>6. Structure'
    BY <1>1, <1>2, <1>3, <1>4 DEF IInv, Structure
  <1>7. ASSUME NEW r \in Rooms, NEW u \in Users, <<r, u>> \notin disturbed'
        PROVE  Undisturbed(r, u)'
    <2>1. Undisturbed(r, u) /\ <<r, u>> \notin Overlaps(task, fill)'
      BY <1>2, <1>7, Watched DEF IInv
    <2>2. CASE r = r0 /\ u \in users
      <3>1. t \in Changing(task, r, u)' /\ u \in member[r]
        BY <1>1, <2>1, <2>2 DEF Changing, Changes, Undisturbed
      <3>2. Underway(task[t], r, u)'
        BY <1>1, <1>2, <1>3, <2>2, <3>1 DEF Underway
      <3> QED BY <2>1, <3>1, <3>2, ChangingAfter
    <2>3. CASE r = r0 /\ u \notin users
      <3>1. u \notin member[r]
        BY <1>1, <2>1, <2>3 DEF Undisturbed
      <3>2. t \notin Changing(task, r, u) /\ t \notin Changing(task', r, u)
        BY <1>1, <2>3 DEF Changing
      <3>3. Changing(task, r, u) = {} /\ CacheAgree(r, u) /\ ViewAgree(r, u)
        BY <1>1, <2>1, <2>3, <3>2, UnderCreation
      <3>4. Changing(task, r, u)' = {}
        BY <1>1, <3>2, <3>3 DEF Changing
      <3>5. CacheAgree(r, u)' /\ ViewAgree(r, u)'
        BY <1>2, <1>3, <2>3, <3>1, <3>3 DEF CacheAgree, ViewAgree
      <3>6. \A f \in Fills :
              fill'[f] # Idle /\ fill'[f].room = r /\ fill'[f].read
                => (u \in fill'[f].snapshot <=> u \in member'[r])
        BY <1>2, <2>1 DEF Undisturbed
      <3>7. \A x \in Tasks :
              /\ task'[x] # Idle /\ task'[x].op = "create" /\ task'[x].room = r
              /\ task'[x].step = "done"
              => (u \in task'[x].users <=> u \in member'[r])
        BY <1>1, <1>2, <2>1 DEF Undisturbed
      <3> QED BY <2>1, <3>4, <3>5, <3>6, <3>7 DEF Undisturbed
    <2>4. CASE r # r0
      <3>1. TasksSame(r, u)
        BY <1>1, <2>4, OneTask DEF Changing
      <3>2. FillsSame(r, u) /\ DataSame(r, u)
        BY <1>2, <1>3, <2>4 DEF FillsSame, DataSame
      <3> QED BY <2>1, <3>1, <3>2, PairFrame
    <2> QED BY <2>2, <2>3, <2>4
  <1>8. Pairs'
    BY <1>7 DEF Pairs
  <1> QED BY <1>5, <1>6, <1>8 DEF IInv

LEMMA CreateAnnouncesStep ==
  ASSUME IInv, NEW t \in Tasks, CreateAnnounces(t)
  PROVE  IInv'
  <1> DEFINE r0 == task[t].room
             users == task[t].users
  <1>1. /\ task[t] \in TaskRecords /\ task[t] # Idle
        /\ task[t].op = "create" /\ task[t].step = "load"
        /\ r0 \in Rooms /\ users \in SUBSET Users /\ r0 \in DOMAIN memberCache
    BY AtType DEF IInv, CreateAnnounces, At, Structure
  <1>2. /\ task' \in [Tasks -> TaskRecords \cup {Idle}]
        /\ \A x \in Tasks \ {t} : task'[x] = task[x]
        /\ task'[t] = Idle
        /\ reply' \in [Tasks -> {"none", "SUCCESS", "ERROR_ALREADY_MEMBER", "ERROR_NOT_MEMBER",
                                 "terminated"}]
    BY EndTask DEF IInv, CreateAnnounces
  <1>3. /\ view' = [u \in Users |-> IF u \in memberCache[r0] THEN view[u] \cup {r0} ELSE view[u]]
        /\ UNCHANGED <<chats, member, memberCache, fill>>
        /\ Watch
    BY DEF CreateAnnounces
  <1>4. TypeOK'
    BY <1>1, <1>2, <1>3, WatchType DEF IInv, TypeOK
  <1>5. Structure'
    BY <1>1, <1>2, <1>3 DEF IInv, Structure
  <1>6. ASSUME NEW r \in Rooms, NEW u \in Users, <<r, u>> \notin disturbed'
        PROVE  Undisturbed(r, u)'
    <2>1. Undisturbed(r, u) /\ <<r, u>> \notin Overlaps(task, fill)'
      BY <1>3, <1>6, Watched DEF IInv
    <2>2. FillsSame(r, u)
      BY <1>3 DEF FillsSame
    <2>3. CASE r = r0 /\ u \in users
      <3>1. t \in Changing(task, r, u) /\ t \notin Changing(task, r, u)'
        BY <1>1, <1>2, <2>3 DEF Changing, Changes
      <3>2. Underway(task[t], r, u)
        BY <2>1, <3>1 DEF Undisturbed
      <3>3. u \in member[r] /\ u \in memberCache[r]
        BY <1>1, <2>3, <3>2 DEF Underway
      <3>4. CacheAgree(r, u)' /\ ViewAgree(r, u)'
        BY <1>3, <2>3, <3>3 DEF CacheAgree, ViewAgree
      <3> QED BY <1>2, <2>1, <2>2, <3>1, <3>4, ChangingEnds
    <2>4. CASE ~(r = r0 /\ u \in users)
      <3>1. t \notin Changing(task, r, u) /\ t \notin Changing(task', r, u)
        BY <1>1, <1>2, <2>4 DEF Changing
      <3>2. TasksSame(r, u)
        BY <1>2, <3>1, OneTask
      <3>3. r \in view'[u] <=> r \in view[u]
        <4>1. CASE r = r0
          <5>1. CacheAgree(r, u) /\ ViewAgree(r, u)
            BY <1>1, <2>1, <3>1, <4>1, UnderCreation
          <5> QED BY <1>1, <1>3, <4>1, <5>1 DEF CacheAgree, ViewAgree
        <4> QED BY <1>3, <4>1
      <3>4. DataSame(r, u)
        BY <1>3, <3>3 DEF DataSame
      <3> QED BY <2>1, <2>2, <3>2, <3>4, PairFrame
    <2> QED BY <2>3, <2>4
  <1>7. Pairs'
    BY <1>6 DEF Pairs
  <1> QED BY <1>4, <1>5, <1>7 DEF IInv

-----------------------------------------------------------------------------
(* The steps of ENTER_ROOM, INVITE_USER and LEAVE_ROOM: one user each. *)

\* The only user of a handler that is not a creation.
LEMMA OneUser ==
  ASSUME IInv, NEW t \in Tasks, task[t] # Idle, task[t].op # "create"
  PROVE  \E u \in Users : task[t].users = {u}
  BY DEF IInv, Structure

LEMMA InsertExecutesStep ==
  ASSUME IInv, NEW t \in Tasks, InsertExecutes(t)
  PROVE  IInv'
  <1> DEFINE r0 == task[t].room
             users == task[t].users
  <1>1. PICK step \in {"missing", "duplicate", "done"} : GoTo(t, step)
    BY DEF InsertExecutes
  <1>2. /\ task[t] \in TaskRecords /\ task[t] # Idle
        /\ task[t].op \in {"enter", "invite"} /\ task[t].step = "query"
        /\ r0 \in Rooms /\ users \in SUBSET Users
        /\ task' \in [Tasks -> TaskRecords \cup {Idle}]
        /\ \A x \in Tasks \ {t} : task'[x] = task[x]
        /\ task'[t] # Idle /\ task'[t].op = task[t].op /\ task'[t].room = r0
        /\ task'[t].users = users /\ task'[t].step = step
    <2>1. step \in Steps
      BY DEF Steps
    <2> QED BY <1>1, <2>1, MovesTask DEF InsertExecutes
  <1>3. /\ UNCHANGED <<chats, memberCache, reply, fill, view>>
        /\ Watch
    BY DEF InsertExecutes
  <1>4. PICK u0 \in Users : users = {u0}
    BY <1>2, OneUser
  <1>5. \/ step = "missing" /\ r0 \notin chats /\ UNCHANGED member
        \/ step = "duplicate" /\ users \subseteq member[r0] /\ UNCHANGED member
        \/ step = "done" /\ r0 \in chats /\ member' = [member EXCEPT ![r0] = @ \cup users]
    <2>1. \A s \in {"missing", "duplicate", "done"} : GoTo(t, s) => s = step
      <3> TAKE s \in {"missing", "duplicate", "done"}
      <3> HAVE GoTo(t, s)
      <3>1. s \in Steps
        BY DEF Steps
      <3>2. task'[t].step = s
        BY <1>2, <3>1, GoToTask DEF IInv
      <3> QED BY <1>2, <3>2
    <2> QED BY <2>1 DEF InsertExecutes
  <1>6. /\ member' \in [Rooms -> SUBSET Users]
        /\ \A r \in Rooms : member[r] \subseteq member'[r]
        /\ \A r \in Rooms, u \in Users : r # r0 \/ u # u0 => (u \in member'[r] <=> u \in member[r])
        /\ step = "done" => u0 \in member'[r0]
        /\ step # "done" => UNCHANGED member
    BY <1>2, <1>4, <1>5 DEF IInv, TypeOK
  <1>7. TypeOK'
    BY <1>2, <1>3, <1>6, WatchType DEF IInv, TypeOK
  <1>8. Structure'
    <2>1. \A r \in Rooms \ chats : member'[r] = {}
      BY <1>5, <1>2 DEF IInv, Structure, TypeOK
    <2>2. step \in {"done", "duplicate"} => r0 \in chats
      BY <1>2, <1>4, <1>5 DEF IInv, Structure
    <2> QED BY <1>2, <1>3, <1>4, <2>1, <2>2 DEF IInv, Structure
  <1>9. ASSUME NEW r \in Rooms, NEW u \in Users, <<r, u>> \notin disturbed'
        PROVE  Undisturbed(r, u)'
    <2>1. Undisturbed(r, u) /\ <<r, u>> \notin Overlaps(task, fill)'
      BY <1>3, <1>9, Watched DEF IInv
    <2>2. FillsSame(r, u)
      BY <1>3 DEF FillsSame
    <2>3. CASE r = r0 /\ u = u0 /\ step = "done"
      <3>1. t \in Changing(task, r, u)'
        BY <1>2, <1>4, <2>3 DEF Changing, Changes
      <3>2. Underway(task[t], r, u)'
        BY <1>2, <1>6, <2>3 DEF Underway
      <3> QED BY <2>1, <3>1, <3>2, ChangingAfter
    <2>4. CASE r = r0 /\ u = u0 /\ step # "done"
      <3>1. t \in Changing(task, r, u) /\ t \notin Changing(task, r, u)'
        BY <1>2, <1>4, <2>4 DEF Changing, Changes
      <3>2. CacheAgree(r, u) /\ ViewAgree(r, u)
        BY <1>2, <2>1, <3>1 DEF Undisturbed, Underway
      <3>3. CacheAgree(r, u)' /\ ViewAgree(r, u)'
        BY <1>3, <1>6, <2>4, <3>2 DEF CacheAgree, ViewAgree
      <3> QED BY <1>2, <2>1, <2>2, <3>1, <3>3, ChangingEnds
    <2>5. CASE ~(r = r0 /\ u = u0)
      <3>1. TasksSame(r, u)
        BY <1>2, <1>4, <2>5, OneTask DEF Changing
      <3>2. DataSame(r, u)
        BY <1>3, <1>6, <2>5 DEF DataSame
      <3> QED BY <2>1, <2>2, <3>1, <3>2, PairFrame
    <2> QED BY <2>3, <2>4, <2>5
  <1>10. Pairs'
    BY <1>9 DEF Pairs
  <1> QED BY <1>7, <1>8, <1>10 DEF IInv

LEMMA InsertResumesStep ==
  ASSUME IInv, NEW t \in Tasks, InsertResumes(t)
  PROVE  IInv'
  <1> DEFINE r0 == task[t].room
             users == task[t].users
  <1>1. /\ task[t] \in TaskRecords /\ task[t] # Idle
        /\ task[t].op \in {"enter", "invite"} /\ task[t].step = "done"
        /\ r0 \in Rooms /\ users \in SUBSET Users
        /\ task' \in [Tasks -> TaskRecords \cup {Idle}]
        /\ \A x \in Tasks \ {t} : task'[x] = task[x]
        /\ task'[t] # Idle /\ task'[t].op = task[t].op /\ task'[t].room = r0
        /\ task'[t].users = users /\ task'[t].step = "load"
    BY MovesTask DEF InsertResumes, Steps
  <1>2. PICK u0 \in Users : users = {u0}
    BY <1>1, OneUser
  <1>3. /\ CacheAdd(r0, u0)
        /\ UNCHANGED <<chats, member, reply, fill, view>>
        /\ Watch
    BY <1>2 DEF InsertResumes
  <1>4. /\ DOMAIN memberCache' = DOMAIN memberCache
        /\ memberCache' \in [DOMAIN memberCache' -> SUBSET Users]
        /\ \A x \in DOMAIN memberCache \ {r0} : memberCache'[x] = memberCache[x]
        /\ \A v \in Users \ {u0} :
             r0 \in DOMAIN memberCache => (v \in memberCache'[r0] <=> v \in memberCache[r0])
    BY <1>1, <1>3, CacheUpdates DEF IInv
  <1>5. r0 \in DOMAIN memberCache' => u0 \in memberCache'[r0]
    BY <1>3, <1>4 DEF CacheAdd, MapSet
  <1>6. TypeOK'
    BY <1>1, <1>3, <1>4, WatchType DEF IInv, TypeOK
  <1>7. Structure'
    BY <1>1, <1>2, <1>3, <1>4 DEF IInv, Structure
  <1>8. ASSUME NEW r \in Rooms, NEW u \in Users, <<r, u>> \notin disturbed'
        PROVE  Undisturbed(r, u)'
    <2>1. Undisturbed(r, u) /\ <<r, u>> \notin Overlaps(task, fill)'
      BY <1>3, <1>8, Watched DEF IInv
    <2>2. CASE r = r0 /\ u = u0
      <3>1. t \in Changing(task, r, u) /\ t \in Changing(task, r, u)'
        BY <1>1, <1>2, <2>2 DEF Changing, Changes
      <3>2. u \in member[r]
        BY <1>1, <2>1, <3>1 DEF Undisturbed, Underway
      <3>3. Underway(task[t], r, u)'
        BY <1>1, <1>3, <1>5, <2>2, <3>2 DEF Underway
      <3> QED BY <2>1, <3>1, <3>3, ChangingAfter
    <2>3. CASE ~(r = r0 /\ u = u0)
      <3>1. TasksSame(r, u)
        BY <1>1, <1>2, <2>3, OneTask DEF Changing
      <3>2. DataSame(r, u) /\ FillsSame(r, u)
        BY <1>3, <1>4, <2>3 DEF DataSame, FillsSame
      <3> QED BY <2>1, <3>1, <3>2, PairFrame
    <2> QED BY <2>2, <2>3
  <1>9. Pairs'
    BY <1>8 DEF Pairs
  <1> QED BY <1>6, <1>7, <1>9 DEF IInv

LEMMA DeleteExecutesStep ==
  ASSUME IInv, NEW t \in Tasks, DeleteExecutes(t)
  PROVE  IInv'
  <1> DEFINE r0 == task[t].room
             users == task[t].users
  <1>1. PICK step \in {"done", "nobody"} : GoTo(t, step)
    BY DEF DeleteExecutes
  <1>2. /\ task[t] \in TaskRecords /\ task[t] # Idle
        /\ task[t].op = "leave" /\ task[t].step = "query"
        /\ r0 \in Rooms /\ users \in SUBSET Users
        /\ task' \in [Tasks -> TaskRecords \cup {Idle}]
        /\ \A x \in Tasks \ {t} : task'[x] = task[x]
        /\ task'[t] # Idle /\ task'[t].op = task[t].op /\ task'[t].room = r0
        /\ task'[t].users = users /\ task'[t].step = step
    <2>1. step \in Steps
      BY DEF Steps
    <2> QED BY <1>1, <2>1, MovesTask DEF DeleteExecutes
  <1>3. /\ UNCHANGED <<chats, memberCache, reply, fill, view>>
        /\ Watch
    BY DEF DeleteExecutes
  <1>4. PICK u0 \in Users : users = {u0}
    BY <1>2, OneUser
  <1>5. \/ step = "nobody" /\ ~(users \subseteq member[r0]) /\ UNCHANGED member
        \/ step = "done" /\ users \subseteq member[r0] /\ member' = [member EXCEPT ![r0] = @ \ users]
    <2>1. \A s \in {"done", "nobody"} : GoTo(t, s) => s = step
      <3> TAKE s \in {"done", "nobody"}
      <3> HAVE GoTo(t, s)
      <3>1. s \in Steps
        BY DEF Steps
      <3>2. task'[t].step = s
        BY <1>2, <3>1, GoToTask DEF IInv
      <3> QED BY <1>2, <3>2
    <2> QED BY <2>1 DEF DeleteExecutes
  <1>6. /\ member' \in [Rooms -> SUBSET Users]
        /\ \A r \in Rooms : member'[r] \subseteq member[r]
        /\ \A r \in Rooms, u \in Users : r # r0 \/ u # u0 => (u \in member'[r] <=> u \in member[r])
        /\ u0 \notin member'[r0]
        /\ step # "done" => UNCHANGED member
    BY <1>2, <1>4, <1>5 DEF IInv, TypeOK
  <1>7. TypeOK'
    BY <1>2, <1>3, <1>6, WatchType DEF IInv, TypeOK
  <1>8. Structure'
    <2>1. \A r \in Rooms \ chats : member'[r] = {}
      BY <1>6 DEF IInv, Structure
    <2>2. step = "done" => r0 \in chats
      BY <1>2, <1>4, <1>5 DEF IInv, Structure
    <2> QED BY <1>2, <1>3, <1>4, <2>1, <2>2 DEF IInv, Structure
  <1>9. ASSUME NEW r \in Rooms, NEW u \in Users, <<r, u>> \notin disturbed'
        PROVE  Undisturbed(r, u)'
    <2>1. Undisturbed(r, u) /\ <<r, u>> \notin Overlaps(task, fill)'
      BY <1>3, <1>9, Watched DEF IInv
    <2>2. FillsSame(r, u)
      BY <1>3 DEF FillsSame
    <2>3. CASE r = r0 /\ u = u0
      <3>1. t \in Changing(task, r, u)
        BY <1>2, <1>4, <2>3 DEF Changing, Changes
      <3>2. (r \in DOMAIN memberCache => u \notin memberCache[r]) /\ ViewAgree(r, u)
        BY <1>2, <2>1, <3>1 DEF Undisturbed, Underway
      <3>3. CASE step = "done"
        <4>1. t \in Changing(task, r, u)'
          BY <1>2, <1>4, <2>3, <3>3 DEF Changing, Changes
        <4>2. Underway(task[t], r, u)'
          BY <1>2, <1>3, <1>6, <2>3, <3>2, <3>3 DEF Underway
        <4> QED BY <2>1, <4>1, <4>2, ChangingAfter
      <3>4. CASE step = "nobody"
        <4>1. t \notin Changing(task, r, u)'
          BY <1>2, <3>4 DEF Changing
        <4>2. CacheAgree(r, u)' /\ ViewAgree(r, u)'
          BY <1>3, <1>6, <2>3, <3>2, <3>4 DEF CacheAgree, ViewAgree
        <4> QED BY <1>2, <2>1, <2>2, <3>1, <4>1, <4>2, ChangingEnds
      <3> QED BY <3>3, <3>4
    <2>4. CASE ~(r = r0 /\ u = u0)
      <3>1. TasksSame(r, u)
        BY <1>2, <1>4, <2>4, OneTask DEF Changing
      <3>2. DataSame(r, u)
        BY <1>3, <1>6, <2>4 DEF DataSame
      <3> QED BY <2>1, <2>2, <3>1, <3>2, PairFrame
    <2> QED BY <2>3, <2>4
  <1>10. Pairs'
    BY <1>9 DEF Pairs
  <1> QED BY <1>7, <1>8, <1>10 DEF IInv

\* The notices of an insertion, and of a leave.
LEMMA AnnouncesStep ==
  ASSUME IInv, NEW t \in Tasks, InsertAnnounces(t) \/ LeaveAnnounces(t)
  PROVE  IInv'
  <1> DEFINE r0 == task[t].room
             users == task[t].users
  <1>1. /\ task[t] \in TaskRecords /\ task[t] # Idle
        /\ task[t].op \in {"enter", "invite", "leave"}
        /\ task[t].step = IF task[t].op = "leave" THEN "done" ELSE "load"
        /\ r0 \in Rooms /\ users \in SUBSET Users /\ r0 \in chats
        /\ task' \in [Tasks -> TaskRecords \cup {Idle}]
        /\ \A x \in Tasks \ {t} : task'[x] = task[x]
        /\ task'[t] # Idle /\ task'[t].op = task[t].op /\ task'[t].room = r0
        /\ task'[t].users = users /\ task'[t].step = "post"
    <2>1. CASE InsertAnnounces(t)
      <3>1. At(t, {"enter", "invite"}, "load") /\ GoTo(t, "post") /\ "post" \in Steps
        BY <2>1 DEF InsertAnnounces, Steps
      <3> QED BY <3>1, MovesTask DEF IInv, Structure
    <2>2. CASE LeaveAnnounces(t)
      <3>1. At(t, {"leave"}, "done") /\ GoTo(t, "post") /\ "post" \in Steps
        BY <2>2 DEF LeaveAnnounces, Steps
      <3> QED BY <3>1, MovesTask DEF IInv, Structure
    <2> QED BY <2>1, <2>2
  <1>2. PICK u0 \in Users : users = {u0}
    BY <1>1, OneUser
  <1>3. /\ Multicast(r0, memberCache)
        /\ UNCHANGED <<chats, member, memberCache, reply>>
        /\ Watch
        /\ view' = [u \in Users |->
                      IF u # u0 THEN view[u]
                      ELSE IF task[t].op = "leave" THEN view[u] \ {r0} ELSE view[u] \cup {r0}]
    <2>1. CASE InsertAnnounces(t)
      BY <1>2, <2>1 DEF InsertAnnounces, At
    <2>2. CASE LeaveAnnounces(t)
      BY <1>2, <2>2 DEF LeaveAnnounces, At
    <2> QED BY <2>1, <2>2
  <1>4. /\ fill' \in [Fills -> FillRecords \cup {Idle}]
        /\ \A f \in Fills : fill'[f] # fill[f] =>
             fill'[f] # Idle /\ fill'[f].room \in chats /\ ~fill'[f].read
    BY <1>1, <1>3, MulticastFill DEF IInv
  <1>5. TypeOK'
    BY <1>1, <1>3, <1>4, WatchType DEF IInv, TypeOK
  <1>6. Structure'
    BY <1>1, <1>2, <1>3, <1>4 DEF IInv, Structure
  <1>7. ASSUME NEW r \in Rooms, NEW u \in Users, <<r, u>> \notin disturbed'
        PROVE  Undisturbed(r, u)'
    <2>1. Undisturbed(r, u) /\ <<r, u>> \notin Overlaps(task, fill)'
      BY <1>3, <1>7, Watched DEF IInv
    <2>2. FillsSame(r, u)
      BY <1>4 DEF FillsSame
    <2>3. CASE r = r0 /\ u = u0
      <3>1. t \in Changing(task, r, u) /\ t \notin Changing(task, r, u)'
        BY <1>1, <1>2, <2>3 DEF Changing, Changes
      <3>2. Underway(task[t], r, u)
        BY <2>1, <3>1 DEF Undisturbed
      <3>3. /\ task[t].op = "leave" => u \notin member[r]
            /\ task[t].op # "leave" => u \in member[r]
            /\ CacheAgree(r, u)
        BY <1>1, <3>2 DEF Underway, CacheAgree
      <3>4. CacheAgree(r, u)' /\ ViewAgree(r, u)'
        BY <1>3, <2>3, <3>3 DEF CacheAgree, ViewAgree
      <3> QED BY <1>1, <2>1, <2>2, <3>1, <3>4, ChangingEnds
    <2>4. CASE ~(r = r0 /\ u = u0)
      <3>1. TasksSame(r, u)
        BY <1>1, <1>2, <2>4, OneTask DEF Changing
      <3>2. r \in view'[u] <=> r \in view[u]
        BY <1>3, <2>4
      <3>3. DataSame(r, u)
        BY <1>3, <3>2 DEF DataSame
      <3> QED BY <2>1, <2>2, <3>1, <3>3, PairFrame
    <2> QED BY <2>3, <2>4
  <1>8. Pairs'
    BY <1>7 DEF Pairs
  <1> QED BY <1>5, <1>6, <1>8 DEF IInv

-----------------------------------------------------------------------------
(* The reads of a member set. *)

LEMMA FillReadsStep ==
  ASSUME IInv, NEW f \in Fills, FillReads(f)
  PROVE  IInv'
  <1> DEFINE r0 == fill[f].room
  <1>1. /\ fill[f] \in FillRecords /\ fill[f] # Idle /\ ~fill[f].read
        /\ r0 \in Rooms
        /\ UNCHANGED <<chats, member, memberCache, task, reply, view>>
        /\ Watch
    BY DEF FillReads, IInv, TypeOK, FillRecords
  <1> DEFINE q == [fill[f] EXCEPT !.read = TRUE, !.snapshot = member[r0]]
  <1>2. q \in FillRecords /\ q.room = r0 /\ q.snapshot = member[r0]
    BY <1>1 DEF IInv, TypeOK, FillRecords
  <1>3. \A g \in Fills : fill'[g] = IF g = f THEN q ELSE fill[g]
    BY <1>1 DEF FillReads, IInv, TypeOK
  <1>4. fill' \in [Fills -> FillRecords \cup {Idle}]
    BY <1>1, <1>2 DEF FillReads, IInv, TypeOK
  <1>5. TypeOK'
    BY <1>1, <1>4, WatchType DEF IInv, TypeOK
  <1>6. Structure'
    <2>1. \A g \in Fills : fill'[g] # Idle => fill'[g].room \in chats
      BY <1>1, <1>2, <1>3 DEF IInv, Structure
    <2> QED BY <1>1, <2>1 DEF IInv, Structure
  <1>7. ASSUME NEW r \in Rooms, NEW u \in Users, <<r, u>> \notin disturbed'
        PROVE  Undisturbed(r, u)'
    <2>1. Undisturbed(r, u) /\ <<r, u>> \notin Overlaps(task, fill)'
      BY <1>1, <1>7, Watched DEF IInv
    <2>2. FillsSame(r, u)
      <3>1. \A g \in Fills : fill'[g] # fill[g] => fill'[g] = q
        BY <1>3
      <3>2. member'[r0] = member[r0]
        BY <1>1
      <3> HIDE DEF q, r0
      <3>3. ASSUME NEW g \in Fills, fill'[g].room = r, fill'[g] # fill[g]
            PROVE  u \in fill'[g].snapshot <=> u \in member'[r]
        BY <1>2, <3>1, <3>2, <3>3
      <3> QED BY <3>3 DEF FillsSame
    <2>3. TasksSame(r, u) /\ DataSame(r, u)
      BY <1>1 DEF TasksSame, DataSame
    <2> QED BY <2>1, <2>2, <2>3, PairFrame
  <1>8. Pairs'
    BY <1>7 DEF Pairs
  <1> QED BY <1>5, <1>6, <1>8 DEF IInv

LEMMA FillResumesStep ==
  ASSUME IInv, NEW f \in Fills, FillResumes(f)
  PROVE  IInv'
  <1> DEFINE r0 == fill[f].room
             S == fill[f].snapshot
  <1>1. /\ fill[f] \in FillRecords /\ fill[f] # Idle /\ fill[f].read
        /\ r0 \in Rooms /\ S \in SUBSET Users
        /\ memberCache' = MapSet(memberCache, r0, S)
        /\ UNCHANGED <<chats, member, task, reply, view>>
        /\ Watch
    BY DEF FillResumes, IInv, TypeOK, FillRecords
  <1>2. /\ fill' \in [Fills -> FillRecords \cup {Idle}]
        /\ \A g \in Fills : fill'[g] # Idle => fill'[g] = fill[g]
    BY DEF FillResumes, IInv, TypeOK
  <1>3. /\ DOMAIN memberCache' \subseteq Rooms
        /\ memberCache' \in [DOMAIN memberCache' -> SUBSET Users]
        /\ DOMAIN memberCache' = DOMAIN memberCache \cup {r0}
        /\ memberCache'[r0] = S
        /\ \A x \in DOMAIN memberCache \ {r0} : memberCache'[x] = memberCache[x]
    BY <1>1, CacheType DEF IInv
  <1>4. TypeOK'
    BY <1>1, <1>2, <1>3, WatchType DEF IInv, TypeOK
  <1>5. Structure'
    BY <1>1, <1>2, <1>3 DEF IInv, Structure
  <1>6. ASSUME NEW r \in Rooms, NEW u \in Users, <<r, u>> \notin disturbed'
        PROVE  Undisturbed(r, u)'
    <2>1. Undisturbed(r, u) /\ <<r, u>> \notin Overlaps(task, fill)'
      BY <1>1, <1>6, Watched DEF IInv
    <2>2. FillsSame(r, u)
      BY <1>2 DEF FillsSame
    <2>3. TasksSame(r, u)
      BY <1>1 DEF TasksSame
    <2>4. CASE r # r0
      <3>1. DataSame(r, u)
        BY <1>1, <1>3, <2>4 DEF DataSame
      <3> QED BY <2>1, <2>2, <2>3, <3>1, PairFrame
    <2>5. CASE r = r0
      <3>1. f \in Reading(fill, r) /\ <<r, u>> \notin Overlaps(task, fill)
        BY <1>1, <2>1, <2>5 DEF Reading, Undisturbed
      <3>2. Changing(task, r, u) = {}
        BY <3>1, Alone
      <3>3. Changing(task, r, u)' = {}
        BY <1>1, <3>2 DEF Changing
      <3>4. u \in S <=> u \in member[r]
        BY <1>1, <2>1, <2>5 DEF Undisturbed
      <3>5. CacheAgree(r, u)' /\ ViewAgree(r, u)'
        BY <1>1, <1>3, <2>1, <2>5, <3>2, <3>4 DEF CacheAgree, ViewAgree, Undisturbed
      <3>6. \A g \in Fills :
              fill'[g] # Idle /\ fill'[g].room = r /\ fill'[g].read
                => (u \in fill'[g].snapshot <=> u \in member'[r])
        BY <1>1, <1>2, <2>1 DEF Undisturbed
      <3>7. \A x \in Tasks :
              /\ task'[x] # Idle /\ task'[x].op = "create" /\ task'[x].room = r
              /\ task'[x].step = "done"
              => (u \in task'[x].users <=> u \in member'[r])
        BY <1>1, <2>1 DEF Undisturbed
      <3> QED BY <2>1, <3>3, <3>5, <3>6, <3>7 DEF Undisturbed
    <2> QED BY <2>4, <2>5
  <1>7. Pairs'
    BY <1>6 DEF Pairs
  <1> QED BY <1>4, <1>5, <1>7 DEF IInv

-----------------------------------------------------------------------------

LEMMA NextIInv ==
  ASSUME IInv, [Next]_vars
  PROVE  IInv'
  <1>1. CASE UNCHANGED vars
    <2>1. TypeOK'
      BY <1>1 DEF IInv, TypeOK, vars
    <2>2. Structure'
      BY <1>1 DEF IInv, Structure, vars
    <2>3. ASSUME NEW r \in Rooms, NEW u \in Users, <<r, u>> \notin disturbed'
          PROVE  Undisturbed(r, u)'
      <3>1. Undisturbed(r, u)
        BY <1>1, <2>3 DEF IInv, Pairs, vars
      <3>2. Overlaps(task, fill)' = Overlaps(task, fill)
        BY <1>1 DEF Overlaps, Changing, Reading, vars
      <3>3. <<r, u>> \notin Overlaps(task, fill)'
        BY <3>1, <3>2 DEF Undisturbed
      <3>4. TasksSame(r, u) /\ FillsSame(r, u) /\ DataSame(r, u)
        BY <1>1 DEF TasksSame, FillsSame, DataSame, vars
      <3> QED BY <3>1, <3>3, <3>4, PairFrame
    <2>4. Pairs'
      BY <2>3 DEF Pairs
    <2> QED BY <2>1, <2>2, <2>4 DEF IInv
  <1>2. ASSUME NEW t \in Tasks, NEW r \in Rooms, NEW users \in SUBSET Users,
               BeginCreateRoom(t, r, users)
        PROVE  IInv'
    BY <1>2, BeginCreateRoomStep
  <1>3. ASSUME NEW t \in Tasks, NEW r \in Rooms, NEW u \in Users,
               \/ \E op \in {"enter", "invite"} : BeginInsert(t, op, r, u)
               \/ BeginLeaveRoom(t, r, u)
               \/ BeginChatMessage(t, r, u)
        PROVE  IInv'
    BY <1>3, BeginInsertStep, BeginLeaveRoomStep, BeginChatMessageStep
  <1>4. ASSUME NEW t \in Tasks,
               \/ CreateCommits(t) \/ CreateResumes(t) \/ CreateAnnounces(t)
               \/ InsertExecutes(t) \/ InsertResumes(t) \/ InsertRefused(t)
               \/ EnterThrows(t) \/ InsertAnnounces(t)
               \/ DeleteExecutes(t) \/ LeaveAnnounces(t) \/ LeaveRefused(t)
               \/ MessagePosted(t) \/ MessageThrows(t) \/ QueryFails(t)
        PROVE  IInv'
    BY <1>4, CreateCommitsStep, CreateResumesStep, CreateAnnouncesStep, InsertExecutesStep,
       InsertResumesStep, AnnouncesStep, DeleteExecutesStep, EndingStep, QueryFailsStep
  <1>5. ASSUME NEW f \in Fills, FillReads(f) \/ FillResumes(f)
        PROVE  IInv'
    BY <1>5, FillReadsStep, FillResumesStep
  <1>6. CASE Restart
    BY <1>6, RestartStep
  <1> QED BY <1>1, <1>2, <1>3, <1>4, <1>5, <1>6 DEF Next

\* The invariant is inductive.
THEOREM Invariance == Spec => []IInv
  BY InitIInv, NextIInv, PTL DEF Spec

\* Every variable keeps its type (TypeOK).
THEOREM TypeCorrect == Spec => []TypeOK
  <1>1. IInv => TypeOK
    BY DEF IInv
  <1> QED BY <1>1, Invariance, PTL

\* An undisturbed pair agrees in the cache and the rows: chat.service's
\* insertChatMember, deleteChatMember and getChatMemberSet keep it so whatever
\* is in flight for other rooms and users.
THEOREM CacheIsExact == Spec => []CacheAgrees
  <1>1. IInv => CacheAgrees
    BY DEF IInv, CacheAgrees, Pairs, Settled, Undisturbed, CacheAgree, TypeOK
  <1> QED BY <1>1, Invariance, PTL

\* And in what the client was told: the notices of ENTER_ROOM, INVITE_USER,
\* LEAVE_ROOM and CREATE_ROOM leave it with the rooms it is a member of.
THEOREM ViewIsExact == Spec => []ViewAgrees
  <1>1. IInv => ViewAgrees
    BY DEF IInv, ViewAgrees, Pairs, Settled, Undisturbed, ViewAgree
  <1> QED BY <1>1, Invariance, PTL
=============================================================================
