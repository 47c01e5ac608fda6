------------------------ MODULE OutboundEnqueueProofs ------------------------
(***************************************************************************)
(* Proofs about OutboundEnqueue, for any number of calls, keys, processes, *)
(* endpoints and admin changes and any TTL and latency.                    *)
(*                                                                         *)
(* Three invariants are needed: the types, with the process of every call  *)
(* known; how old a stale cache entry or a row in flight can be; and who   *)
(* holds the unique key of which delivery.                                 *)
(***************************************************************************)
EXTENDS OutboundEnqueue, TLAPS

(* The values of an item depend on the item, so that these three functions *)
(* have no common range; that they are functions is said separately.       *)
Shaped ==
    /\ db = [i \in Items |-> db[i]]
    /\ cache = [p \in Procs |-> [i \in Items |-> cache[p][i]]]
    /\ got = [r \in Requests |-> got[r]]

(* A call that looks items up is served by a process.                      *)
Homed == \A r \in Requests : pc[r] \in Items => local[r].home \in Procs

(* The statement inserts rows of the endpoints it was built for.           *)
Planned == \A r \in Requests : pc[r] = "insert" => local[r].next \in local[r].plan

TypeInv == TypeOK /\ Shaped /\ Homed /\ Planned

-----------------------------------------------------------------------------
(* Types                                                                   *)

(* The variables start with their types.                                   *)
LEMMA TypeInit == Init => TypeInv
<1> SUFFICES ASSUME Init
             PROVE  TypeInv
    OBVIOUS
<1>1. /\ db = [i \in Items |-> db[i]]
      /\ \A i \in Items : db[i] \in Values(i)
    BY RowsAssumption DEF Init
<1>2. cache = [p \in Procs |-> [i \in Items |-> None]]
    BY DEF Init, NoEntries
<1>3. cache = [p \in Procs |-> [i \in Items |-> cache[p][i]]]
    BY <1>2
<1>4. \A p \in Procs, i \in Items : cache[p][i] = None
    BY <1>2
<1>5. got = [r \in Requests |-> got[r]] /\ \A r \in Requests : got[r] = None
    BY DEF Init
<1>6. /\ age \in [Items -> 0..Horizon]
      /\ by \in [Items -> Procs \cup {None}]
      /\ changes \in 0..MaxChanges
      /\ inval \in [Procs -> [Items -> Nat]]
    BY BoundsAssumption DEF Init, Horizon
<1>7. /\ pc \in [Requests -> Stages]
      /\ \A r \in Requests : pc[r] \notin Items /\ pc[r] # "insert"
    BY DEF Init, Stages, Items
<1>8. NoLocal \in Local
    BY BoundsAssumption DEF NoLocal, Local
<1>9. local \in [Requests -> Local] /\ answer \in [Requests -> Answer]
    BY <1>8 DEF Init, Answer, Codes
<1>. QED
    BY <1>1, <1>3, <1>4, <1>5, <1>6, <1>7, <1>9 DEF Init, TypeInv, TypeOK, Shaped, Homed, Planned

(* A call that ends has no locals and an answer.                           *)
LEMMA FinishFacts ==
    ASSUME TypeOK, NEW r \in Requests, NEW code \in Codes, NEW ds \in SUBSET Delivery,
           Finish(r, code, ds)
    PROVE  /\ pc' = [pc EXCEPT ![r] = "done"]
           /\ pc' \in [Requests -> Stages]
           /\ local' = [local EXCEPT ![r] = NoLocal]
           /\ local' \in [Requests -> Local]
           /\ answer' = [answer EXCEPT ![r] = [code |-> code, deliveries |-> ds]]
           /\ answer' \in [Requests -> Answer]
<1>1. NoLocal \in Local
    BY BoundsAssumption DEF NoLocal, Local
<1>2. [code |-> code, deliveries |-> ds] \in Answer
    BY DEF Answer
<1>. QED
    BY <1>1, <1>2 DEF TypeOK, Finish, Goto, Stages

(* The value of an item takes the call one stage further, or ends it.      *)
LEMMA UseFacts ==
    ASSUME TypeOK, NEW r \in Requests, pc[r] \in Items, NEW v \in Values(pc[r]),
           NEW hit \in BOOLEAN, Use(r, v, hit)
    PROVE  /\ pc' \in [Requests -> Stages]
           /\ local' \in [Requests -> Local]
           /\ answer' \in [Requests -> Answer]
           /\ pc' = [pc EXCEPT ![r] = pc'[r]]
           /\ local' = [local EXCEPT ![r] = local'[r]]
           /\ \/ /\ pc'[r] \in {"schema", "endpoints"}
                 /\ local'[r].home = local[r].home
                 /\ local'[r].inserted = local[r].inserted
                 /\ answer' = answer
              \/ /\ pc'[r] = "insert"
                 /\ local'[r].next \in local'[r].plan
                 /\ local'[r].inserted = local[r].inserted
                 /\ answer' = answer
              \/ /\ pc'[r] = "done"
                 /\ local'[r] = NoLocal
                 /\ answer' = [answer EXCEPT ![r] = [code |-> "refused", deliveries |-> {}]]
<1>0. local[r] \in Local /\ Latency \in Nat
    BY BoundsAssumption DEF TypeOK
<1>1. CASE Finish(r, "refused", {})
    <2>1. "refused" \in Codes /\ {} \in SUBSET Delivery
        BY DEF Codes
    <2>. QED
        BY <1>1, <2>1, FinishFacts DEF TypeOK
<1>2. CASE /\ pc[r] = "partner" /\ Goto(r, "schema")
           /\ local' = [local EXCEPT ![r].waited = 0, ![r].from_cache = hit]
           /\ UNCHANGED answer
    <2> DEFINE first == [local[r] EXCEPT !.waited = 0]
               new   == [first EXCEPT !.from_cache = hit]
    <2>0. local' = [local EXCEPT ![r] = new]
        BY <1>2
    <2>1. /\ first \in Local
          /\ first.home = local[r].home /\ first.inserted = local[r].inserted
        BY <1>0 DEF Local
    <2> HIDE DEF first
    <2>2. /\ new \in Local
          /\ new.home = local[r].home /\ new.inserted = local[r].inserted
        BY <2>1 DEF Local
    <2> HIDE DEF new
    <2>3. local' \in [Requests -> Local] /\ local'[r] = new
        BY <2>0, <2>2 DEF TypeOK
    <2>. QED
        BY <1>2, <2>0, <2>2, <2>3 DEF TypeOK, Goto, Stages, Items
<1>3. CASE /\ pc[r] = "schema" /\ Goto(r, "endpoints")
           /\ local' = [local EXCEPT ![r].waited = 0]
           /\ UNCHANGED answer
    <2> DEFINE new == [local[r] EXCEPT !.waited = 0]
    <2>1. /\ new \in Local
          /\ new.home = local[r].home /\ new.inserted = local[r].inserted
        BY <1>0 DEF Local
    <2>2. local' = [local EXCEPT ![r] = new]
        BY <1>3
    <2> HIDE DEF new
    <2>3. local' \in [Requests -> Local] /\ local'[r] = new
        BY <2>1, <2>2 DEF TypeOK
    <2>. QED
        BY <1>3, <2>1, <2>2, <2>3 DEF TypeOK, Goto, Stages, Items
<1>4. ASSUME pc[r] = "endpoints", Goto(r, "insert"), NEW e \in v,
             local' = [local EXCEPT ![r].waited = 0, ![r].plan = v, ![r].next = e],
             UNCHANGED answer
      PROVE  /\ pc' \in [Requests -> Stages]
             /\ local' \in [Requests -> Local]
             /\ pc' = [pc EXCEPT ![r] = "insert"]
             /\ local' = [local EXCEPT ![r] = local'[r]]
             /\ pc'[r] = "insert"
             /\ local'[r].next \in local'[r].plan
             /\ local'[r].inserted = local[r].inserted
    <2>1. v \in SUBSET Endpoints
        BY <1>4 DEF Values, EndpointList
    <2> DEFINE first  == [local[r] EXCEPT !.waited = 0]
               second == [first EXCEPT !.plan = v]
               new    == [second EXCEPT !.next = e]
    <2>2. local' = [local EXCEPT ![r] = new]
        BY <1>4
    <2>3. first \in Local /\ first.inserted = local[r].inserted
        BY <1>0 DEF Local
    <2> HIDE DEF first
    <2>4. second \in Local /\ second.plan = v /\ second.inserted = local[r].inserted
        BY <2>1, <2>3 DEF Local
    <2> HIDE DEF second
    <2>5. /\ new \in Local
          /\ new.next = e /\ new.plan = v /\ new.inserted = local[r].inserted
        BY <1>4, <2>1, <2>4 DEF Local
    <2> HIDE DEF new
    <2>6. local' \in [Requests -> Local] /\ local'[r] = new
        BY <2>2, <2>5 DEF TypeOK
    <2>. QED
        BY <1>4, <2>2, <2>5, <2>6 DEF TypeOK, Goto, Stages
<1>5. answer' = answer => answer' \in [Requests -> Answer]
    BY DEF TypeOK
<1>. QED
    BY <1>1, <1>2, <1>3, <1>4, <1>5 DEF Use

(* A row is inserted, and the statement goes on or is complete.            *)
LEMMA InsertFacts ==
    ASSUME TypeInv, NEW r \in Requests, InsertRow(r)
    PROVE  /\ pc' \in [Requests -> Stages]
           /\ local' \in [Requests -> Local]
           /\ pc' = [pc EXCEPT ![r] = pc'[r]]
           /\ local' = [local EXCEPT ![r] = local'[r]]
           /\ pc'[r] = "commit" \/ (pc'[r] = "insert" /\ local'[r].next \in local'[r].plan)
           /\ local'[r].inserted = local[r].inserted \cup {local[r].next}
<1> DEFINE done  == local[r].inserted \cup {local[r].next}
           first == [local[r] EXCEPT !.inserted = done]
<1>1. pc[r] = "insert" /\ local[r] \in Local
    BY DEF InsertRow, TypeInv, TypeOK
<1>2. local[r].next \in local[r].plan
    BY <1>1 DEF TypeInv, Planned
<1>3. done \in SUBSET Endpoints
    BY <1>1, <1>2 DEF Local
<1>4. first \in Local /\ first.inserted = done /\ first.plan = local[r].plan
    BY <1>1, <1>3 DEF Local
<1>5. ASSUME NEW e \in (local[r].plan \ done) \cup {None},
             local' = [local EXCEPT ![r].inserted = done, ![r].next = e]
      PROVE  /\ local' \in [Requests -> Local]
             /\ local' = [local EXCEPT ![r] = local'[r]]
             /\ local'[r].next = e
             /\ local'[r].plan = local[r].plan
             /\ local'[r].inserted = done
    <2> DEFINE new == [first EXCEPT !.next = e]
    <2>1. local' = [local EXCEPT ![r] = new]
        BY <1>5
    <2> HIDE DEF first, done
    <2>2. e \in Endpoints \cup {None}
        BY <1>1, <1>5 DEF Local
    <2>3. new \in Local /\ new.next = e /\ new.inserted = done /\ new.plan = local[r].plan
        BY <1>4, <2>2 DEF Local
    <2> HIDE DEF new
    <2>4. local'[r] = new
        BY <2>1 DEF TypeInv, TypeOK
    <2>. QED
        BY <2>1, <2>3, <2>4 DEF TypeInv, TypeOK
<1>6. \/ /\ pc' = [pc EXCEPT ![r] = "commit"]
         /\ local' = [local EXCEPT ![r].inserted = done, ![r].next = None]
      \/ /\ pc' = pc
         /\ \E e \in local[r].plan \ done :
               local' = [local EXCEPT ![r].inserted = done, ![r].next = e]
    BY DEF InsertRow, Goto
<1> HIDE DEF done, first
<1>7. pc \in [Requests -> Stages] /\ "commit" \in Stages
    BY DEF TypeInv, TypeOK, Stages
<1>8. CASE /\ pc' = [pc EXCEPT ![r] = "commit"]
           /\ local' = [local EXCEPT ![r].inserted = done, ![r].next = None]
    BY <1>5, <1>7, <1>8 DEF done
<1>9. ASSUME pc' = pc, NEW e \in local[r].plan \ done,
             local' = [local EXCEPT ![r].inserted = done, ![r].next = e]
      PROVE  /\ local' \in [Requests -> Local]
             /\ local' = [local EXCEPT ![r] = local'[r]]
             /\ pc'[r] = "insert" /\ local'[r].next \in local'[r].plan
             /\ local'[r].inserted = done
    BY <1>1, <1>5, <1>9
<1>. QED
    BY <1>6, <1>7, <1>8, <1>9 DEF done

(* After a lost race the rows of the statement are gone.                   *)
LEMMA RacedFacts ==
    ASSUME TypeOK, NEW r \in Requests,
           local' = [local EXCEPT ![r].inserted = {}, ![r].next = None]
    PROVE  /\ local' \in [Requests -> Local]
           /\ local' = [local EXCEPT ![r] = local'[r]]
           /\ local'[r].inserted = {}
<1> DEFINE first == [local[r] EXCEPT !.inserted = {}]
           new   == [first EXCEPT !.next = None]
<1>1. local' = [local EXCEPT ![r] = new]
    OBVIOUS
<1>2. first \in Local /\ first.inserted = {}
    BY ZenonT(40) DEF TypeOK, Local
<1> HIDE DEF first
<1>3. new \in Local /\ new.inserted = {}
    BY <1>2 DEF Local
<1> HIDE DEF new
<1>. QED
    BY <1>1, <1>3, ZenonT(40) DEF TypeOK

(* What the steps of a handler come to: a lookup, an inserted row, a lost  *)
(* race, an end without deliveries, or one of the two ends with them.      *)
Looks(r) ==
    /\ pc[r] \in Items
    /\ \/ pc'[r] \in Items /\ local'[r].home = local[r].home
       \/ pc'[r] = "insert" /\ local'[r].next \in local'[r].plan
    /\ local'[r].inserted = local[r].inserted
    /\ UNCHANGED <<answer, deliveries, outbox>>

Inserts(r) ==
    /\ InsertRow(r)
    /\ pc'[r] = "commit" \/ (pc'[r] = "insert" /\ local'[r].next \in local'[r].plan)
    /\ local'[r].inserted = local[r].inserted \cup {local[r].next}
    /\ UNCHANGED <<answer, deliveries, outbox>>

Races(r) ==
    /\ pc[r] = "insert" /\ Conflict(r)
    /\ pc'[r] = "raced"
    /\ local'[r].inserted = {}
    /\ UNCHANGED <<answer, deliveries, outbox>>

Ends(r, code, ds) ==
    /\ pc[r] \notin {"new", "done"}
    /\ pc'[r] = "done"
    /\ local'[r].inserted = {}
    /\ answer' = [answer EXCEPT ![r] = [code |-> code, deliveries |-> ds]]

Fails(r) ==
    /\ Ends(r, "refused", {}) \/ Ends(r, "error", {})
    /\ UNCHANGED <<deliveries, outbox>>

Repeats(r) ==
    /\ pc[r] = "raced"
    /\ Ends(r, "duplicate", {d \in deliveries : d.key = Key[r]})
    /\ UNCHANGED <<deliveries, outbox>>

Creates(r) ==
    /\ pc[r] = "commit"
    /\ Ends(r, "accepted", Rows(r)) \/ Ends(r, "lost", {})
    /\ deliveries' = deliveries \cup Rows(r)
    /\ outbox' = outbox \cup Rows(r)

Moves(r) == Looks(r) \/ Inserts(r) \/ Races(r) \/ Fails(r) \/ Repeats(r) \/ Creates(r)

(* The request variables keep their types, and only r's entries change.    *)
Own(r) ==
    /\ pc' \in [Requests -> Stages]
    /\ local' \in [Requests -> Local]
    /\ answer' \in [Requests -> Answer]
    /\ pc' = [pc EXCEPT ![r] = pc'[r]]
    /\ local' = [local EXCEPT ![r] = local'[r]]

(* The rows of a transaction are deliveries of its key.                    *)
LEMMA RowsFacts ==
    ASSUME TypeOK, NEW r \in Requests
    PROVE  /\ Rows(r) \in SUBSET Delivery
           /\ \A d \in Rows(r) : /\ d.by = r /\ d.key = Key[r]
                                 /\ d.endpoint \in local[r].inserted
<1>1. local[r].inserted \subseteq Endpoints /\ Key[r] \in Keys
    BY KeyAssumption DEF TypeOK, Local
<1>2. \A e \in Endpoints : [by |-> r, key |-> Key[r], endpoint |-> e] \in Delivery
    BY <1>1 DEF Delivery
<1>. QED
    BY <1>1, <1>2 DEF Rows

(* A call that ends, in the terms above.                                   *)
LEMMA EndFacts ==
    ASSUME TypeInv, NEW r \in Requests, NEW code \in Codes, NEW ds \in SUBSET Delivery,
           pc[r] \notin {"new", "done"}, Finish(r, code, ds)
    PROVE  Ends(r, code, ds) /\ Own(r)
<1>1. NoLocal.inserted = {}
    BY DEF NoLocal
<1>. QED
    BY <1>1, FinishFacts DEF TypeInv, TypeOK, Ends, Own

(* Every step of a handler is one of these and moves only its own call.    *)
LEMMA HandleMoves ==
    ASSUME TypeInv, NEW r \in Requests, Handle(r)
    PROVE  Moves(r) /\ Own(r)
<1>0. pc \in [Requests -> Stages] /\ local \in [Requests -> Local]
    BY DEF TypeInv, TypeOK
<1>1. "refused" \in Codes /\ "error" \in Codes /\ "duplicate" \in Codes
      /\ "accepted" \in Codes /\ "lost" \in Codes /\ {} \in SUBSET Delivery
    BY DEF Codes
<1>2. ASSUME pc[r] \in Items, NEW v \in Values(pc[r]), NEW hit \in BOOLEAN, Use(r, v, hit),
             UNCHANGED <<deliveries, outbox>>
      PROVE  Moves(r) /\ Own(r)
    <2>0. TypeOK
        BY DEF TypeInv
    <2>1. /\ pc' \in [Requests -> Stages]
          /\ local' \in [Requests -> Local]
          /\ answer' \in [Requests -> Answer]
        BY <1>2, <2>0, UseFacts
    <2>2. pc' = [pc EXCEPT ![r] = pc'[r]]
        BY <1>2, <2>0, UseFacts
    <2>3. local' = [local EXCEPT ![r] = local'[r]]
        BY <1>2, <2>0, UseFacts
    <2>4. Own(r)
        BY <2>1, <2>2, <2>3 DEF Own
    <2>5. pc[r] \notin {"new", "done"} /\ NoLocal.inserted = {}
        BY <1>2 DEF Items, NoLocal
    <2>6. Looks(r) \/ Ends(r, "refused", {})
        BY <1>2, <2>5, UseFacts DEF Looks, Ends, TypeInv, Items
    <2>. QED
        BY <1>2, <2>4, <2>6 DEF Moves, Fails, Looks
<1>3. CASE LookupHit(r)
    <2>1. pc[r] \in Items /\ local[r].home \in Procs
        BY <1>3 DEF LookupHit, TypeInv, Homed
    <2>2. cache[local[r].home][pc[r]] \in Entry(pc[r])
        BY <1>3, <2>1 DEF LookupHit, Live, TypeInv, TypeOK
    <2>3. cache[local[r].home][pc[r]].value \in Values(pc[r])
        BY <2>2 DEF Entry
    <2>. QED
        BY <1>2, <1>3, <2>1, <2>3 DEF LookupHit
<1>4. CASE Select(r)
    BY <1>0, <1>4 DEF Select, Moves, Looks, Own, TypeInv, TypeOK
<1>5. CASE Store(r)
    <2>1. pc[r] \in Items /\ got[r] \in Values(pc[r])
        BY <1>5 DEF Store, TypeInv, TypeOK
    <2>. QED
        BY <1>2, <1>5, <2>1 DEF Store
<1>6. CASE InsertRow(r)
    BY <1>6, InsertFacts DEF InsertRow, Moves, Inserts, Own, TypeInv, TypeOK
<1>7. CASE LoseRace(r)
    <2>1. CASE Finish(r, "error", {})
        BY <1>1, <1>7, <2>1, EndFacts DEF LoseRace, Moves, Fails
    <2>2. CASE /\ Goto(r, "raced") /\ UNCHANGED answer
               /\ local' = [local EXCEPT ![r].inserted = {}, ![r].next = None]
        BY <1>0, <1>7, <2>2, RacedFacts
        DEF LoseRace, Goto, Moves, Races, Own, TypeInv, TypeOK, Stages
    <2>. QED
        BY <1>7, <2>1, <2>2 DEF LoseRace
<1>8. CASE Deadlock(r)
    BY <1>1, <1>8, EndFacts DEF Deadlock, WaitsFor, Moves, Fails
<1>9. CASE AnswerDuplicate(r)
    <2>1. {d \in deliveries : d.key = Key[r]} \in SUBSET Delivery
        BY DEF TypeInv, TypeOK
    <2>. QED
        BY <1>1, <1>9, <2>1, EndFacts DEF AnswerDuplicate, Moves, Repeats
<1>10. CASE Commit(r)
    <2>1. Rows(r) \in SUBSET Delivery
        BY RowsFacts DEF TypeInv
    <2>. QED
        BY <1>1, <1>10, <2>1, EndFacts DEF Commit, Moves, Creates
<1>. QED
    BY <1>3, <1>4, <1>5, <1>6, <1>7, <1>8, <1>9, <1>10 DEF Handle

(* An entry made from a value of the item has the item's type.             *)
LEMMA CacheSetFacts ==
    ASSUME TypeInv, NEW p \in Procs, NEW i \in Items, NEW v \in Values(i),
           cache' = CacheSet(p, i, v)
    PROVE  /\ cache' = [q \in Procs |-> [j \in Items |-> cache'[q][j]]]
           /\ cache'[p][i] = [value |-> v, left |-> TTL, late |-> v # db[i]]
           /\ cache'[p][i] \in Entry(i)
           /\ \A q \in Procs, j \in Items : q # p \/ j # i => cache'[q][j] = cache[q][j]
<1> DEFINE entry == [value |-> v, left |-> TTL, late |-> v # db[i]]
<1>1. entry \in Entry(i)
    BY BoundsAssumption DEF Entry
<1>2. cache' = [cache EXCEPT ![p][i] = entry]
    BY DEF CacheSet
<1> HIDE DEF entry
<1>3. cache = [q \in Procs |-> [j \in Items |-> cache[q][j]]]
    BY DEF TypeInv, Shaped
<1>4. /\ cache'[p][i] = entry
      /\ \A q \in Procs, j \in Items : q # p \/ j # i => cache'[q][j] = cache[q][j]
    BY <1>2, <1>3
<1>5. cache' = [q \in Procs |-> [j \in Items |-> cache'[q][j]]]
    BY <1>2, <1>3, ZenonT(40)
<1>. QED
    BY <1>1, <1>4, <1>5 DEF entry

(* What a handler's lookup does to the cache and to the row in flight.     *)
LEMMA HandleCache ==
    ASSUME TypeInv, NEW r \in Requests, Handle(r)
    PROVE  /\ UNCHANGED admin
           /\ \/ UNCHANGED <<cache, got>>
              \/ /\ Select(r)
                 /\ got' = [got EXCEPT ![r] = db[pc[r]]]
                 /\ cache' = [cache EXCEPT ![local[r].home][pc[r]] = None]
              \/ /\ Store(r)
                 /\ got' = [got EXCEPT ![r] = None]
                 /\ cache' = cache \/ cache' = CacheSet(local[r].home, pc[r], got[r])
BY DEF Handle, LookupHit, Select, Store, InsertRow, LoseRace, Deadlock, AnswerDuplicate, Commit

(* The handlers keep the types.                                            *)
LEMMA HandleTypes ==
    ASSUME TypeInv, NEW r \in Requests, Handle(r)
    PROVE  TypeInv'
<1>0. TypeOK /\ Shaped /\ Homed /\ Planned
    BY DEF TypeInv
<1>1. /\ pc' \in [Requests -> Stages] /\ local' \in [Requests -> Local]
      /\ answer' \in [Requests -> Answer]
    BY HandleMoves DEF Own
<1>2. \A q \in Requests : q # r => pc'[q] = pc[q] /\ local'[q] = local[q]
    <2>1. pc' = [pc EXCEPT ![r] = pc'[r]] /\ local' = [local EXCEPT ![r] = local'[r]]
        BY HandleMoves DEF Own
    <2>. QED
        BY <1>0, <2>1 DEF TypeOK
<1>3. /\ pc'[r] \in Items => pc[r] \in Items /\ local'[r].home = local[r].home
      /\ pc'[r] = "insert" => local'[r].next \in local'[r].plan
    BY HandleMoves DEF Moves, Looks, Inserts, Races, Fails, Repeats, Creates, Ends, Items
<1>4. Homed' /\ Planned'
    BY <1>0, <1>2, <1>3 DEF Homed, Planned
<1>5. deliveries' \subseteq Delivery /\ outbox' \subseteq Delivery
    <2>1. Rows(r) \in SUBSET Delivery
        BY <1>0, RowsFacts
    <2>. QED
        BY <1>0, <2>1, HandleMoves DEF TypeOK, Moves, Looks, Inserts, Races, Fails, Repeats, Creates
<1>6. /\ db' = db /\ age' = age /\ by' = by /\ changes' = changes /\ inval' = inval
    BY HandleCache DEF admin
<1>7. /\ got' = [q \in Requests |-> got'[q]]
      /\ cache' = [p \in Procs |-> [i \in Items |-> cache'[p][i]]]
      /\ \A p \in Procs, i \in Items : cache'[p][i] \in Entry(i) \cup {None}
      /\ \A q \in Requests : got'[q] # None => pc'[q] \in Items /\ got'[q] \in Values(pc'[q])
    <2>1. CASE UNCHANGED <<cache, got>> /\ got[r] = None
        BY <1>0, <1>2, <2>1 DEF Shaped, TypeOK
    <2>2. CASE UNCHANGED <<cache, got>> /\ got[r] # None
        <3>1. pc[r] \in Items
            BY <1>0, <2>2 DEF TypeOK
        <3>2. Store(r)
            BY <2>2, <3>1 DEF Handle, LookupHit, Select, InsertRow, LoseRace, Deadlock,
               WaitsFor, AnswerDuplicate, Commit, Items
        <3>3. got'[r] = None
            BY <1>0, <3>2 DEF Store, Shaped
        <3>. QED
            BY <2>2, <3>3
    <2>3. CASE Select(r)
        <3>1. pc[r] \in Items /\ local[r].home \in Procs /\ pc' = pc
            BY <1>0, <2>3 DEF Select, Homed
        <3>2. /\ got' = [got EXCEPT ![r] = db[pc[r]]]
              /\ cache' = [cache EXCEPT ![local[r].home][pc[r]] = None]
            BY <2>3 DEF Select
        <3>3. db[pc[r]] \in Values(pc[r])
            BY <1>0, <3>1 DEF TypeOK
        <3>4. /\ got' = [q \in Requests |-> got'[q]]
              /\ \A q \in Requests : got'[q] # None =>
                    pc'[q] \in Items /\ got'[q] \in Values(pc'[q])
            BY <1>0, <3>1, <3>2, <3>3 DEF TypeOK, Shaped
        <3>5. cache' = [p \in Procs |-> [i \in Items |-> cache'[p][i]]]
            BY <1>0, <3>1, <3>2 DEF Shaped
        <3>6. \A p \in Procs, i \in Items : cache'[p][i] \in {cache[p][i], None}
            BY <1>0, <3>1, <3>2 DEF Shaped
        <3>. QED
            BY <1>0, <3>4, <3>5, <3>6 DEF TypeOK
    <2>4. CASE Store(r)
        <3>1. pc[r] \in Items /\ local[r].home \in Procs /\ got[r] \in Values(pc[r])
            BY <1>0, <2>4 DEF Store, Homed, TypeOK
        <3>2. /\ got' = [got EXCEPT ![r] = None]
              /\ cache' = cache \/ cache' = CacheSet(local[r].home, pc[r], got[r])
            BY <2>4 DEF Store
        <3>3. got' = [q \in Requests |-> got'[q]] /\ \A q \in Requests : got'[q] \in {got[q], None}
              /\ got'[r] = None
            BY <1>0, <3>2 DEF Shaped
        <3>4. CASE cache' = cache
            BY <1>0, <1>2, <3>3, <3>4 DEF TypeOK, Shaped
        <3>5. CASE cache' = CacheSet(local[r].home, pc[r], got[r])
            <4>1. /\ cache' = [p \in Procs |-> [i \in Items |-> cache'[p][i]]]
                  /\ cache'[local[r].home][pc[r]] \in Entry(pc[r])
                  /\ \A p \in Procs, i \in Items :
                        p # local[r].home \/ i # pc[r] => cache'[p][i] = cache[p][i]
                BY <3>1, <3>5, CacheSetFacts
            <4>. QED
                BY <1>0, <1>2, <3>3, <4>1 DEF TypeOK
        <3>. QED
            BY <3>2, <3>4, <3>5
    <2>. QED
        BY <2>1, <2>2, <2>3, <2>4, HandleCache
<1>8. TypeOK'
    BY <1>0, <1>1, <1>5, <1>6, <1>7 DEF TypeOK
<1>9. Shaped'
    BY <1>0, <1>6, <1>7 DEF Shaped
<1>. QED
    BY <1>4, <1>8, <1>9 DEF TypeInv

(* A call is taken up.                                                     *)
LEMMA ArriveFacts ==
    ASSUME TypeInv, NEW r \in Requests, NEW p \in Procs, Arrive(r, p)
    PROVE  /\ TypeInv'
           /\ pc[r] = "new" /\ pc' = [pc EXCEPT ![r] = "partner"]
           /\ \A q \in Requests : local'[q].inserted = local[q].inserted
           /\ \A q \in Requests : local'[q].waited = local[q].waited
           /\ UNCHANGED <<admin, cache, got, answer, deliveries, outbox>>
<1> DEFINE new == [local[r] EXCEPT !.home = p]
<1>0. TypeOK /\ Shaped /\ Homed /\ Planned
    BY DEF TypeInv
<1>1. local' = [local EXCEPT ![r] = new]
    BY DEF Arrive
<1>2. /\ new \in Local /\ new.home = p
      /\ new.inserted = local[r].inserted /\ new.waited = local[r].waited
    BY <1>0 DEF TypeOK, Local
<1> HIDE DEF new
<1>3. /\ local' \in [Requests -> Local] /\ local'[r] = new
      /\ \A q \in Requests : q # r => local'[q] = local[q]
    BY <1>0, <1>1, <1>2 DEF TypeOK
<1>4. pc[r] = "new" /\ pc' = [pc EXCEPT ![r] = "partner"]
      /\ UNCHANGED <<admin, cache, got, answer, deliveries, outbox>>
    BY DEF Arrive, Goto
<1>5. /\ pc' \in [Requests -> Stages] /\ pc'[r] = "partner"
      /\ \A q \in Requests : q # r => pc'[q] = pc[q]
    BY <1>0, <1>4 DEF TypeOK, Stages, Items
<1>6. Homed' /\ Planned'
    BY <1>0, <1>2, <1>3, <1>5 DEF Homed, Planned
<1>7. \A q \in Requests : got'[q] # None => pc'[q] \in Items /\ got'[q] \in Values(pc'[q])
    <2>1. got[r] = None
        BY <1>0, <1>4 DEF TypeOK, Items
    <2>. QED
        BY <1>0, <1>4, <1>5, <2>1 DEF TypeOK
<1>8. TypeOK' /\ Shaped'
    BY <1>0, <1>3, <1>4, <1>5, <1>7 DEF TypeOK, Shaped, admin
<1>. QED
    BY <1>2, <1>3, <1>4, <1>6, <1>8 DEF TypeInv

(* An admin handler changes one row; its process has to invalidate it.     *)
LEMMA ChangeFacts ==
    ASSUME TypeInv, NEW p \in Procs, NEW i \in Items, NEW v \in Values(i), Change(p, i, v)
    PROVE  /\ TypeInv'
           /\ \A j \in Items : j # i => db'[j] = db[j] /\ by'[j] = by[j] /\ age'[j] = age[j]
           /\ db'[i] = v /\ by'[i] = p
           /\ \/ db'[i] = db[i] /\ age'[i] = age[i]
              \/ age'[i] = 0
           /\ inval'[p][i] > 0
           /\ \A q \in Procs, j \in Items : q # p \/ j # i => inval'[q][j] = inval[q][j]
           /\ UNCHANGED <<cache, request, deliveries, outbox>>
<1>0. TypeOK /\ Shaped /\ Homed /\ Planned
    BY DEF TypeInv
<1>1. /\ db' = [j \in Items |-> db'[j]] /\ db'[i] = v
      /\ \A j \in Items : j # i => db'[j] = db[j]
    BY <1>0 DEF Change, Shaped
<1>2. /\ by' \in [Items -> Procs \cup {None}] /\ by'[i] = p
      /\ \A j \in Items : j # i => by'[j] = by[j]
    BY <1>0 DEF Change, TypeOK
<1>3. 0 \in 0..Horizon
    BY BoundsAssumption DEF Horizon
<1>4. /\ age' \in [Items -> 0..Horizon]
      /\ \A j \in Items : j # i => age'[j] = age[j]
      /\ \/ db'[i] = db[i] /\ age'[i] = age[i]
         \/ age'[i] = 0
    BY <1>0, <1>1, <1>3 DEF Change, TypeOK
<1>5. /\ inval' \in [Procs -> [Items -> Nat]] /\ inval'[p][i] > 0
      /\ \A q \in Procs, j \in Items : q # p \/ j # i => inval'[q][j] = inval[q][j]
    BY <1>0 DEF Change, TypeOK
<1>6. changes' \in 0..MaxChanges
    BY <1>0, BoundsAssumption DEF Change, TypeOK
<1>7. UNCHANGED <<cache, request, deliveries, outbox>>
    BY DEF Change
<1>8. \A j \in Items : db'[j] \in Values(j)
    BY <1>0, <1>1 DEF TypeOK
<1>9. TypeOK'
    BY <1>0, <1>2, <1>4, <1>5, <1>6, <1>7, <1>8 DEF TypeOK, request
<1>10. Shaped' /\ Homed' /\ Planned'
    BY <1>0, <1>1, <1>7 DEF Shaped, Homed, Planned, request
<1>. QED
    BY <1>1, <1>2, <1>4, <1>5, <1>7, <1>9, <1>10 DEF TypeInv

(* An admin step is such a change or an invalidation.                      *)
LEMMA AdminFacts ==
    ASSUME TypeInv, NEW p \in Procs, Admin(p)
    PROVE  \/ \E i \in Items : Invalidate(p, i)
           \/ \E i \in Items : \E v \in Values(i) : Change(p, i, v)
<1>1. "partner" \in Items /\ "schema" \in Items /\ "endpoints" \in Items
    BY DEF Items
<1>2. Values("partner") = Partner
    BY DEF Values
<1>3. Values("schema") = PayloadSchema
    BY DEF Values
<1>4. Values("endpoints") = SUBSET Endpoints
    BY DEF Values, EndpointList
<1>5. db["endpoints"] \in SUBSET Endpoints
    BY <1>1, <1>4 DEF TypeInv, TypeOK
<1>6. CASE UpdatePartner(p)
    BY <1>1, <1>2, <1>6 DEF UpdatePartner, Partner
<1>7. CASE CreatePayloadSchema(p)
    BY <1>1, <1>3, <1>7 DEF CreatePayloadSchema, PayloadSchema
<1>8. ASSUME NEW e \in Endpoints, CreateEndpoint(p, e) \/ UpdateEndpoint(p, e)
      PROVE  \E v \in Values("endpoints") : Change(p, "endpoints", v)
    <2>1. db["endpoints"] \cup {e} \in Values("endpoints")
        BY <1>4, <1>5
    <2>2. db["endpoints"] \ {e} \in Values("endpoints")
        BY <1>4, <1>5
    <2>. QED
        BY <1>8, <2>1, <2>2 DEF CreateEndpoint, UpdateEndpoint
<1>. QED
    BY <1>1, <1>6, <1>7, <1>8 DEF Admin

(* An invalidation drops the item's entry, and never adds one.             *)
LEMMA InvalidateFacts ==
    ASSUME TypeInv, NEW p \in Procs, NEW i \in Items, Invalidate(p, i)
    PROVE  /\ TypeInv'
           /\ cache'[p][i] = None
           /\ \A q \in Procs, j \in Items : cache'[q][j] \in {cache[q][j], None}
           /\ \A q \in Procs, j \in Items : q # p \/ j # i => inval'[q][j] = inval[q][j]
           /\ UNCHANGED <<db, age, by, changes, request, deliveries, outbox>>
<1>0. TypeOK /\ Shaped /\ Homed /\ Planned
    BY DEF TypeInv
<1>1. i \in Dropped(p, i)
    BY DEF Dropped
<1>2. cache' = [cache EXCEPT ![p] =
                   [j \in Items |-> IF j \in Dropped(p, i) THEN None ELSE cache[p][j]]]
    BY DEF Invalidate
<1>3. /\ cache'[p][i] = None
      /\ \A q \in Procs, j \in Items : cache'[q][j] \in {cache[q][j], None}
      /\ cache' = [q \in Procs |-> [j \in Items |-> cache'[q][j]]]
    BY <1>0, <1>1, <1>2 DEF Shaped
<1>4. UNCHANGED <<db, age, by, changes, request, deliveries, outbox>>
    BY DEF Invalidate
<1>5. /\ inval' \in [Procs -> [Items -> Nat]]
      /\ \A q \in Procs, j \in Items : q # p \/ j # i => inval'[q][j] = inval[q][j]
    BY <1>0 DEF Invalidate, TypeOK
<1>6. TypeOK'
    BY <1>0, <1>3, <1>4, <1>5, ZenonT(40) DEF TypeOK, request
<1>7. Shaped' /\ Homed' /\ Planned'
    BY <1>0, <1>3, <1>4 DEF Shaped, Homed, Planned, request
<1>. QED
    BY <1>3, <1>4, <1>5, <1>6, <1>7 DEF TypeInv

(* Time passes: entries lose a tick or go, rows in flight gain one.        *)
LEMMA TickFacts ==
    ASSUME TypeInv, Tick
    PROVE  /\ TypeInv'
           /\ \A i \in Items : age'[i] <= age[i] + 1
           /\ \A p \in Procs, i \in Items : Live(p, i)' =>
                 /\ Live(p, i)
                 /\ cache'[p][i].left = cache[p][i].left - 1
                 /\ cache'[p][i].value = cache[p][i].value
                 /\ cache'[p][i].late = cache[p][i].late
           /\ \A r \in Requests : got[r] # None => local'[r].waited = local[r].waited + 1
           /\ \A r \in Requests : local'[r].inserted = local[r].inserted
           /\ UNCHANGED <<db, by, changes, inval, pc, got, answer, deliveries, outbox>>
<1>0. TypeOK /\ Shaped /\ Homed /\ Planned
    BY DEF TypeInv
<1>1. /\ age' \in [Items -> 0..Horizon]
      /\ \A i \in Items : age'[i] <= age[i] + 1
    BY <1>0, BoundsAssumption DEF Tick, TypeOK, Horizon
<1>2. /\ cache' = [p \in Procs |-> [i \in Items |-> cache'[p][i]]]
      /\ \A p \in Procs, i \in Items : cache'[p][i] = Older(i, cache[p][i])
    BY DEF Tick
<1>3. ASSUME NEW p \in Procs, NEW i \in Items
      PROVE  /\ cache'[p][i] \in Entry(i) \cup {None}
             /\ Live(p, i)' => /\ Live(p, i)
                              /\ cache'[p][i].left = cache[p][i].left - 1
                              /\ cache'[p][i].value = cache[p][i].value
                              /\ cache'[p][i].late = cache[p][i].late
    <2> DEFINE old == cache[p][i]
    <2>1. old \in Entry(i) \cup {None}
        BY <1>0 DEF TypeOK
    <2>2. cache'[p][i] = Older(i, old)
        BY <1>2
    <2>3. Live(p, i)' <=> (cache'[p][i] # None /\ cache'[p][i].left > 0)
        BY DEF Live
    <2>4. Live(p, i) <=> (old # None /\ old.left > 0)
        BY DEF Live
    <2> HIDE DEF old
    <2>5. CASE Older(i, old) = None
        BY <2>2, <2>3, <2>5
    <2>6. CASE old # None /\ old.left > 1
        BY <2>1, <2>2, <2>3, <2>4, <2>6, BoundsAssumption DEF Older, Entry, old
    <2>7. CASE old # None /\ ~(old.left > 1) /\ i = "partner"
        BY <2>1, <2>2, <2>3, <2>4, <2>7, BoundsAssumption DEF Older, Entry, old
    <2>. QED
        BY <2>5, <2>6, <2>7 DEF Older
<1>4. ASSUME NEW r \in Requests
      PROVE  /\ local'[r] \in Local
             /\ local'[r].inserted = local[r].inserted
             /\ local'[r].home = local[r].home
             /\ local'[r].plan = local[r].plan /\ local'[r].next = local[r].next
             /\ got[r] # None => local'[r].waited = local[r].waited + 1
    <2>1. local[r] \in Local
        BY <1>0 DEF TypeOK
    <2>2. CASE got[r] = None
        <3>1. local'[r] = local[r]
            BY <2>2 DEF Tick
        <3>. QED
            BY <2>1, <2>2, <3>1
    <2>3. CASE got[r] # None
        <3> DEFINE new == [local[r] EXCEPT !.waited = local[r].waited + 1]
        <3>1. local'[r] = new
            BY <2>3 DEF Tick
        <3>2. local[r].waited < Latency
            BY <2>3 DEF Tick
        <3>. QED
            BY <2>1, <3>1, <3>2, BoundsAssumption DEF Local
    <2>. QED
        BY <2>2, <2>3
<1>5. local' \in [Requests -> Local]
    BY <1>4 DEF Tick
<1>6. UNCHANGED <<db, by, changes, inval, pc, got, answer, deliveries, outbox>>
    BY DEF Tick
<1>7. TypeOK'
    BY <1>0, <1>1, <1>3, <1>5, <1>6 DEF TypeOK
<1>8. Shaped' /\ Homed' /\ Planned'
    BY <1>0, <1>2, <1>4, <1>6 DEF Shaped, Homed, Planned
<1>. QED
    BY <1>1, <1>3, <1>4, <1>6, <1>7, <1>8 DEF TypeInv

(* The cases of a step, for the invariants below.                          *)
LEMMA StepCases ==
    ASSUME TypeInv, [Next]_vars
    PROVE  \/ \E r \in Requests : Handle(r)
           \/ \E r \in Requests, p \in Procs : Arrive(r, p)
           \/ \E p \in Procs, i \in Items : Invalidate(p, i)
           \/ \E p \in Procs, i \in Items : \E v \in Values(i) : Change(p, i, v)
           \/ Tick
           \/ UNCHANGED vars
BY AdminFacts DEF Next, Quiet, CreateOutboundEvent, SandboxTestDelivery

(* The types are kept by every step.                                       *)
LEMMA TypeStep == TypeInv /\ [Next]_vars => TypeInv'
<1> SUFFICES ASSUME TypeInv, [Next]_vars
             PROVE  TypeInv'
    OBVIOUS
<1>1. CASE UNCHANGED vars
    BY <1>1 DEF TypeInv, TypeOK, Shaped, Homed, Planned, vars, admin, request
<1>. QED
    BY <1>1, StepCases, HandleTypes, ArriveFacts, InvalidateFacts, ChangeFacts, TickFacts

(* The variables keep their types, the process of a call is known and a    *)
(* statement inserts what it was built for.                                *)
THEOREM TypeCorrect == Spec => []TypeInv
BY TypeInit, TypeStep, PTL DEF Spec

(* The part of it that the runs check.                                     *)
THEOREM TypesKept == Spec => []TypeOK
<1>1. TypeInv => TypeOK
    BY DEF TypeInv
<1>. QED
    BY TypeCorrect, <1>1, PTL

-----------------------------------------------------------------------------
(* How old a stale entry can be                                            *)

(* A stale entry has, together with the age of the row, no more than the   *)
(* horizon left; a stale row in flight was read before the change.         *)
Ages ==
    /\ \A p \in Procs, i \in Items :
          Live(p, i) /\ cache[p][i].value # db[i] => age[i] + cache[p][i].left <= Horizon
    /\ \A r \in Requests :
          got[r] # None /\ got[r] # db[pc[r]] => age[pc[r]] <= local[r].waited

(* Ages grow and entries expire in step.                                   *)
LEMMA AgesStep == TypeInv /\ Ages /\ [Next]_vars => Ages'
<1> SUFFICES ASSUME TypeInv, Ages, [Next]_vars
             PROVE  Ages'
    OBVIOUS
<1>0. TypeOK /\ Shaped
    BY DEF TypeInv
<1>1. ASSUME NEW r \in Requests, Handle(r)
      PROVE  Ages'
    <2>1. db' = db /\ age' = age
        BY <1>1, HandleCache DEF admin
    <2>2. \A q \in Requests : q # r => pc'[q] = pc[q] /\ local'[q] = local[q]
        <3>1. pc' = [pc EXCEPT ![r] = pc'[r]] /\ local' = [local EXCEPT ![r] = local'[r]]
            BY <1>1, HandleMoves DEF Own
        <3>. QED
            BY <1>0, <3>1 DEF TypeOK
    <2>3. /\ \A q \in Requests : q # r => got'[q] = got[q]
          /\ got'[r] # None => got'[r] = db'[pc'[r]]
        <3>1. CASE Select(r)
            BY <1>0, <3>1 DEF Select, Shaped, admin
        <3>2. CASE Store(r)
            BY <1>0, <3>2 DEF Store, Shaped
        <3>3. CASE ~Select(r) /\ ~Store(r)
            <4>1. got[r] = None
                BY <1>0, <1>1, <3>3 DEF Handle, LookupHit, InsertRow, LoseRace, Deadlock,
                   WaitsFor, AnswerDuplicate, Commit, TypeOK, Items
            <4>. QED
                BY <1>1, <3>3, <4>1, HandleCache
        <3>. QED
            BY <3>1, <3>2, <3>3
    <2>4. ASSUME NEW p \in Procs, NEW i \in Items, Live(p, i)', cache'[p][i].value # db[i]
          PROVE  age[i] + cache'[p][i].left <= Horizon
        <3>1. CASE cache'[p][i] = cache[p][i]
            BY <2>4, <3>1 DEF Live, Ages
        <3>2. CASE Select(r)
            <4>1. local[r].home \in Procs /\ pc[r] \in Items
                BY <3>2 DEF Select, TypeInv, Homed
            <4>2. cache'[p][i] \in {cache[p][i], None}
                BY <1>0, <3>2, <4>1 DEF Select, Shaped
            <4>. QED
                BY <2>4, <3>1, <4>2 DEF Live
        <3>3. CASE Store(r) /\ cache' = CacheSet(local[r].home, pc[r], got[r])
            <4>1. pc[r] \in Items /\ local[r].home \in Procs /\ got[r] \in Values(pc[r])
                  /\ got[r] # None
                BY <1>0, <3>3 DEF Store, TypeInv, Homed, TypeOK
            <4>2. CASE p = local[r].home /\ i = pc[r]
                <5>1. cache'[p][i] = [value |-> got[r], left |-> TTL, late |-> got[r] # db[i]]
                    BY <3>3, <4>1, <4>2, CacheSetFacts, ZenonT(40)
                <5>2. age[i] <= local[r].waited
                    BY <2>4, <4>1, <4>2, <5>1 DEF Ages
                <5>3. local[r].waited \in 0..Latency /\ age[i] \in 0..Horizon
                    BY <1>0 DEF TypeOK, Local
                <5>. QED
                    BY <5>1, <5>2, <5>3, BoundsAssumption DEF Horizon
            <4>3. CASE ~(p = local[r].home /\ i = pc[r])
                <5>1. \A q \in Procs, j \in Items :
                         q # local[r].home \/ j # pc[r] => cache'[q][j] = cache[q][j]
                    BY <3>3, <4>1, CacheSetFacts
                <5>. QED
                    BY <3>1, <4>3, <5>1
            <4>. QED
                BY <4>2, <4>3
        <3>. QED
            BY <1>1, <3>1, <3>2, <3>3, HandleCache
    <2>. QED
        BY <2>1, <2>2, <2>3, <2>4 DEF Ages
<1>2. ASSUME NEW r \in Requests, NEW p \in Procs, Arrive(r, p)
      PROVE  Ages'
    <2>1. /\ pc' = [pc EXCEPT ![r] = "partner"] /\ pc[r] = "new"
          /\ \A q \in Requests : local'[q].waited = local[q].waited
          /\ UNCHANGED <<admin, cache, got>>
        BY <1>2, ArriveFacts
    <2>2. got[r] = None
        BY <1>0, <2>1 DEF TypeOK, Items
    <2>3. \A q \in Requests : got[q] # None => pc'[q] = pc[q]
        BY <1>0, <2>1, <2>2 DEF TypeOK
    <2>. QED
        BY <2>1, <2>3 DEF Ages, Live, admin
<1>3. ASSUME NEW p \in Procs, NEW i \in Items, Invalidate(p, i)
      PROVE  Ages'
    <2>1. /\ \A q \in Procs, j \in Items : cache'[q][j] \in {cache[q][j], None}
          /\ UNCHANGED <<db, age, request>>
        BY <1>3, InvalidateFacts
    <2>. QED
        BY <2>1 DEF Ages, Live, request
<1>4. ASSUME NEW p \in Procs, NEW i \in Items, NEW v \in Values(i), Change(p, i, v)
      PROVE  Ages'
    <2>1. /\ \A j \in Items : j # i => db'[j] = db[j] /\ age'[j] = age[j]
          /\ (db'[i] = db[i] /\ age'[i] = age[i]) \/ age'[i] = 0
          /\ UNCHANGED <<cache, pc, local, got>>
        BY <1>4, ChangeFacts DEF request
    <2>2. ASSUME NEW q \in Procs, NEW j \in Items, Live(q, j)', cache[q][j].value # db'[j]
          PROVE  age'[j] + cache[q][j].left <= Horizon
        <3>1. cache[q][j].left \in 0..TTL
            BY <1>0, <2>1, <2>2 DEF TypeOK, Live, Entry
        <3>. QED
            BY <2>1, <2>2, <3>1, BoundsAssumption DEF Ages, Live, Horizon
    <2>3. ASSUME NEW r \in Requests, got[r] # None, got[r] # db'[pc[r]]
          PROVE  age'[pc[r]] <= local[r].waited
        <3>1. pc[r] \in Items /\ local[r].waited \in 0..Latency
            BY <1>0, <2>3 DEF TypeOK, Local
        <3>. QED
            BY <2>1, <2>3, <3>1, BoundsAssumption DEF Ages
    <2>. QED
        BY <2>1, <2>2, <2>3 DEF Ages
<1>5. CASE Tick
    <2>1. /\ \A i \in Items : age'[i] <= age[i] + 1
          /\ \A p \in Procs, i \in Items : Live(p, i)' =>
                 /\ Live(p, i)
                 /\ cache'[p][i].left = cache[p][i].left - 1
                 /\ cache'[p][i].value = cache[p][i].value
          /\ \A r \in Requests : got[r] # None => local'[r].waited = local[r].waited + 1
          /\ UNCHANGED <<db, pc, got>>
        BY <1>5, TickFacts
    <2>2. age \in [Items -> 0..Horizon] /\ age' \in [Items -> 0..Horizon]
        BY <1>0, <1>5, TickFacts DEF TypeInv, TypeOK
    <2>3. \A p \in Procs, i \in Items : Live(p, i) => cache[p][i].left \in Nat
        BY <1>0, BoundsAssumption DEF TypeOK, Live, Entry
    <2>4. \A r \in Requests : local[r].waited \in Nat /\ (got[r] # None => pc[r] \in Items)
        BY <1>0, BoundsAssumption DEF TypeOK, Local
    <2>5. Horizon \in Nat
        BY BoundsAssumption DEF Horizon
    <2>. QED
        BY <2>1, <2>2, <2>3, <2>4, <2>5 DEF Ages
<1>6. CASE UNCHANGED vars
    BY <1>6 DEF Ages, Live, vars, admin, request
<1>. QED
    BY <1>1, <1>2, <1>3, <1>4, <1>5, <1>6, StepCases

(* No process serves a row that changed longer ago than the TTL and the    *)
(* time of one SELECT.                                                     *)
THEOREM StalenessBounded == Spec => []BoundedStaleness
<1>1. Init => Ages
    BY DEF Init, Ages, Live, NoEntries
<1>2. TypeInv /\ Ages => BoundedStaleness
    <2> SUFFICES ASSUME TypeInv, Ages, NEW p \in Procs, NEW i \in Items,
                        Live(p, i), cache[p][i].value # db[i]
                 PROVE  age[i] < TTL + Latency
        BY DEF BoundedStaleness
    <2>1. age[i] + cache[p][i].left <= Horizon
        BY DEF Ages
    <2>2. cache[p][i].left \in 0..TTL /\ cache[p][i].left > 0 /\ age[i] \in 0..Horizon
        BY DEF TypeInv, TypeOK, Live, Entry
    <2>. QED
        BY <2>1, <2>2, BoundsAssumption DEF Horizon
<1>. QED
    BY <1>1, <1>2, AgesStep, TypeCorrect, PTL DEF Spec

(* The process that made the last change and invalidated its entry holds   *)
(* no older value, except one that a SELECT in flight put back.            *)
LEMMA LocalStep == TypeInv /\ LocalInvalidation /\ [Next]_vars => LocalInvalidation'
<1> SUFFICES ASSUME TypeInv, LocalInvalidation, [Next]_vars
             PROVE  LocalInvalidation'
    OBVIOUS
<1>0. TypeOK /\ Shaped
    BY DEF TypeInv
<1>1. ASSUME UNCHANGED <<db, by, inval>>,
             NEW p \in Procs, NEW i \in Items, Live(p, i)',
             cache'[p][i].value # db[i], by[i] = p, inval[p][i] = 0,
             cache'[p][i] = cache[p][i]
      PROVE  cache'[p][i].late
    BY <1>1 DEF LocalInvalidation, Live
<1>2. ASSUME NEW r \in Requests, Handle(r)
      PROVE  LocalInvalidation'
    <2>1. UNCHANGED <<db, by, inval>>
        BY <1>2, HandleCache DEF admin
    <2>2. ASSUME NEW p \in Procs, NEW i \in Items, Live(p, i)', cache'[p][i] # cache[p][i],
                 cache'[p][i].value # db[i]
          PROVE  cache'[p][i].late
        <3>1. CASE Select(r)
            <4>1. local[r].home \in Procs /\ pc[r] \in Items
                BY <3>1 DEF Select, TypeInv, Homed
            <4>2. cache'[p][i] \in {cache[p][i], None}
                BY <1>0, <3>1, <4>1 DEF Select, Shaped
            <4>. QED
                BY <2>2, <4>2 DEF Live
        <3>2. CASE Store(r) /\ cache' = CacheSet(local[r].home, pc[r], got[r])
            <4>1. pc[r] \in Items /\ local[r].home \in Procs /\ got[r] \in Values(pc[r])
                BY <1>0, <3>2 DEF Store, TypeInv, Homed, TypeOK
            <4>2. /\ cache'[local[r].home][pc[r]] =
                        [value |-> got[r], left |-> TTL, late |-> got[r] # db[pc[r]]]
                  /\ \A q \in Procs, j \in Items :
                        q # local[r].home \/ j # pc[r] => cache'[q][j] = cache[q][j]
                BY <3>2, <4>1, CacheSetFacts, ZenonT(40)
            <4>3. p = local[r].home /\ i = pc[r]
                BY <2>2, <4>2
            <4>4. /\ cache'[p][i].value = got[r]
                  /\ cache'[p][i].late = (got[r] # db[i])
                <5> DEFINE stale == got[r] # db[i]
                <5>1. cache'[p][i] = [value |-> got[r], left |-> TTL, late |-> stale]
                    BY <4>2, <4>3, Zenon
                <5> HIDE DEF stale
                <5>2. cache'[p][i].value = got[r] /\ cache'[p][i].late = stale
                    BY <5>1
                <5>. QED
                    BY <5>2 DEF stale
            <4>. QED
                BY <2>2, <4>4, Zenon
        <3>. QED
            BY <1>2, <2>2, <3>1, <3>2, HandleCache
    <2>. QED
        BY <1>1, <2>1, <2>2 DEF LocalInvalidation
<1>3. ASSUME NEW p \in Procs, NEW i \in Items, Invalidate(p, i)
      PROVE  LocalInvalidation'
    <2>1. /\ cache'[p][i] = None
          /\ \A q \in Procs, j \in Items : cache'[q][j] \in {cache[q][j], None}
          /\ \A q \in Procs, j \in Items : q # p \/ j # i => inval'[q][j] = inval[q][j]
          /\ UNCHANGED <<db, by>>
        BY <1>3, InvalidateFacts
    <2>. QED
        BY <2>1 DEF LocalInvalidation, Live
<1>4. ASSUME NEW p \in Procs, NEW i \in Items, NEW v \in Values(i), Change(p, i, v)
      PROVE  LocalInvalidation'
    <2>1. /\ \A j \in Items : j # i => db'[j] = db[j] /\ by'[j] = by[j]
          /\ by'[i] = p /\ inval'[p][i] > 0
          /\ \A q \in Procs, j \in Items : q # p \/ j # i => inval'[q][j] = inval[q][j]
          /\ UNCHANGED cache
        BY <1>4, ChangeFacts
    <2>. QED
        BY <2>1 DEF LocalInvalidation, Live
<1>5. CASE Tick
    BY <1>5, TickFacts DEF LocalInvalidation
<1>6. CASE UNCHANGED <<db, by, inval, cache>>
    BY <1>6 DEF LocalInvalidation, Live
<1>. QED
    BY <1>2, <1>3, <1>4, <1>5, <1>6, StepCases, ArriveFacts DEF vars, admin

(* A change is served at once by the process that made it.                 *)
THEOREM InvalidationWorks == Spec => []LocalInvalidation
<1>1. Init => LocalInvalidation
    BY DEF Init, LocalInvalidation, Live, NoEntries
<1>. QED
    BY <1>1, LocalStep, TypeCorrect, PTL DEF Spec

-----------------------------------------------------------------------------
(* Who holds the unique key of a delivery                                  *)

(* Rows exist in open statements and transactions only, and a statement    *)
(* that is complete has inserted one.                                      *)
OpenRows ==
    \A r \in Requests :
        /\ pc[r] \notin {"insert", "commit"} => local[r].inserted = {}
        /\ pc[r] = "commit" => local[r].inserted # {}

(* Open transactions of one key hold rows of different endpoints, and none *)
(* that is committed.                                                      *)
KeysHeld ==
    \A r \in Requests :
        /\ \A q \in Requests :
              q # r /\ Key[q] = Key[r] => local[q].inserted \cap local[r].inserted = {}
        /\ \A d \in deliveries : d.key = Key[r] => d.endpoint \notin local[r].inserted

(* A committed row was made by a call that has ended; a call that lost a   *)
(* race lost it to a committed row.                                        *)
Makers ==
    /\ \A d \in deliveries : pc[d.by] = "done" /\ d.by \in Requests
    /\ \A r \in Requests : pc[r] = "raced" => \E d \in deliveries : d.key = Key[r]
    /\ \A r \in Requests : pc[r] # "done" => answer[r].code = "none"

RowsInv == OpenRows /\ KeysHeld /\ Makers /\ OneDeliveryPerEndpoint /\ AnswersHonest

(* The rows of the tables and of open transactions stay apart.             *)
LEMMA RowsStep == TypeInv /\ RowsInv /\ [Next]_vars => RowsInv'
<1> SUFFICES ASSUME TypeInv, RowsInv, [Next]_vars
             PROVE  RowsInv'
    OBVIOUS
<1>0. TypeOK /\ pc \in [Requests -> Stages] /\ local \in [Requests -> Local]
      /\ answer \in [Requests -> Answer] /\ deliveries \subseteq Delivery
    BY DEF TypeInv, TypeOK
<1>1. ASSUME UNCHANGED <<pc, answer, deliveries, outbox>>,
             \A r \in Requests : local'[r].inserted = local[r].inserted
      PROVE  RowsInv'
    BY <1>1 DEF RowsInv, OpenRows, KeysHeld, Makers, OneDeliveryPerEndpoint, AnswersHonest
<1>2. ASSUME NEW r \in Requests, NEW p \in Procs, Arrive(r, p)
      PROVE  RowsInv'
    <2>1. /\ pc[r] = "new" /\ pc' = [pc EXCEPT ![r] = "partner"]
          /\ \A q \in Requests : local'[q].inserted = local[q].inserted
          /\ UNCHANGED <<answer, deliveries, outbox>>
        BY <1>2, ArriveFacts
    <2>2. pc'[r] = "partner" /\ \A q \in Requests : q # r => pc'[q] = pc[q]
        BY <1>0, <2>1
    <2>3. OpenRows' /\ KeysHeld' /\ Makers'
        BY <2>1, <2>2 DEF RowsInv, OpenRows, KeysHeld, Makers
    <2>. QED
        BY <2>1, <2>3 DEF RowsInv, OneDeliveryPerEndpoint, AnswersHonest
<1>3. ASSUME NEW r \in Requests, Handle(r)
      PROVE  RowsInv'
    <2>1. \A q \in Requests : q # r => pc'[q] = pc[q] /\ local'[q] = local[q]
        <3>1. pc' = [pc EXCEPT ![r] = pc'[r]] /\ local' = [local EXCEPT ![r] = local'[r]]
            BY <1>3, HandleMoves DEF Own
        <3>. QED
            BY <1>0, <3>1
    <2>2. ASSUME UNCHANGED <<answer, deliveries, outbox>>, OpenRows', KeysHeld',
                 pc[r] # "done", pc'[r] # "done",
                 pc'[r] = "raced" => \E d \in deliveries : d.key = Key[r]
          PROVE  RowsInv'
        <3>1. Makers'
            BY <2>1, <2>2 DEF RowsInv, Makers
        <3>. QED
            BY <2>2, <3>1 DEF RowsInv, OneDeliveryPerEndpoint, AnswersHonest
    <2>3. CASE Looks(r)
        <3>1. OpenRows' /\ KeysHeld'
            BY <2>1, <2>3 DEF Looks, RowsInv, OpenRows, KeysHeld, Items
        <3>. QED
            BY <2>2, <2>3, <3>1 DEF Looks, Items
    <2>4. CASE Inserts(r)
        <3>1. /\ local'[r].inserted = local[r].inserted \cup {local[r].next}
              /\ ~Conflict(r) /\ \A q \in Requests : ~WaitsFor(r, q)
              /\ pc[r] = "insert" /\ pc'[r] \in {"insert", "commit"}
              /\ UNCHANGED <<answer, deliveries, outbox>>
            BY <2>4 DEF Inserts, InsertRow
        <3>2. \A q \in Requests : q # r /\ Key[q] = Key[r] => local[r].next \notin local[q].inserted
            BY <3>1 DEF WaitsFor
        <3>3. \A d \in deliveries : d.key = Key[r] => d.endpoint # local[r].next
            BY <3>1 DEF Conflict
        <3>4. OpenRows'
            BY <2>1, <3>1 DEF RowsInv, OpenRows
        <3>5. KeysHeld'
            BY <2>1, <3>1, <3>2, <3>3 DEF RowsInv, KeysHeld
        <3>. QED
            BY <2>2, <3>1, <3>4, <3>5
    <2>5. CASE Races(r)
        <3>1. OpenRows' /\ KeysHeld'
            BY <2>1, <2>5 DEF Races, RowsInv, OpenRows, KeysHeld
        <3>. QED
            BY <2>2, <2>5, <3>1 DEF Races, Conflict
    <2>6. ASSUME NEW code, NEW ds, Ends(r, code, ds), UNCHANGED <<deliveries, outbox>>,
                 \/ code \in {"refused", "error"}
                 \/ /\ code = "duplicate" /\ pc[r] = "raced"
                    /\ ds = {d \in deliveries : d.key = Key[r]}
          PROVE  RowsInv'
        <3>1. /\ pc[r] # "done" /\ pc'[r] = "done" /\ local'[r].inserted = {}
              /\ answer'[r] = [code |-> code, deliveries |-> ds]
              /\ \A q \in Requests : q # r => answer'[q] = answer[q]
            BY <1>0, <2>6 DEF Ends
        <3>2. OpenRows' /\ KeysHeld'
            BY <2>1, <2>6, <3>1 DEF RowsInv, OpenRows, KeysHeld
        <3>3. Makers'
            BY <2>1, <2>6, <3>1 DEF RowsInv, Makers
        <3>4. \A d \in deliveries : d.by # r
            BY <3>1 DEF RowsInv, Makers
        <3>5. code = "duplicate" => ds # {}
            BY <2>6 DEF RowsInv, Makers
        <3>6. AnswersHonest'
            BY <2>6, <3>1, <3>4, <3>5 DEF RowsInv, AnswersHonest
        <3>. QED
            BY <2>6, <3>2, <3>3, <3>6 DEF RowsInv, OneDeliveryPerEndpoint
    <2>7. CASE Creates(r)
        <3>0. /\ pc[r] = "commit" /\ pc'[r] = "done" /\ local'[r].inserted = {}
              /\ deliveries' = deliveries \cup Rows(r) /\ outbox' = outbox \cup Rows(r)
            BY <2>7 DEF Creates, Ends
        <3>1. \A d \in Rows(r) : d.by = r /\ d.key = Key[r] /\ d.endpoint \in local[r].inserted
            BY <1>0, RowsFacts
        <3>2. \A d, c \in Rows(r) : d.endpoint = c.endpoint => d = c
            BY DEF Rows
        <3>3. \A d \in deliveries : d.by # r
            BY <3>0 DEF RowsInv, Makers
        <3>4. OneDeliveryPerEndpoint'
            BY <3>0, <3>1, <3>2 DEF RowsInv, OneDeliveryPerEndpoint, KeysHeld
        <3>5. OpenRows'
            BY <2>1, <3>0 DEF RowsInv, OpenRows
        <3>6. KeysHeld'
            BY <2>1, <3>0, <3>1 DEF RowsInv, KeysHeld
        <3>7. \E code, ds :
                 /\ answer'[r] = [code |-> code, deliveries |-> ds]
                 /\ \A q \in Requests : q # r => answer'[q] = answer[q]
                 /\ (code = "accepted" /\ ds = Rows(r)) \/ code = "lost"
            BY <1>0, <2>7 DEF Creates, Ends
        <3>8. Makers'
            BY <2>1, <3>0, <3>1, <3>7 DEF RowsInv, Makers
        <3>9. Rows(r) # {}
            BY <3>0 DEF RowsInv, OpenRows, Rows
        <3>10. Rows(r) = {d \in deliveries' : d.by = r}
            BY <3>0, <3>1, <3>3
        <3>11. AnswersHonest'
            BY <3>0, <3>1, <3>7, <3>9, <3>10 DEF RowsInv, AnswersHonest
        <3>. QED
            BY <3>4, <3>5, <3>6, <3>8, <3>11 DEF RowsInv
    <2>. QED
        BY <1>3, <2>3, <2>4, <2>5, <2>6, <2>7, HandleMoves DEF Moves, Fails, Repeats
<1>4. CASE Tick
    BY <1>1, <1>4, TickFacts
<1>5. CASE UNCHANGED <<request, deliveries, outbox>>
    BY <1>1, <1>5 DEF request
<1>. QED
    BY <1>2, <1>3, <1>4, <1>5, StepCases, InvalidateFacts, ChangeFacts DEF vars

(* The rows stay apart in every reachable state.                           *)
LEMMA RowsCorrect == Spec => []RowsInv
<1>1. Init => RowsInv
    <2> SUFFICES ASSUME Init
                 PROVE  RowsInv
        OBVIOUS
    <2>1. NoLocal.inserted = {}
        BY DEF NoLocal
    <2>. QED
        BY <2>1 DEF Init, RowsInv, OpenRows, KeysHeld, Makers, OneDeliveryPerEndpoint, AnswersHonest
<1>. QED
    BY <1>1, RowsStep, TypeCorrect, PTL DEF Spec

(* One event never becomes two deliveries to one endpoint.                 *)
THEOREM OneDelivery == Spec => []OneDeliveryPerEndpoint
<1>1. RowsInv => OneDeliveryPerEndpoint
    BY DEF RowsInv
<1>. QED
    BY RowsCorrect, <1>1, PTL

(* Answers with delivery ids name committed deliveries of the right call.  *)
THEOREM AnswersKept == Spec => []AnswersHonest
<1>1. RowsInv => AnswersHonest
    BY DEF RowsInv
<1>. QED
    BY RowsCorrect, <1>1, PTL
=============================================================================
