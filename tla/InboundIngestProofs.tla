------------------------- MODULE InboundIngestProofs -------------------------
(***************************************************************************)
(* Proofs about InboundIngest, for any number of requests, keys and relays *)
(* and any number of failed sends and crashes.  The inductive invariant    *)
(* says where an event id may stand: in the table first, and from there in *)
(* the cache, in an answer, in the outbox and on the topic.                *)
(***************************************************************************)
EXTENDS InboundIngest, TLAPS

(* The row that request r records.                                         *)
RowOf(r) == [id |-> r, key |-> Key[r]]

(* A key has at most one event, and an event carries its request's key.    *)
Keyed ==
    \A e \in events :
        /\ e = RowOf(e.id)
        /\ \A f \in events : e.key = f.key => e = f

(* A key with an open INSERT has no committed event and no second INSERT.  *)
InsertsAlone ==
    \A r \in Requests : pc[r] = "commit" =>
        /\ ~Recorded(Key[r])
        /\ \A q \in Requests : pc[q] = "commit" /\ Key[q] = Key[r] => q = r

(* Cached ids and ids about to be cached are ids of committed events.      *)
CacheBacked ==
    /\ \A k \in Keys : cache[k] # None => [id |-> cache[k], key |-> k] \in events
    /\ \A r \in Requests : pc[r] = "fill" => RowOf(r) \in events

(* So are the ids in answers; a 202 names the caller's own event.          *)
AnswerBacked(r) ==
    /\ pc[r] # "done" => answer[r] = NoAnswer
    /\ answer[r].id # None => [id |-> answer[r].id, key |-> Key[r]] \in events
    /\ Named(r) => answer[r].id # None
    /\ answer[r].code = "accepted" => answer[r].id = r
AnswersBacked == \A r \in Requests : AnswerBacked(r)

(* Every event has its outbox row and every outbox row its event; only     *)
(* sent rows are marked.                                                   *)
OutboxBacked ==
    /\ \A r \in Requests : r \in outbox <=> RowOf(r) \in events
    /\ \A x \in Relays : sent[x] \subseteq topic
    /\ topic \subseteq outbox
    /\ PublishedMeansSent

IngestInv ==
    /\ TypeOK
    /\ Keyed
    /\ InsertsAlone
    /\ CacheBacked
    /\ AnswersBacked
    /\ OutboxBacked

-----------------------------------------------------------------------------
(* Types                                                                   *)

(* A request that ends keeps the types of its stage and its answer.        *)
LEMMA FinishFacts ==
    ASSUME TypeOK, NEW r \in Requests, NEW code \in Codes, NEW id \in Requests \cup {None},
           Finish(r, code, id)
    PROVE  /\ pc' \in [Requests -> Stages]
           /\ answer' \in [Requests -> Answer]
           /\ pc' = [pc EXCEPT ![r] = "done"]
           /\ answer' = [answer EXCEPT ![r] = [code |-> code, id |-> id]]
BY DEF TypeOK, Finish, Goto, Stages, Answer

(* The handler's steps keep the types.                                     *)
LEMMA HandleTypes ==
    ASSUME TypeOK, NEW r \in Requests, Handle(r)
    PROVE  TypeOK'
<1> USE KeyAssumption
<1>1. ASSUME NEW code \in Codes, NEW id \in Requests \cup {None}, Finish(r, code, id),
             UNCHANGED <<rows, cache, publish_attempts, relay, topic, crashes>>
      PROVE  TypeOK'
    <2>1. pc' \in [Requests -> Stages] /\ answer' \in [Requests -> Answer]
        BY <1>1, FinishFacts
    <2>. QED
        BY <1>1, <2>1 DEF TypeOK, rows, relay
<1>2. CASE Refuse(r) \/ LookupError(r) \/ FillError(r) \/ Abandon(r)
    <2>1. \E code \in Codes : Finish(r, code, None)
        BY <1>2 DEF Refuse, LookupError, FillError, Abandon, Codes
    <2>2. UNCHANGED <<rows, cache, publish_attempts, relay, topic, crashes>>
        BY <1>2 DEF Refuse, LookupError, FillError, Abandon
    <2>. QED
        BY <1>1, <2>1, <2>2
<1>3. CASE LookupHit(r)
    <2>1. cache[Key[r]] \in Requests \cup {None}
        BY DEF TypeOK
    <2>2. "duplicate" \in Codes
        BY DEF Codes
    <2>. QED
        BY <1>1, <1>3, <2>1, <2>2 DEF LookupHit
<1>4. CASE LoseRace(r)
    <2>1. "duplicate" \in Codes /\ "error" \in Codes
        BY DEF Codes
    <2>2. \A e \in events : e.id \in Requests
        BY DEF TypeOK, Event
    <2>. QED
        BY <1>1, <1>4, <2>1, <2>2 DEF LoseRace
<1>5. CASE Admit(r) \/ LookupMiss(r) \/ Insert(r)
    BY <1>5 DEF Admit, LookupMiss, Insert, Goto, TypeOK, Stages, rows, relay
<1>6. CASE Commit(r)
    <2>1. pc' \in [Requests -> Stages]
        BY <1>6 DEF Commit, Goto, TypeOK, Stages
    <2>2. events' \subseteq Event /\ outbox' \subseteq Requests /\ outbox \subseteq outbox'
        BY <1>6 DEF Commit, TypeOK, Event
    <2>3. UNCHANGED <<answer, published, inbound_published, cache, publish_attempts, relay, topic, crashes>>
        BY <1>6 DEF Commit
    <2>4. /\ batch' \in [Relays -> SUBSET outbox']
          /\ sent' \in [Relays -> SUBSET outbox']
          /\ failed' \in [Relays -> SUBSET outbox']
        BY <2>2, <2>3 DEF TypeOK, relay
    <2>. QED
        BY <2>1, <2>2, <2>3, <2>4 DEF TypeOK
<1>7. CASE Fill(r)
    <2>1. "accepted" \in Codes
        BY DEF Codes
    <2>2. pc' \in [Requests -> Stages] /\ answer' \in [Requests -> Answer]
        BY <1>7, <2>1, FinishFacts DEF Fill
    <2>3. cache' \in [Keys -> Requests \cup {None}]
        BY <1>7 DEF Fill, TypeOK
    <2>. QED
        BY <1>7, <2>2, <2>3 DEF Fill, TypeOK, rows, relay
<1>. QED
    BY <1>2, <1>3, <1>4, <1>5, <1>6, <1>7 DEF Handle

(* The relays' steps keep the types.                                       *)
LEMMA RelayTypes ==
    ASSUME TypeOK, NEW x \in Relays, Relay(x)
    PROVE  TypeOK'
<1> USE BoundsAssumption DEF TypeOK, api, rows, relay
<1>1. CASE RelaySelect(x)
    <2>1. PICK b \in SUBSET Unlocked : batch' = [batch EXCEPT ![x] = b]
        BY <1>1 DEF RelaySelect, Batches
    <2>2. b \subseteq outbox
        BY DEF Unlocked
    <2>. QED
        BY <1>1, <2>1, <2>2 DEF RelaySelect
<1>2. ASSUME NEW i \in Requests, RelaySend(x, i) \/ RelaySendFails(x, i)
      PROVE  TypeOK'
    BY <1>2 DEF RelaySend, RelaySendFails
<1>3. CASE RelayCommit(x)
    <2>1. publish_attempts' \in [Requests -> Nat]
        BY <1>3 DEF RelayCommit
    <2>2. published' \subseteq outbox' /\ inbound_published' \subseteq Requests
        BY <1>3 DEF RelayCommit, MarkInboundPublished
    <2>. QED
        BY <1>3, <2>1, <2>2 DEF RelayCommit
<1>4. CASE RelayCrash(x)
    BY <1>4 DEF RelayCrash
<1>. QED
    BY <1>1, <1>2, <1>3, <1>4 DEF Relay

(* The types hold in the initial state and are kept by every step.         *)
LEMMA TypeStep == (Init => TypeOK) /\ (TypeOK /\ [Next]_vars => TypeOK')
<1>1. Init => TypeOK
    BY DEF Init, TypeOK, Stages, Codes, Answer, NoAnswer
<1>2. ASSUME TypeOK, NEW k \in Keys, Expire(k)
      PROVE  TypeOK'
    BY <1>2 DEF Expire, TypeOK, api, rows, relay
<1>3. ASSUME TypeOK, UNCHANGED vars
      PROVE  TypeOK'
    BY <1>3 DEF TypeOK, vars, api, rows, relay
<1>. QED
    BY <1>1, <1>2, <1>3, HandleTypes, RelayTypes DEF Next, Quiet

-----------------------------------------------------------------------------
(* Frames                                                                  *)

(* Whatever is not a handler's step leaves requests and tables alone, and  *)
(* the cache too unless an entry expires.                                  *)
LEMMA OtherFrame ==
    ASSUME [Next]_vars, \A r \in Requests : ~Handle(r)
    PROVE  /\ UNCHANGED <<pc, answer, events, outbox>>
           /\ cache' = cache \/ \E k \in Keys : cache' = [cache EXCEPT ![k] = None]
BY DEF Next, Quiet, Expire, Relay, RelaySelect, RelaySend, RelaySendFails, RelayCommit,
   RelayCrash, vars, api, rows, relay

(* A handler's step leaves the relays and the topic alone, and the tables  *)
(* too unless it commits.                                                  *)
LEMMA HandleFrame ==
    ASSUME NEW r \in Requests, Handle(r)
    PROVE  /\ UNCHANGED <<published, inbound_published, sent, topic>>
           /\ Commit(r) \/ UNCHANGED <<events, outbox>>
           /\ Fill(r) \/ UNCHANGED cache
BY DEF Handle, Refuse, Admit, LookupHit, LookupMiss, LookupError, Insert, LoseRace, Commit,
   Fill, FillError, Abandon, rows, relay

(* A handler moves only its own request: on to the next stage with no      *)
(* answer yet, or to its end with the answer one of the paths gives.       *)
LEMMA HandleMoves ==
    ASSUME TypeOK, NEW r \in Requests, Handle(r)
    PROVE  /\ pc[r] # "done"
           /\ \/ /\ pc' = [pc EXCEPT ![r] = pc'[r]]
                 /\ pc'[r] \in {"lookup", "insert", "commit", "fill"}
                 /\ pc'[r] = "commit" => Insert(r)
                 /\ pc'[r] = "fill" => Commit(r)
                 /\ answer' = answer
              \/ /\ pc' = [pc EXCEPT ![r] = "done"]
                 /\ \/ \E code \in Codes \ {"accepted", "duplicate"} :
                          answer' = [answer EXCEPT ![r] = [code |-> code, id |-> None]]
                    \/ LookupHit(r) /\ answer' = [answer EXCEPT ![r] =
                                          [code |-> "duplicate", id |-> cache[Key[r]]]]
                    \/ Fill(r) /\ answer' = [answer EXCEPT ![r] =
                                          [code |-> "accepted", id |-> r]]
                    \/ \E e \in events : /\ e.key = Key[r]
                                          /\ answer' = [answer EXCEPT ![r] =
                                                [code |-> "duplicate", id |-> e.id]]
<1>1. CASE Refuse(r) \/ LookupError(r) \/ FillError(r) \/ Abandon(r)
    BY <1>1 DEF Refuse, LookupError, FillError, Abandon, Finish, Goto, Codes
<1>2. CASE LookupHit(r) \/ Fill(r)
    BY <1>2 DEF LookupHit, Fill, Finish, Goto
<1>3. CASE LoseRace(r)
    BY <1>3 DEF LoseRace, Finish, Goto, Codes
<1>4. CASE Admit(r) \/ LookupMiss(r) \/ Insert(r) \/ Commit(r)
    BY <1>4 DEF TypeOK, Admit, LookupMiss, Insert, Commit, Goto
<1>. QED
    BY <1>1, <1>2, <1>3, <1>4 DEF Handle

-----------------------------------------------------------------------------
(* The inductive invariant                                                 *)

(* Nothing is recorded, cached, answered or sent at the start.             *)
LEMMA InvInit == Init => IngestInv
<1> SUFFICES ASSUME Init
             PROVE  IngestInv
    OBVIOUS
<1>1. TypeOK
    BY TypeStep
<1>2. Keyed /\ OutboxBacked
    BY DEF Init, Keyed, OutboxBacked, PublishedMeansSent
<1>3. InsertsAlone /\ CacheBacked
    BY DEF Init, InsertsAlone, CacheBacked
<1>4. AnswersBacked
    BY DEF Init, AnswersBacked, AnswerBacked, NoAnswer, Named
<1>. QED
    BY <1>1, <1>2, <1>3, <1>4 DEF IngestInv

(* A commit adds the one event of a key that had none.                     *)
LEMMA CommitFacts ==
    ASSUME IngestInv, NEW r \in Requests, Commit(r)
    PROVE  /\ events' = events \cup {RowOf(r)}
           /\ \A e \in events : e.key # Key[r]
           /\ RowOf(r) \notin events
           /\ outbox' = outbox \cup {r}
<1>1. pc[r] = "commit" /\ ~Recorded(Key[r])
    BY DEF IngestInv, InsertsAlone, Commit
<1>2. RowOf(r).key = Key[r]
    BY DEF RowOf
<1>. QED
    BY <1>1, <1>2 DEF Commit, Recorded, RowOf

(* The tables only grow.                                                   *)
LEMMA EventsGrow ==
    ASSUME IngestInv, [Next]_vars
    PROVE  events \subseteq events'
BY CommitFacts, HandleFrame, OtherFrame

(* Keys keep their one event.                                              *)
LEMMA KeyedStep == IngestInv /\ [Next]_vars => Keyed'
<1> SUFFICES ASSUME IngestInv, [Next]_vars
             PROVE  Keyed'
    OBVIOUS
<1>1. ASSUME NEW r \in Requests, Commit(r)
      PROVE  Keyed'
    <2>1. RowOf(r).key = Key[r] /\ RowOf(r) = RowOf(RowOf(r).id)
        BY DEF RowOf
    <2>2. events' = events \cup {RowOf(r)} /\ \A e \in events : e.key # Key[r]
        BY <1>1, CommitFacts
    <2>3. \A e \in events : e = RowOf(e.id) /\ \A f \in events : e.key = f.key => e = f
        BY DEF IngestInv, Keyed
    <2>. QED
        BY <2>1, <2>2, <2>3 DEF Keyed, RowOf
<1>2. ASSUME events' = events
      PROVE  Keyed'
    BY <1>2 DEF IngestInv, Keyed, RowOf
<1>. QED
    BY <1>1, <1>2, HandleFrame, OtherFrame

(* Open INSERTs stay alone: the UNIQUE constraint lets no second one in,   *)
(* and no other request can commit the key.                                *)
LEMMA InsertsStep == IngestInv /\ [Next]_vars => InsertsAlone'
<1> SUFFICES ASSUME IngestInv, [Next]_vars
             PROVE  InsertsAlone'
    OBVIOUS
<1> USE DEF IngestInv
<1>1. ASSUME NEW r \in Requests, Handle(r)
      PROVE  InsertsAlone'
    <2>0. pc \in [Requests -> Stages]
        BY DEF TypeOK
    <2>1. \A q \in Requests : q # r => pc'[q] = pc[q]
        BY <1>1, <2>0, HandleMoves
    <2>2. pc'[r] = "commit" => Insert(r)
        BY <1>1, <2>0, HandleMoves
    <2>3. CASE Commit(r)
        <3>1. pc'[r] = "fill"
            BY <2>0, <2>3 DEF Commit, Goto
        <3>2. \A q \in Requests : pc'[q] = "commit" => pc[q] = "commit" /\ Key[q] # Key[r]
            BY <2>1, <2>3, <3>1 DEF InsertsAlone, Commit
        <3>3. \A e \in events' : e \in events \/ e.key = Key[r]
            <4>1. events' = events \cup {RowOf(r)}
                BY <2>3, CommitFacts
            <4>. QED
                BY <4>1 DEF RowOf
        <3>. QED
            BY <2>1, <3>2, <3>3 DEF InsertsAlone, Recorded
    <2>4. CASE events' = events
        <3>1. CASE Insert(r)
            BY <2>1, <2>4, <3>1 DEF InsertsAlone, Insert, Recorded, Inserting
        <3>2. CASE ~Insert(r)
            BY <2>1, <2>2, <2>4, <3>2 DEF InsertsAlone, Recorded
        <3>. QED
            BY <3>1, <3>2
    <2>. QED
        BY <1>1, <2>3, <2>4, HandleFrame
<1>2. CASE \A r \in Requests : ~Handle(r)
    BY <1>2, OtherFrame DEF InsertsAlone, Recorded
<1>. QED
    BY <1>1, <1>2

(* The cache holds ids of committed events only.                           *)
LEMMA CacheStep == IngestInv /\ [Next]_vars => CacheBacked'
<1> SUFFICES ASSUME IngestInv, [Next]_vars
             PROVE  CacheBacked'
    OBVIOUS
<1> USE KeyAssumption DEF IngestInv
<1>0. pc \in [Requests -> Stages] /\ cache \in [Keys -> Requests \cup {None}]
    BY DEF TypeOK
<1>1. events \subseteq events'
    BY EventsGrow
<1>2. ASSUME NEW r \in Requests, Handle(r)
      PROVE  CacheBacked'
    <2>1. \A q \in Requests : q # r => pc'[q] = pc[q]
        BY <1>0, <1>2, HandleMoves
    <2>2. pc'[r] = "fill" => RowOf(r) \in events'
        BY <1>0, <1>2, HandleMoves, CommitFacts
    <2>3. ASSUME NEW k \in Keys, cache'[k] # None
          PROVE  [id |-> cache'[k], key |-> k] \in events'
        <3>1. CASE Fill(r)
            <4>1. RowOf(r) \in events'
                BY <1>1, <3>1 DEF Fill, CacheBacked
            <4>2. cache' = [cache EXCEPT ![Key[r]] = r]
                BY <3>1 DEF Fill
            <4>. QED
                BY <1>0, <1>1, <2>3, <4>1, <4>2 DEF CacheBacked, RowOf
        <3>2. CASE cache' = cache
            BY <1>1, <2>3, <3>2 DEF CacheBacked
        <3>. QED
            BY <1>2, <3>1, <3>2, HandleFrame
    <2>. QED
        BY <1>1, <2>1, <2>2, <2>3 DEF CacheBacked, RowOf
<1>3. CASE \A r \in Requests : ~Handle(r)
    <2>1. UNCHANGED <<pc, events>>
        BY <1>3, OtherFrame
    <2>2. \A k \in Keys : cache'[k] # None => cache'[k] = cache[k]
        BY <1>0, <1>3, OtherFrame
    <2>. QED
        BY <2>1, <2>2 DEF CacheBacked, RowOf
<1>. QED
    BY <1>2, <1>3

(* Whatever id a caller is given is the id of its key's event.             *)
LEMMA AnswersStep == IngestInv /\ [Next]_vars => AnswersBacked'
<1> SUFFICES ASSUME IngestInv, [Next]_vars
             PROVE  AnswersBacked'
    OBVIOUS
<1> USE KeyAssumption DEF IngestInv
<1>0. pc \in [Requests -> Stages] /\ answer \in [Requests -> Answer]
    BY DEF TypeOK
<1>1. events \subseteq events'
    BY EventsGrow
<1>2. ASSUME NEW q \in Requests, pc'[q] = pc[q], answer'[q] = answer[q]
      PROVE  AnswerBacked(q)'
    BY <1>1, <1>2 DEF AnswersBacked, AnswerBacked, Named
<1>3. ASSUME NEW r \in Requests, Handle(r)
      PROVE  AnswersBacked'
    <2>1. \A q \in Requests : q # r => pc'[q] = pc[q] /\ answer'[q] = answer[q]
        BY <1>0, <1>3, HandleMoves
    <2>2. CASE answer' = answer
        <3>1. pc[r] # "done"
            BY <1>3, HandleMoves
        <3>2. AnswerBacked(r)
            BY DEF AnswersBacked
        <3>3. AnswerBacked(r)'
            BY <1>1, <2>2, <3>1, <3>2 DEF AnswerBacked, Named
        <3>. QED
            BY <1>2, <2>1, <3>3 DEF AnswersBacked
    <2>3. ASSUME pc' = [pc EXCEPT ![r] = "done"],
                 NEW code \in Codes \ {"accepted", "duplicate"},
                 answer' = [answer EXCEPT ![r] = [code |-> code, id |-> None]]
          PROVE  AnswerBacked(r)'
        <3>1. pc'[r] = "done" /\ answer'[r] = [code |-> code, id |-> None]
            BY <1>0, <2>3
        <3>. QED
            BY <2>3, <3>1 DEF AnswerBacked, Named
    <2>4. ASSUME pc' = [pc EXCEPT ![r] = "done"],
                 NEW id \in Requests, [id |-> id, key |-> Key[r]] \in events,
                 \/ answer' = [answer EXCEPT ![r] = [code |-> "duplicate", id |-> id]]
                 \/ answer' = [answer EXCEPT ![r] = [code |-> "accepted", id |-> id]] /\ id = r
          PROVE  AnswerBacked(r)'
        <3>1. pc'[r] = "done"
            BY <1>0, <2>4
        <3>2. \/ answer'[r] = [code |-> "duplicate", id |-> id]
              \/ answer'[r] = [code |-> "accepted", id |-> id] /\ id = r
            BY <1>0, <2>4
        <3>. QED
            BY <1>1, <2>4, <3>1, <3>2, NoneAssumption DEF AnswerBacked, Named
    <2>5. AnswerBacked(r)'
        <3>1. CASE LookupHit(r)
            <4>1. [id |-> cache[Key[r]], key |-> Key[r]] \in events /\ cache[Key[r]] \in Requests
                BY <3>1 DEF LookupHit, CacheBacked, TypeOK
            <4>. QED
                BY <2>4, <3>1, <4>1 DEF LookupHit, Finish, Goto
        <3>2. CASE Fill(r)
            BY <2>4, <3>2 DEF Fill, Finish, Goto, CacheBacked, RowOf
        <3>3. ASSUME pc' = [pc EXCEPT ![r] = "done"], NEW e \in events, e.key = Key[r],
                     answer' = [answer EXCEPT ![r] = [code |-> "duplicate", id |-> e.id]]
              PROVE  AnswerBacked(r)'
            <4>1. e = [id |-> e.id, key |-> Key[r]] /\ e.id \in Requests
                BY <3>3 DEF TypeOK, Event
            <4>. QED
                BY <2>4, <3>3, <4>1
        <3>. QED
            BY <1>3, <2>2, <2>3, <3>1, <3>2, <3>3, HandleMoves DEF AnswersBacked
    <2>. QED
        BY <1>2, <2>1, <2>5 DEF AnswersBacked
<1>4. CASE \A r \in Requests : ~Handle(r)
    BY <1>2, <1>4, OtherFrame DEF AnswersBacked
<1>. QED
    BY <1>3, <1>4

(* Outbox, events and topic stay together.                                 *)
LEMMA OutboxStep == IngestInv /\ [Next]_vars => OutboxBacked'
<1> SUFFICES ASSUME IngestInv, [Next]_vars
             PROVE  OutboxBacked'
    OBVIOUS
<1> USE DEF IngestInv, OutboxBacked, PublishedMeansSent
<1>1. ASSUME NEW r \in Requests, Handle(r)
      PROVE  OutboxBacked'
    <2>1. UNCHANGED <<published, inbound_published, sent, topic>>
        BY <1>1, HandleFrame
    <2>2. CASE Commit(r)
        <3>1. events' = events \cup {RowOf(r)} /\ outbox' = outbox \cup {r}
            BY <2>2, CommitFacts
        <3>2. \A q \in Requests : RowOf(q) = RowOf(r) <=> q = r
            BY DEF RowOf
        <3>. QED
            BY <2>1, <3>1, <3>2 DEF RowOf
    <2>3. CASE UNCHANGED <<events, outbox>>
        BY <2>1, <2>3 DEF RowOf
    <2>. QED
        BY <1>1, <2>2, <2>3, HandleFrame
<1>2. ASSUME UNCHANGED <<events, outbox>>,
             \A x \in Relays : sent'[x] \subseteq topic', topic' \subseteq outbox,
             inbound_published' = published', published' \subseteq topic'
      PROVE  OutboxBacked'
    BY <1>2 DEF RowOf
<1>3. ASSUME NEW x \in Relays, Relay(x)
      PROVE  OutboxBacked'
    <2>1. UNCHANGED <<events, outbox>>
        BY <1>3 DEF Relay, RelaySelect, RelaySend, RelaySendFails, RelayCommit, RelayCrash, rows
    <2>2. ASSUME NEW i \in Requests, RelaySend(x, i)
          PROVE  OutboxBacked'
        BY <1>2, <2>1, <2>2 DEF RelaySend, rows, TypeOK
    <2>3. CASE RelayCommit(x)
        BY <1>2, <2>1, <2>3 DEF RelayCommit, MarkInboundPublished, TypeOK
    <2>4. CASE RelayCrash(x)
        BY <1>2, <2>1, <2>4 DEF RelayCrash, rows, TypeOK
    <2>5. CASE UNCHANGED <<published, inbound_published, sent, topic>>
        BY <1>2, <2>1, <2>5
    <2>. QED
        BY <1>3, <2>2, <2>3, <2>4, <2>5 DEF Relay, RelaySelect, RelaySendFails, rows
<1>4. ASSUME NEW k \in Keys, Expire(k)
      PROVE  OutboxBacked'
    BY <1>2, <1>4 DEF Expire, rows, relay
<1>5. CASE UNCHANGED vars
    BY <1>2, <1>5 DEF vars, rows, relay
<1>. QED
    BY <1>1, <1>3, <1>4, <1>5 DEF Next, Quiet

(* The invariant holds in every reachable state.                           *)
THEOREM IngestCorrect == Spec => []IngestInv
<1>1. IngestInv /\ [Next]_vars => IngestInv'
    BY TypeStep, KeyedStep, InsertsStep, CacheStep, AnswersStep, OutboxStep DEF IngestInv
<1>. QED
    BY InvInit, <1>1, PTL DEF Spec

-----------------------------------------------------------------------------
(* Its consequences                                                        *)

(* The variables keep their types.                                         *)
THEOREM TypesKept == Spec => []TypeOK
<1>1. IngestInv => TypeOK
    BY DEF IngestInv
<1>. QED
    BY IngestCorrect, <1>1, PTL

(* Two callers of one key that are answered with an id are answered with   *)
(* the id of the same committed event.                                     *)
THEOREM AnswersKept == Spec => []AnswersAgree
<1>1. IngestInv => AnswersAgree
    <2> SUFFICES ASSUME IngestInv, NEW r \in Requests, Named(r)
                 PROVE  /\ [id |-> answer[r].id, key |-> Key[r]] \in events
                        /\ \A q \in Requests :
                              Named(q) /\ Key[q] = Key[r] => answer[q].id = answer[r].id
        BY DEF AnswersAgree
    <2>1. \A q \in Requests : Named(q) => [id |-> answer[q].id, key |-> Key[q]] \in events
        BY DEF IngestInv, AnswersBacked, AnswerBacked
    <2>2. ASSUME NEW q \in Requests, Named(q), Key[q] = Key[r]
          PROVE  answer[q].id = answer[r].id
        <3>1. [id |-> answer[q].id, key |-> Key[q]] = [id |-> answer[r].id, key |-> Key[r]]
            BY <2>1, <2>2 DEF IngestInv, Keyed
        <3>. QED
            BY <3>1
    <2>. QED
        BY <2>1, <2>2
<1>. QED
    BY IngestCorrect, <1>1, PTL

(* A 202 names the caller's own event, and all others that learn an id     *)
(* learn that they are duplicates of it.                                   *)
THEOREM AcceptedKept == Spec => []AcceptedOnce
<1>1. IngestInv /\ AnswersAgree => AcceptedOnce
    <2> SUFFICES ASSUME IngestInv, AnswersAgree, NEW r \in Requests, answer[r].code = "accepted"
                 PROVE  /\ answer[r].id = r
                        /\ [id |-> r, key |-> Key[r]] \in events
                        /\ \A q \in Requests \ {r} : Named(q) /\ Key[q] = Key[r] =>
                              answer[q] = [code |-> "duplicate", id |-> r]
        BY DEF AcceptedOnce
    <2>1. \A q \in Requests : answer[q].code = "accepted" => answer[q].id = q
        BY DEF IngestInv, AnswersBacked, AnswerBacked
    <2>2. Named(r)
        BY DEF Named
    <2>3. [id |-> r, key |-> Key[r]] \in events
        BY <2>1, <2>2 DEF AnswersAgree
    <2>4. ASSUME NEW q \in Requests \ {r}, Named(q), Key[q] = Key[r]
          PROVE  answer[q] = [code |-> "duplicate", id |-> r]
        <3>1. answer[q].id = r
            BY <2>1, <2>2, <2>4 DEF AnswersAgree
        <3>2. answer[q].code = "duplicate"
            BY <2>1, <2>4, <3>1 DEF Named
        <3>3. answer[q] \in Answer
            BY DEF IngestInv, TypeOK
        <3>. QED
            BY <3>1, <3>2, <3>3 DEF Answer
    <2>. QED
        BY <2>1, <2>3, <2>4
<1>. QED
    BY IngestCorrect, AnswersKept, <1>1, PTL

(* Every recorded event is on the topic or has an unpublished outbox row.  *)
THEOREM NothingLostKept == Spec => []NothingLost
<1>1. IngestInv => NothingLost
    <2> SUFFICES ASSUME IngestInv
                 PROVE  NothingLost
        OBVIOUS
    <2>1. \A e \in events : e.id \in Requests /\ e = RowOf(e.id)
        BY DEF IngestInv, TypeOK, Event, Keyed
    <2>2. \A i \in topic : i \in Requests /\ RowOf(i) \in events /\ RowOf(i).id = i
        BY DEF IngestInv, OutboxBacked, TypeOK, RowOf
    <2>. QED
        BY <2>1, <2>2 DEF IngestInv, OutboxBacked, PublishedMeansSent, NothingLost
<1>. QED
    BY IngestCorrect, <1>1, PTL

(* published_at is set on both rows or on neither, and only after a send.  *)
THEOREM PublishedKept == Spec => []PublishedMeansSent
<1>1. IngestInv => PublishedMeansSent
    BY DEF IngestInv, OutboxBacked
<1>. QED
    BY IngestCorrect, <1>1, PTL

(* Handler, cache and relays implement IdempotentIngest.                   *)
THEOREM IngestRefinement == Spec => IngestSpec
<1>1. Init => Ingest!Init
    BY DEF Init, Ingest!Init, NoAnswer
<1>2. IngestInv /\ IngestInv' /\ [Next]_vars => [Ingest!Next]_(Ingest!ivars)
    <2> SUFFICES ASSUME IngestInv, IngestInv', [Next]_vars
                 PROVE  Ingest!Next \/ UNCHANGED Ingest!ivars
        OBVIOUS
    <2> DEFINE told == [r \in Requests |-> answer[r].id]
    <2>0. pc \in [Requests -> Stages] /\ answer \in [Requests -> Answer]
        BY DEF IngestInv, TypeOK
    <2>1. ASSUME UNCHANGED <<events, answer, topic>>
          PROVE  UNCHANGED Ingest!ivars
        BY <2>1 DEF Ingest!ivars
    <2>2. ASSUME NEW r \in Requests, Handle(r)
          PROVE  Ingest!Next \/ UNCHANGED Ingest!ivars
        <3>1. UNCHANGED topic
            BY <2>2, HandleFrame
        <3>2. CASE Commit(r)
            <4>1. /\ \A e \in events : e.key # Key[r]
                  /\ events' = events \cup {[id |-> r, key |-> Key[r]]}
                BY <3>2, CommitFacts DEF RowOf
            <4>2. answer' = answer
                BY <3>2 DEF Commit
            <4>3. Ingest!Record(r)
                BY <3>1, <4>1, <4>2 DEF Ingest!Record
            <4>. QED
                BY <4>3 DEF Ingest!Next
        <3>3. CASE answer' = answer /\ events' = events
            BY <2>1, <3>1, <3>3
        <3>4. ASSUME events' = events, answer' # answer
              PROVE  Ingest!Next \/ UNCHANGED Ingest!ivars
            <4>1. PICK code, id : answer' = [answer EXCEPT ![r] = [code |-> code, id |-> id]]
                BY <2>2, <3>4, HandleMoves DEF IngestInv
            <4>2. pc[r] # "done" /\ answer[r].id = None
                <5>1. pc[r] # "done"
                    BY <2>2, HandleMoves DEF IngestInv
                <5>2. answer[r] = NoAnswer
                    BY <5>1 DEF IngestInv, AnswersBacked, AnswerBacked
                <5>. QED
                    BY <5>1, <5>2 DEF NoAnswer
            <4>3. told' = [told EXCEPT ![r] = id]
                BY <2>0, <4>1
            <4>4. CASE id = None
                <5>1. told' = told
                    BY <4>2, <4>3, <4>4
                <5>. QED
                    BY <3>1, <3>4, <5>1 DEF Ingest!ivars
            <4>5. CASE id # None
                <5>1. [id |-> id, key |-> Key[r]] \in events
                    <6>1. answer'[r].id = id
                        BY <2>0, <4>1
                    <6>. QED
                        BY <3>4, <4>5, <6>1 DEF IngestInv, AnswersBacked, AnswerBacked
                <5>2. Ingest!Tell(r)
                    BY <3>1, <3>4, <4>2, <4>3, <5>1 DEF Ingest!Tell
                <5>. QED
                    BY <5>2 DEF Ingest!Next
            <4>. QED
                BY <4>4, <4>5
        <3>. QED
            BY <2>2, <3>2, <3>3, <3>4, HandleFrame
    <2>3. ASSUME NEW x \in Relays, NEW i \in Requests, RelaySend(x, i)
          PROVE  Ingest!Next
        <3>1. RowOf(i) \in events /\ RowOf(i).id = i
            BY <2>3 DEF RelaySend, IngestInv, TypeOK, OutboxBacked, RowOf
        <3>2. Ingest!Publish
            BY <2>3, <3>1 DEF RelaySend, api, rows, Ingest!Publish
        <3>. QED
            BY <3>2 DEF Ingest!Next
    <2>4. CASE UNCHANGED <<events, answer, topic>>
        BY <2>1, <2>4
    <2>. QED
        BY <2>2, <2>3, <2>4 DEF Next, Quiet, Expire, Relay, RelaySelect, RelaySendFails,
           RelayCommit, RelayCrash, vars, api, rows
<1>. QED
    BY <1>1, <1>2, IngestCorrect, PTL DEF Spec, IngestSpec, Ingest!Spec
=============================================================================
