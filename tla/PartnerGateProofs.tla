-------------------------- MODULE PartnerGateProofs --------------------------
(***************************************************************************)
(* Proofs about PartnerGate, for any number of calls, rotations and API    *)
(* keys, any rate, burst, overlap and tolerance.  Three arguments: which   *)
(* rows the rotations leave, what a call between its two SELECTs may still *)
(* be let in for, and what the token bucket has paid for.                  *)
(***************************************************************************)
EXTENDS PartnerGate, TLAPS, FiniteSetTheorems

(* The rows, even when rotations overlap: a secret has a row once its      *)
(* rotation has committed, what a rotation has read as primary has one,    *)
(* there is a primary row or no row at all, at most one row is previous,   *)
(* and it has an end.                                                      *)
RowsKept ==
    /\ \A w \in Rotations : secrets[w].status = "absent" <=> rotation[w].stage # "done"
    /\ \A w \in Rotations :
          rotation[w].stage = "read" /\ rotation[w].primary # None =>
              secrets[rotation[w].primary].status # "absent"
    /\ WithStatus("primary") = {} =>
          column = First /\ \A s \in Secrets : secrets[s].status = "absent"
    /\ \A s, t \in WithStatus("previous") : s = t
    /\ \A s \in WithStatus("previous") : secrets[s].valid_until \in Nat

(* When they do not overlap, the primary row is the column's secret, and   *)
(* the rotation at work has read it.                                       *)
OnePrimary ==
    ~crossed =>
        /\ WithStatus("primary") \in {{}, {column}}
        /\ \A v, w \in Rotations :
              rotation[v].stage = "read" /\ rotation[w].stage = "read" => v = w
        /\ \A w \in Rotations :
              rotation[w].stage = "read" => FetchPrimary(rotation[w].primary)
        /\ \A r \in Requests : answer[r] # "error"

(* A call whose signature is still to be compared, and one that passed.    *)
Asking(r) == pc[r] \in {"partner", "primary", "previous"}
Passed(r) == pc[r] \in {"key", "tokens", "ts", "set_tokens", "set_ts"}

CallsKept ==
    \A r \in Requests :
        /\ Asking(r) => call[r].signed \in Told \cup {None} /\ call[r].arrived <= clock
        /\ pc[r] \in {"primary", "previous"} => call[r].signed # None
        /\ Asking(r) /\ welcome[r] => call[r].signed # None
        /\ pc[r] # "done" => answer[r] = "none"

(* A secret that was not in force at t and never will be again.            *)
Outdated(s, t) ==
    \/ secrets[s].status = "revoked"
    \/ secrets[s].status = "previous" /\ secrets[s].valid_until <= t
    \/ secrets[s].status = "absent" /\ WithStatus("primary") # {}

(* An unwelcome call is signed with such a secret, so that neither SELECT  *)
(* finds it.                                                               *)
Entitled ==
    ~crossed => \A r \in Requests :
        /\ Asking(r) /\ call[r].signed # None /\ ~welcome[r] =>
              Outdated(call[r].signed, call[r].arrived)
        /\ pc[r] = "previous" /\ call[r].signed = call[r].primary => welcome[r]
        /\ Passed(r) => welcome[r]
        /\ answer[r] \in {"admitted", "limited"} => welcome[r]

(* A welcome call is signed with the primary secret it has read, or with a *)
(* previous one that outlasts its arrival, unless it lost its row.         *)
Served ==
    /\ \A w \in Rotations : rotation[w].stage = "read" => clock < rotation[w].at + Overlap
    /\ \A r \in Requests :
          /\ pc[r] = "previous" /\ secrets[call[r].signed].status = "primary" =>
                call[r].signed = call[r].primary
          /\ Asking(r) /\ welcome[r] /\ secrets[call[r].signed].status = "previous" =>
                secrets[call[r].signed].valid_until > call[r].arrived

(* What has been paid, and the tokens left, never exceed the burst and the *)
(* refill up to the moment that goes with those tokens.                    *)
Covered(spent, held, now) == spent * PerSecond + held <= Burst + RPS * now

(* While checks do not overlap: the two keys belong together except just   *)
(* before SET ts, and the check at work has read or computed what the keys *)
(* then hold.                                                              *)
Spent(r) == paid + IF call[r].allow THEN 1 ELSE 0
Accounted ==
    clean =>
        /\ \A q, r \in Requests : Checking(q) /\ Checking(r) => q = r
        /\ (\A r \in Requests : pc[r] # "set_ts") =>
              /\ tokens = None <=> ts = None
              /\ tokens = None => paid = 0
              /\ tokens # None => ts <= clock /\ Covered(paid, tokens, ts)
        /\ \A r \in Requests : pc[r] = "ts" =>
              /\ call[r].tokens = tokens /\ call[r].now <= clock
              /\ ts # None => ts <= call[r].now
        /\ \A r \in Requests : pc[r] \in {"set_tokens", "set_ts"} =>
              /\ call[r].tokens # None /\ call[r].now <= clock
              /\ Covered(Spent(r), call[r].tokens, call[r].now)
        /\ \A r \in Requests : pc[r] = "set_ts" => tokens = call[r].tokens

GateInv ==
    /\ TypeOK
    /\ RowsKept
    /\ OnePrimary
    /\ CallsKept
    /\ Entitled
    /\ Accounted

-----------------------------------------------------------------------------
(* Time and tokens                                                         *)

(* get_now cuts the clock to whole seconds: it is never ahead of it.       *)
LEMMA NowFacts ==
    ASSUME clock \in Time
    PROVE  Now \in Time /\ Now <= clock
<1>1. PerSecond \in Nat /\ PerSecond > 0 /\ MaxClock \in Nat
    BY TimesAssumption
<1>2. clock \in Nat
    BY <1>1 DEF Time
<1>3. clock \div PerSecond \in Nat /\ PerSecond * (clock \div PerSecond) <= clock
    BY <1>1, <1>2
<1>4. PerSecond * (clock \div PerSecond) \in Nat
    BY <1>1, <1>3
<1>. QED
    BY <1>1, <1>2, <1>3, <1>4 DEF Now, Time

(* Products of natural numbers, as the bucket needs them.                  *)
LEMMA TimesNat ==
    ASSUME NEW m \in Nat, NEW n \in Nat
    PROVE  m * n \in Nat
OBVIOUS

LEMMA TimesMono ==
    ASSUME NEW k \in Nat, NEW m \in Int, NEW n \in Int, m <= n
    PROVE  k * m <= k * n
OBVIOUS

LEMMA BurstFacts == Burst \in Nat /\ PerSecond <= Burst
<1>1. PerSecond \in Nat /\ PerSecond > 0 /\ RPS \in Nat /\ RPS >= 1
    BY TimesAssumption
<1>2. PerSecond * 1 <= PerSecond * RPS
    BY <1>1, TimesMono
<1>. QED
    BY <1>1, <1>2, TimesNat DEF Burst

(* The refilled bucket holds between nothing and the burst, and is covered *)
(* by the elapsed time when the bucket it was refilled from was.           *)
LEMMA RefilledFacts ==
    ASSUME NEW held \in (0..Burst) \cup {None}, NEW last \in Time \cup {None}, NEW now \in Time
    PROVE  Refilled(held, last, now) \in 0..Burst
<1>1. Burst \in Nat /\ RPS \in Nat /\ MaxClock \in Nat /\ None \notin Int
    BY BurstFacts, TimesAssumption, NamesAssumption
<1>2. CASE held = None \/ last = None
    BY <1>1, <1>2 DEF Refilled
<1>3. CASE held # None /\ last # None /\ now > last
    <2>1. held \in Nat /\ held <= Burst /\ now - last \in Nat
        BY <1>1, <1>3 DEF Time
    <2>2. (now - last) * RPS \in Nat
        BY <1>1, <2>1, TimesNat
    <2> DEFINE more == held + (now - last) * RPS
    <2>3. more \in Nat
        BY <2>1, <2>2
    <2>4. Refilled(held, last, now) = IF more < Burst THEN more ELSE Burst
        BY <1>3 DEF Refilled
    <2>. HIDE DEF more
    <2>. QED
        BY <1>1, <2>3, <2>4
<1>4. CASE held # None /\ last # None /\ ~(now > last)
    BY <1>4 DEF Refilled
<1>. QED
    BY <1>2, <1>3, <1>4

LEMMA RefilledCovered ==
    ASSUME NEW held \in 0..Burst, NEW last \in Time, NEW now \in Time, NEW spent \in Nat,
           last <= now, Covered(spent, held, last)
    PROVE  Covered(spent, Refilled(held, last, now), now)
<1>1. /\ Burst \in Nat /\ RPS \in Nat /\ PerSecond \in Nat /\ None \notin Int
      /\ held \in Nat /\ last \in Nat /\ now \in Nat
    BY BurstFacts, TimesAssumption, NamesAssumption DEF Time
<1>2. held # None /\ last # None
    BY <1>1
<1> DEFINE p == spent * PerSecond
           a == RPS * last
           b == RPS * now
           g == (now - last) * RPS
<1>3. p \in Nat /\ a \in Nat /\ b \in Nat
    BY <1>1, TimesNat
<1>4. b = a + g /\ g \in Int
    BY <1>1
<1>5. p + held <= Burst + a
    BY DEF Covered
<1>6. Covered(spent, Refilled(held, last, now), now) <=> p + Refilled(held, last, now) <= Burst + b
    BY DEF Covered
<1>7. CASE now > last
    <2>1. Refilled(held, last, now) = IF held + g < Burst THEN held + g ELSE Burst
        BY <1>2, <1>7 DEF Refilled
    <2>. HIDE DEF p, a, b, g
    <2>2. CASE held + g < Burst
        BY <1>1, <1>3, <1>4, <1>5, <1>6, <2>1, <2>2
    <2>3. CASE ~(held + g < Burst)
        BY <1>1, <1>3, <1>4, <1>5, <1>6, <2>1, <2>3
    <2>. QED
        BY <2>2, <2>3
<1>8. CASE now = last
    <2>1. Refilled(held, last, now) = held
        BY <1>1, <1>2, <1>8 DEF Refilled
    <2>. QED
        BY <1>8, <2>1
<1>. QED
    BY <1>1, <1>7, <1>8

-----------------------------------------------------------------------------
(* Types                                                                   *)

(* The handler is left: the call keeps its signature only.                 *)
LEMMA EndFacts ==
    ASSUME TypeOK, NEW r \in Requests, NEW code \in Answers, End(r, code)
    PROVE  /\ pc' = [pc EXCEPT ![r] = "done"] /\ pc' \in [Requests -> Stages]
           /\ answer' = [answer EXCEPT ![r] = code] /\ answer' \in [Requests -> Answers]
           /\ \E c \in Call : call' = [call EXCEPT ![r] = c]
           /\ call' \in [Requests -> Call]
<1> DEFINE c == [NoCall EXCEPT !.signed = call[r].signed]
<1>1. call[r].signed \in Secrets \cup {None} /\ 0 \in Time
    BY TimesAssumption DEF TypeOK, Call, Time
<1>2. c \in Call
    <2>1. NoCall \in Call
        BY <1>1 DEF NoCall, Call
    <2>. QED
        BY <1>1, <2>1 DEF Call
<1>3. call' = [call EXCEPT ![r] = c]
    BY DEF End
<1>. HIDE DEF c
<1>4. call' \in [Requests -> Call]
    BY <1>2, <1>3 DEF TypeOK
<1>5. /\ pc' = [pc EXCEPT ![r] = "done"] /\ pc' \in [Requests -> Stages]
      /\ answer' = [answer EXCEPT ![r] = code] /\ answer' \in [Requests -> Answers]
    BY DEF End, Goto, TypeOK, Stages
<1>. QED
    BY <1>2, <1>3, <1>4, <1>5

(* A step of a handler, reduced to its types: it goes on with a call or is *)
(* left with an answer.                                                    *)
LEMMA PassTypes ==
    ASSUME TypeOK, NEW r \in Requests, NEW stage \in Stages, NEW c \in Call,
           Goto(r, stage), call' = [call EXCEPT ![r] = c], UNCHANGED answer
    PROVE  /\ pc' \in [Requests -> Stages] /\ call' \in [Requests -> Call]
           /\ answer' \in [Requests -> Answers]
BY DEF TypeOK, Goto

(* The checks that come before the bucket keep the types.                  *)
LEMMA ChecksTypes ==
    ASSUME TypeOK, NEW r \in Requests,
           \/ Arrive(r) \/ RefuseUnkeyed(r) \/ LoadPartner(r)
           \/ ReadPrimary(r) \/ ReadPrevious(r) \/ VerifyApiKey(r)
    PROVE  TypeOK'
<1>1. /\ call[r] \in Call /\ call \in [Requests -> Call] /\ pc \in [Requests -> Stages]
      /\ MaxClock \in Nat
    BY TimesAssumption DEF TypeOK
<1>2. /\ UNCHANGED <<clock, stored, bucket, rotates>>
      /\ UNCHANGED welcome \/ Arrive(r)
    BY DEF Arrive, RefuseUnkeyed, LoadPartner, ReadPrimary, ReadPrevious, VerifyApiKey
<1>3. ASSUME pc' \in [Requests -> Stages], call' \in [Requests -> Call],
             answer' \in [Requests -> Answers], welcome' \in [Requests -> BOOLEAN]
      PROVE  TypeOK'
    BY <1>2, <1>3 DEF TypeOK, stored, bucket, rotates
<1>4. ASSUME NEW code \in Answers, End(r, code), UNCHANGED welcome
      PROVE  TypeOK'
    <2>1. welcome' \in [Requests -> BOOLEAN]
        BY <1>4 DEF TypeOK
    <2>. QED
        BY <1>3, <1>4, <2>1, EndFacts
<1>5. ASSUME NEW stage \in Stages, Pass(r, stage), UNCHANGED welcome
      PROVE  TypeOK'
    <2>1. pc' \in [Requests -> Stages]
        BY <1>1, <1>5 DEF Pass, Goto
    <2>. QED
        BY <1>3, <1>5, <2>1 DEF Pass, TypeOK
<1>6. {"unkeyed", "not_found", "stale", "bad_signature", "unauthorized", "error"} \subseteq Answers
    BY DEF Answers
<1>7. {"partner", "primary", "previous", "key", "tokens"} \subseteq Stages
    BY DEF Stages
<1>8. ASSUME NEW p, NEW q, VerifyHmac(r, p, q), UNCHANGED welcome
      PROVE  TypeOK'
    BY <1>4, <1>5, <1>6, <1>7, <1>8 DEF VerifyHmac
<1>9. CASE Arrive(r)
    <2>1. PICK s \in Told \cup {None}, t \in {clock, 0, None}, k \in issued \cup {None} :
              /\ call' = [call EXCEPT ![r].signed = s, ![r].fresh = Fresh(t), ![r].key = k,
                                      ![r].arrived = Now]
              /\ welcome' = [welcome EXCEPT ![r] = s # None /\ InForce(s, Now)]
        BY <1>9 DEF Arrive
    <2> DEFINE c == [call[r] EXCEPT !.signed = s, !.fresh = Fresh(t), !.key = k, !.arrived = Now]
    <2>2. /\ s \in Secrets \cup {None} /\ k \in ApiKeys \cup {None} /\ Now \in Time
          /\ Fresh(t) \in BOOLEAN
        BY NowFacts DEF Told, Secrets, TypeOK, Fresh
    <2>3. c \in Call
        BY <1>1, <2>2 DEF Call
    <2>4. call' = [call EXCEPT ![r] = c]
        BY <1>1, <2>1
    <2>. HIDE DEF c
    <2>5. call' \in [Requests -> Call]
        BY <1>1, <2>3, <2>4
    <2>6. (s # None /\ InForce(s, Now)) \in BOOLEAN
        OBVIOUS
    <2>7. welcome' \in [Requests -> BOOLEAN]
        BY <2>1, <2>6 DEF TypeOK
    <2>8. pc' \in [Requests -> Stages] /\ answer' \in [Requests -> Answers]
        BY <1>1, <1>7, <1>9 DEF Arrive, Goto, TypeOK
    <2>. QED
        BY <1>3, <2>5, <2>7, <2>8
<1>10. CASE RefuseUnkeyed(r)
    BY <1>4, <1>6, <1>10 DEF RefuseUnkeyed
<1>11. CASE LoadPartner(r)
    BY <1>4, <1>5, <1>6, <1>7, <1>11 DEF LoadPartner
<1>12. CASE ReadPrimary(r)
    <2>1. CASE \E s \in Secrets : /\ call' = [call EXCEPT ![r].primary = s]
                                  /\ Goto(r, "previous") /\ UNCHANGED answer
        <3>1. PICK s \in Secrets : /\ call' = [call EXCEPT ![r].primary = s]
                                   /\ Goto(r, "previous") /\ UNCHANGED answer
            BY <2>1
        <3> DEFINE c == [call[r] EXCEPT !.primary = s]
        <3>2. c \in Call /\ call' = [call EXCEPT ![r] = c]
            BY <1>1, <3>1 DEF Call
        <3>. HIDE DEF c
        <3>3. /\ pc' \in [Requests -> Stages] /\ call' \in [Requests -> Call]
              /\ answer' \in [Requests -> Answers]
            BY <1>7, <3>1, <3>2, PassTypes
        <3>. QED
            BY <1>3, <1>12, <3>3 DEF ReadPrimary, TypeOK
    <2>. QED
        BY <1>4, <1>6, <1>8, <1>12, <2>1 DEF ReadPrimary
<1>13. CASE ReadPrevious(r)
    BY <1>8, <1>13 DEF ReadPrevious
<1>14. CASE VerifyApiKey(r)
    BY <1>4, <1>5, <1>6, <1>7, <1>14 DEF VerifyApiKey
<1>. QED
    BY <1>9, <1>10, <1>11, <1>12, <1>13, <1>14

(* So do the four commands of allow_request and its failure.               *)
LEMMA BucketTypes ==
    ASSUME TypeOK, NEW r \in Requests,
           GetTokens(r) \/ GetTs(r) \/ SetTokens(r) \/ SetTs(r) \/ FailOpen(r)
    PROVE  TypeOK'
<1>1. /\ call[r] \in Call /\ call \in [Requests -> Call] /\ pc \in [Requests -> Stages]
      /\ Burst \in Nat /\ PerSecond \in Nat /\ PerSecond <= Burst
      /\ MaxFaults \in Nat
    BY TimesAssumption, BurstFacts DEF TypeOK
<1>2. {"ts", "set_tokens", "set_ts"} \subseteq Stages /\ {"limited", "admitted"} \subseteq Answers
    BY DEF Stages, Answers
<1>3. UNCHANGED <<clock, welcome, stored, rotates>>
    BY DEF GetTokens, GetTs, SetTokens, SetTs, FailOpen
<1>4. ASSUME pc' \in [Requests -> Stages], call' \in [Requests -> Call],
             answer' \in [Requests -> Answers],
             tokens' \in (0 .. Burst) \cup {None}, ts' \in Time \cup {None},
             faults' \in 0 .. MaxFaults, paid' \in Nat, clean' \in BOOLEAN
      PROVE  TypeOK'
    BY <1>3, <1>4 DEF TypeOK, stored, rotates
<1>5. CASE GetTokens(r)
    <2> DEFINE c == [call[r] EXCEPT !.now = clock, !.tokens = tokens]
    <2>1. c \in Call
        BY <1>1 DEF Call, TypeOK
    <2>2. call' = [call EXCEPT ![r] = c]
        BY <1>1, <1>5 DEF GetTokens
    <2>. HIDE DEF c
    <2>3. /\ pc' \in [Requests -> Stages] /\ call' \in [Requests -> Call]
          /\ answer' \in [Requests -> Answers]
        BY <1>2, <1>5, <2>1, <2>2, PassTypes DEF GetTokens
    <2>4. clean' \in BOOLEAN
        BY <1>5 DEF GetTokens
    <2>. QED
        BY <1>4, <1>5, <2>3, <2>4 DEF GetTokens, TypeOK
<1>6. CASE GetTs(r)
    <2> DEFINE held == Refilled(call[r].tokens, ts, call[r].now)
               allow == Enough(held)
               left == IF allow THEN held - PerSecond ELSE held
               c == [call[r] EXCEPT !.allow = allow, !.tokens = left]
    <2>1. held \in 0..Burst
        BY <1>1, RefilledFacts DEF TypeOK, Call
    <2>2. left \in 0..Burst /\ allow \in BOOLEAN
        <3>. HIDE DEF held
        <3>. QED
            BY <1>1, <2>1 DEF Enough
    <2>3. call' = [call EXCEPT ![r] = c]
        BY <1>1, <1>6 DEF GetTs
    <2>. HIDE DEF held, allow, left
    <2>4. c \in Call
        BY <1>1, <2>2 DEF Call
    <2>. HIDE DEF c
    <2>5. /\ pc' \in [Requests -> Stages] /\ call' \in [Requests -> Call]
          /\ answer' \in [Requests -> Answers]
        BY <1>2, <1>6, <2>3, <2>4, PassTypes DEF GetTs
    <2>. QED
        BY <1>4, <1>6, <2>5 DEF GetTs, TypeOK, bucket
<1>7. CASE SetTokens(r)
    <2>1. pc' \in [Requests -> Stages] /\ tokens' \in (0 .. Burst) \cup {None}
        BY <1>1, <1>2, <1>7 DEF SetTokens, Goto, Call
    <2>. QED
        BY <1>4, <1>7, <2>1 DEF SetTokens, TypeOK
<1>8. CASE SetTs(r)
    <2>1. PICK code \in Answers : End(r, code)
        BY <1>2, <1>8 DEF SetTs
    <2>2. ts' \in Time /\ paid' \in Nat
        BY <1>1, <1>8 DEF SetTs, Call, TypeOK
    <2>. QED
        BY <1>4, <1>8, <2>1, <2>2, EndFacts DEF SetTs, TypeOK
<1>9. CASE FailOpen(r)
    <2>1. End(r, "admitted") /\ "admitted" \in Answers
        BY <1>2, <1>9 DEF FailOpen
    <2>2. faults' \in 0..MaxFaults /\ clean' \in BOOLEAN
        BY <1>1, <1>9 DEF FailOpen, TypeOK
    <2>. QED
        BY <1>4, <1>9, <2>1, <2>2, EndFacts DEF FailOpen, TypeOK
<1>. QED
    BY <1>5, <1>6, <1>7, <1>8, <1>9

(* Rotations keep the types.                                               *)
LEMMA RotateTypes ==
    ASSUME TypeOK, NEW w \in Rotations, RotateRead(w) \/ RotateCommit(w)
    PROVE  TypeOK'
<1> DEFINE Stand == [stage: {"new", "read", "done", "error"}, primary: Secrets \cup {None}, at: Time]
<1>1. /\ MaxClock \in Nat /\ Overlap \in Nat /\ w \in Secrets
      /\ rotation \in [Rotations -> Stand] /\ secrets \in [Secrets -> Row]
      /\ clock \in Time
    BY TimesAssumption DEF TypeOK, Secrets
<1>2. UNCHANGED <<clock, gate, active, issued, bucket>>
    BY DEF RotateRead, RotateCommit, stored
<1>3. ASSUME rotation' \in [Rotations -> Stand], secrets' \in [Secrets -> Row],
             column' \in Secrets, crossed' \in BOOLEAN
      PROVE  TypeOK'
    BY <1>2, <1>3 DEF TypeOK, gate, bucket
<1>4. CASE RotateRead(w)
    <2>1. rotation' \in [Rotations -> Stand]
        <3>1. CASE rotation' = [rotation EXCEPT ![w].stage = "error"]
            BY <1>1, <3>1
        <3>2. CASE \E s \in Secrets \cup {None} :
                      rotation' = [rotation EXCEPT ![w] = [stage |-> "read", primary |-> s, at |-> clock]]
            BY <1>1, <3>2
        <3>. QED
            BY <1>4, <3>1, <3>2 DEF RotateRead
    <2>2. crossed' \in BOOLEAN
        BY <1>4 DEF RotateRead
    <2>. QED
        BY <1>3, <1>4, <2>1, <2>2 DEF RotateRead, stored, TypeOK
<1>5. CASE RotateCommit(w)
    <2>1. rotation' \in [Rotations -> Stand]
        BY <1>1, <1>5 DEF RotateCommit, Time
    <2>2. rotation[w].at + Overlap \in Nat
        BY <1>1 DEF Time
    <2>3. secrets' \in [Secrets -> Row]
        <3>1. NewPrimary \in Row
            BY DEF NewPrimary, Row, Statuses
        <3>2. [status |-> "previous", valid_until |-> rotation[w].at + Overlap] \in Row
            BY <2>2 DEF Row, Statuses
        <3>3. \A s \in Secrets : [secrets[s] EXCEPT !.status = "revoked"] \in Row
            BY <1>1 DEF Row, Statuses
        <3>4. \A s \in Secrets : Rotated(w)[s] \in Row
            BY <1>1, <3>1, <3>2, <3>3 DEF Rotated
        <3>5. Rotated(w) = [s \in Secrets |-> Rotated(w)[s]]
            BY DEF Rotated
        <3>. QED
            BY <1>5, <3>4, <3>5 DEF RotateCommit
    <2>. QED
        BY <1>1, <1>3, <1>5, <2>1, <2>3 DEF RotateCommit, TypeOK
<1>. QED
    BY <1>4, <1>5

(* The administrator and the clock keep the types.                         *)
LEMMA OutsideTypes ==
    ASSUME TypeOK, Tick \/ UpdatePartner \/ (\E k \in ApiKeys : CreateApiKey(k))
    PROVE  TypeOK'
<1>1. MaxClock \in Nat /\ clock \in Time
    BY TimesAssumption DEF TypeOK
<1>2. CASE Tick
    <2>1. clock' \in Time
        BY <1>1, <1>2 DEF Tick, Time
    <2>. QED
        BY <1>2, <2>1 DEF Tick, TypeOK, gate, stored, bucket, rotates
<1>3. CASE UpdatePartner
    BY <1>3 DEF UpdatePartner, TypeOK, gate, bucket, rotates
<1>4. CASE \E k \in ApiKeys : CreateApiKey(k)
    BY <1>4 DEF CreateApiKey, TypeOK, gate, bucket, rotates
<1>. QED
    BY <1>2, <1>3, <1>4

-----------------------------------------------------------------------------
(* The rows that rotations leave                                           *)

(* One row at most is no reason for scalar_one_or_none to raise.           *)
LEMMA AtMostOne ==
    ASSUME NEW S, \A x, y \in S : x = y
    PROVE  Cardinality(S) \in Nat /\ Cardinality(S) <= 1
<1>1. CASE S = {}
    BY <1>1, FS_EmptySet
<1>2. CASE S # {}
    <2>1. PICK x : S = {x}
        BY <1>2
    <2>. QED
        BY <2>1, FS_Singleton
<1>. QED
    BY <1>1, <1>2

(* The rows after a rotation: the new primary, what it demoted, and for    *)
(* the others no new right.                                                *)
LEMMA RotatedFacts ==
    ASSUME TypeOK, RowsKept, NEW w \in Rotations, RotateCommit(w)
    PROVE  /\ w \in Secrets /\ secrets[w].status = "absent"
           /\ rotation[w].primary # w /\ rotation[w].primary \in Secrets \cup {None}
           /\ secrets'[w].status = "primary"
           /\ rotation[w].primary # None =>
                 /\ secrets'[rotation[w].primary].status = "previous"
                 /\ secrets'[rotation[w].primary].valid_until = rotation[w].at + Overlap
           /\ \A s \in Secrets \ {w, rotation[w].primary} :
                 \/ /\ secrets'[s] = secrets[s]
                    /\ rotation[w].primary = None \/ secrets[s].status # "previous"
                 \/ /\ secrets[s].status = "previous" /\ secrets'[s].status = "revoked"
<1> DEFINE old == rotation[w].primary
<1>1. /\ w \in Secrets /\ w # None /\ old \in Secrets \cup {None}
      /\ rotation[w].stage = "read" /\ secrets[w].status = "absent"
    BY NamesAssumption DEF RowsKept, RotateCommit, TypeOK, Secrets
<1>2. old # w
    BY <1>1 DEF RowsKept
<1>3. secrets' = Rotated(w)
    BY DEF RotateCommit
<1>4. secrets'[w].status = "primary"
    BY <1>1, <1>2, <1>3 DEF Rotated, NewPrimary
<1>5. old # None => secrets'[old] = [status |-> "previous", valid_until |-> rotation[w].at + Overlap]
    BY <1>1, <1>2, <1>3 DEF Rotated
<1>6. ASSUME NEW s \in Secrets \ {w, old}
      PROVE  \/ secrets'[s] = secrets[s] /\ (old = None \/ secrets[s].status # "previous")
             \/ secrets[s].status = "previous" /\ secrets'[s].status = "revoked"
    <2>1. CASE old # None /\ secrets[s].status = "previous"
        <3>1. secrets'[s] = [secrets[s] EXCEPT !.status = "revoked"]
            BY <1>3, <2>1 DEF Rotated
        <3>2. secrets[s] \in Row
            BY DEF TypeOK
        <3>. QED
            BY <2>1, <3>1, <3>2 DEF Row
    <2>2. CASE ~(old # None /\ secrets[s].status = "previous")
        BY <1>3, <2>2 DEF Rotated
    <2>. QED
        BY <2>1, <2>2
<1>. QED
    BY <1>1, <1>2, <1>4, <1>5, <1>6

(* Steps that touch neither rows nor rotations.                            *)
LEMMA RowsApart ==
    ASSUME RowsKept, OnePrimary, UNCHANGED <<secrets, column, rotation, crossed>>,
           ~crossed => \A r \in Requests : answer'[r] # "error"
    PROVE  RowsKept' /\ OnePrimary'
<1>1. \A x : WithStatus(x)' = WithStatus(x)
    BY DEF WithStatus
<1>2. \A s : FetchPrimary(s)' <=> FetchPrimary(s)
    BY <1>1 DEF FetchPrimary
<1>3. RowsKept'
    BY <1>1 DEF RowsKept
<1>4. OnePrimary'
    <2>1. SUFFICES ASSUME ~crossed PROVE OnePrimary'
        BY DEF OnePrimary
    <2>. QED
        BY <1>1, <2>1 DEF OnePrimary, FetchPrimary
<1>. QED
    BY <1>3, <1>4

(* A rotation reads.                                                       *)
LEMMA ReadRows ==
    ASSUME TypeOK, RowsKept, OnePrimary, NEW w \in Rotations, RotateRead(w)
    PROVE  RowsKept' /\ OnePrimary'
<1>1. /\ UNCHANGED <<secrets, column, answer>> /\ rotation[w].stage = "new"
      /\ crossed' <=> (crossed \/ \E v \in Rotations : rotation[v].stage = "read")
    BY DEF RotateRead, stored, gate
<1>2. \A x : WithStatus(x)' = WithStatus(x)
    BY <1>1 DEF WithStatus
<1>3. \A v \in Rotations : v # w => rotation'[v] = rotation[v]
    BY DEF RotateRead, TypeOK
<1>4. \/ rotation'[w].stage = "error"
      \/ /\ rotation'[w].stage = "read" /\ FetchPrimary(rotation'[w].primary)
    BY DEF RotateRead, TypeOK
<1>5. rotation'[w].stage # "done" /\ secrets[w].status = "absent"
    BY <1>1, <1>4 DEF RowsKept
<1>6. rotation'[w].stage = "read" /\ rotation'[w].primary # None =>
          secrets[rotation'[w].primary].status # "absent"
    BY <1>4 DEF FetchPrimary, WithStatus
<1>7. RowsKept'
    <2>1. \A v \in Rotations : secrets'[v].status = "absent" <=> rotation'[v].stage # "done"
        BY <1>1, <1>3, <1>5 DEF RowsKept
    <2>2. \A v \in Rotations : rotation'[v].stage = "read" /\ rotation'[v].primary # None =>
              secrets'[rotation'[v].primary].status # "absent"
        BY <1>1, <1>3, <1>6 DEF RowsKept
    <2>. QED
        BY <1>1, <1>2, <2>1, <2>2 DEF RowsKept
<1>8. OnePrimary'
    <2>1. SUFFICES ASSUME ~crossed' PROVE OnePrimary'
        BY DEF OnePrimary
    <2>2. ~crossed /\ \A v \in Rotations : rotation[v].stage # "read"
        BY <1>1, <2>1
    <2>3. \A v \in Rotations : rotation'[v].stage = "read" => v = w
        BY <1>3, <2>2
    <2>4. \A v \in Rotations : rotation'[v].stage = "read" => FetchPrimary(rotation'[v].primary)
        BY <1>4, <2>3
    <2>. QED
        BY <1>1, <1>2, <2>2, <2>3, <2>4 DEF OnePrimary, FetchPrimary
<1>. QED
    BY <1>7, <1>8

(* A rotation commits.                                                     *)
LEMMA CommitRows ==
    ASSUME TypeOK, RowsKept, OnePrimary, NEW w \in Rotations, RotateCommit(w)
    PROVE  /\ RowsKept' /\ OnePrimary'
           /\ w \in WithStatus("primary")'
<1> DEFINE old == rotation[w].primary
<1>1. /\ w \in Secrets /\ secrets[w].status = "absent"
      /\ old # w /\ old \in Secrets \cup {None}
      /\ secrets'[w].status = "primary"
      /\ old # None => /\ secrets'[old].status = "previous"
                       /\ secrets'[old].valid_until = rotation[w].at + Overlap
      /\ \A s \in Secrets \ {w, old} :
            \/ secrets'[s] = secrets[s] /\ (old = None \/ secrets[s].status # "previous")
            \/ secrets[s].status = "previous" /\ secrets'[s].status = "revoked"
    BY RotatedFacts
<1>2. /\ column' = w /\ rotation[w].stage = "read"
      /\ UNCHANGED <<answer, crossed>>
      /\ rotation' = [rotation EXCEPT ![w] = [stage |-> "done", primary |-> None, at |-> 0]]
    BY DEF RotateCommit, gate
<1>3. rotation'[w].stage = "done" /\ \A v \in Rotations : v # w => rotation'[v] = rotation[v]
    BY <1>2 DEF TypeOK
<1>4. rotation[w].at + Overlap \in Nat
    BY TimesAssumption DEF TypeOK, Time
<1>5. w \in WithStatus("primary")'
    BY <1>1 DEF WithStatus
<1>6. \A s \in Secrets : secrets[s].status # "absent" => secrets'[s].status # "absent"
    BY <1>1, NamesAssumption
<1>7. RowsKept'
    <2>1. ASSUME NEW v \in Rotations
          PROVE  secrets'[v].status = "absent" <=> rotation'[v].stage # "done"
        <3>1. CASE v = w
            BY <1>1, <1>3, <3>1
        <3>2. CASE v = old
            <4>1. old # None /\ v # w
                BY <1>1, <3>2, NamesAssumption DEF Secrets
            <4>2. secrets[v].status # "absent"
                BY <1>2, <3>2, <4>1 DEF RowsKept
            <4>. QED
                BY <1>1, <1>3, <3>2, <4>1, <4>2 DEF RowsKept
        <3>3. CASE v # w /\ v # old
            <4>1. secrets'[v].status = "absent" <=> secrets[v].status = "absent"
                BY <1>1, <3>3 DEF Secrets
            <4>. QED
                BY <1>3, <3>3, <4>1 DEF RowsKept
        <3>. QED
            BY <3>1, <3>2, <3>3
    <2>2. ASSUME NEW v \in Rotations, rotation'[v].stage = "read", rotation'[v].primary # None
          PROVE  secrets'[rotation'[v].primary].status # "absent"
        <3>1. v # w /\ rotation'[v] = rotation[v]
            BY <1>3, <2>2
        <3>2. rotation[v].primary \in Secrets
            BY <2>2, <3>1 DEF TypeOK
        <3>. QED
            BY <1>6, <2>2, <3>1, <3>2 DEF RowsKept
    <2>3. WithStatus("primary")' # {}
        BY <1>5
    <2>4. ASSUME NEW s \in WithStatus("previous")'
          PROVE  \/ s = old /\ old # None
                 \/ old = None /\ secrets'[s] = secrets[s] /\ s \in WithStatus("previous")
        <3>1. s \in Secrets /\ secrets'[s].status = "previous"
            BY <2>4 DEF WithStatus
        <3>2. s # w
            BY <1>1, <3>1
        <3>3. s # None
            BY <3>1, NamesAssumption
        <3>. QED
            BY <1>1, <3>1, <3>2, <3>3 DEF WithStatus
    <2>5. \A s, t \in WithStatus("previous")' : s = t
        BY <2>4 DEF RowsKept
    <2>6. \A s \in WithStatus("previous")' : secrets'[s].valid_until \in Nat
        BY <1>1, <1>4, <2>4 DEF RowsKept
    <2>. QED
        BY <2>1, <2>2, <2>3, <2>5, <2>6 DEF RowsKept
<1>8. OnePrimary'
    <2>1. SUFFICES ASSUME ~crossed' PROVE OnePrimary'
        BY DEF OnePrimary
    <2>2. ~crossed /\ \A v \in Rotations : rotation[v].stage = "read" => v = w
        BY <1>2, <2>1 DEF OnePrimary
    <2>3. \A v \in Rotations : rotation'[v].stage # "read"
        BY <1>3, <2>2
    <2>4. FetchPrimary(old)
        BY <1>2, <2>2 DEF OnePrimary
    <2>5. ASSUME NEW s \in Secrets, s # w PROVE secrets'[s].status # "primary"
        <3>1. CASE s = old
            <4>1. old # None
                BY <3>1, NamesAssumption
            <4>. QED
                BY <1>1, <3>1, <4>1
        <3>2. CASE s # old
            <4>1. secrets[s].status # "primary"
                BY <2>4, <3>2 DEF FetchPrimary, WithStatus
            <4>. QED
                BY <1>1, <2>5, <3>2, <4>1
        <3>. QED
            BY <3>1, <3>2
    <2>6. WithStatus("primary")' = {w}
        BY <1>1, <2>5 DEF WithStatus
    <2>. QED
        BY <1>2, <2>2, <2>3, <2>6 DEF OnePrimary
<1>. QED
    BY <1>5, <1>7, <1>8

(* A call never changes rows or rotations; it ends in an error only when   *)
(* it finds two primary rows, which takes overlapping rotations.           *)
LEMMA HandleRows ==
    ASSUME TypeOK, RowsKept, OnePrimary, NEW r \in Requests, Handle(r)
    PROVE  /\ RowsKept' /\ OnePrimary'
           /\ UNCHANGED <<clock, secrets, column, rotation, crossed>>
<1>1. UNCHANGED <<clock, secrets, column, rotation, crossed>>
    BY DEF Handle, Arrive, RefuseUnkeyed, LoadPartner, ReadPrimary, ReadPrevious, VerifyApiKey,
           GetTokens, GetTs, SetTokens, SetTs, FailOpen, stored, rotates
<1>2. ASSUME ~crossed PROVE ~FetchRaises
    <2>1. \A x, y \in WithStatus("primary") : x = y
        BY <1>2 DEF OnePrimary
    <2>. QED
        BY <2>1, AtMostOne DEF FetchRaises
<1>3. ASSUME ~crossed, NEW q \in Requests PROVE answer'[q] # "error"
    <2>1. answer[q] # "error"
        BY <1>3 DEF OnePrimary
    <2>2. UNCHANGED answer \/ \E code \in Answers \ {"error"} : End(r, code)
        BY <1>2, <1>3 DEF Handle, Arrive, RefuseUnkeyed, LoadPartner, ReadPrimary, ReadPrevious,
           VerifyApiKey, GetTokens, GetTs, SetTokens, SetTs, FailOpen, VerifyHmac, Pass, Answers
    <2>. QED
        BY <2>1, <2>2 DEF End, TypeOK
<1>. QED
    BY <1>1, <1>3, RowsApart

-----------------------------------------------------------------------------
(* Who is let in                                                           *)

(* A rotation's answer comes after its commit, so the secret it commits is *)
(* none that a call already carries, and nothing is untold.                *)
LEMMA ToldFacts ==
    ASSUME TypeOK, NEW w \in Rotations, RotateRead(w) \/ RotateCommit(w)
    PROVE  /\ Told \subseteq Told' /\ Told \subseteq Secrets
           /\ RotateCommit(w) => w \notin Told
<1>1. w # First
    BY NamesAssumption
<1>2. \A v \in Rotations : v # w => rotation'[v] = rotation[v]
    BY DEF RotateRead, RotateCommit, TypeOK
<1>3. rotation[w].stage # "done"
    BY DEF RotateRead, RotateCommit
<1>. QED
    BY <1>1, <1>2, <1>3 DEF Told, Secrets, RotateCommit

(* The headers of a call stay as they came while rotations and the clock   *)
(* go on.                                                                  *)
LEMMA OutsideCalls ==
    ASSUME TypeOK, CallsKept,
           \/ Tick \/ UpdatePartner \/ \E k \in ApiKeys : CreateApiKey(k)
           \/ \E w \in Rotations : RotateRead(w) \/ RotateCommit(w)
    PROVE  CallsKept' /\ UNCHANGED <<pc, call, answer, welcome>> /\ clock <= clock'
<1>1. UNCHANGED <<pc, call, answer, welcome>>
    BY DEF Tick, UpdatePartner, CreateApiKey, RotateRead, RotateCommit, gate
<1>2. clock <= clock' /\ clock \in Nat /\ clock' \in Nat
    BY TimesAssumption DEF Tick, UpdatePartner, CreateApiKey, RotateRead, RotateCommit, TypeOK, Time
<1>3. Told \subseteq Told'
    <2>1. CASE UNCHANGED rotation
        BY <2>1 DEF Told
    <2>2. CASE \E w \in Rotations : RotateRead(w) \/ RotateCommit(w)
        BY <2>2, ToldFacts
    <2>. QED
        BY <2>1, <2>2 DEF Tick, UpdatePartner, CreateApiKey, rotates
<1>4. \A r \in Requests : call[r].arrived \in Nat
    BY TimesAssumption DEF TypeOK, Call, Time
<1>. QED
    BY <1>1, <1>2, <1>3, <1>4 DEF CallsKept, Asking

(* What a step of one call does to its own stage, headers and answer: the  *)
(* handler goes on, or is left.                                            *)
LEMMA HandleFrame ==
    ASSUME TypeOK, NEW r \in Requests, Handle(r)
    PROVE  \A q \in Requests \ {r} :
              /\ pc'[q] = pc[q] /\ call'[q] = call[q] /\ answer'[q] = answer[q]
              /\ welcome'[q] = welcome[q]
<1>1. ASSUME NEW q \in Requests \ {r} PROVE pc'[q] = pc[q]
    BY DEF Handle, Arrive, RefuseUnkeyed, LoadPartner, ReadPrimary, ReadPrevious, VerifyApiKey,
           GetTokens, GetTs, SetTokens, SetTs, FailOpen, VerifyHmac, Pass, End, Goto, TypeOK
<1>2. ASSUME NEW q \in Requests \ {r} PROVE call'[q] = call[q]
    BY DEF Handle, Arrive, RefuseUnkeyed, LoadPartner, ReadPrimary, ReadPrevious, VerifyApiKey,
           GetTokens, GetTs, SetTokens, SetTs, FailOpen, VerifyHmac, Pass, End, TypeOK
<1>3. ASSUME NEW q \in Requests \ {r} PROVE answer'[q] = answer[q]
    BY DEF Handle, Arrive, RefuseUnkeyed, LoadPartner, ReadPrimary, ReadPrevious, VerifyApiKey,
           GetTokens, GetTs, SetTokens, SetTs, FailOpen, VerifyHmac, Pass, End, TypeOK
<1>4. ASSUME NEW q \in Requests \ {r} PROVE welcome'[q] = welcome[q]
    BY DEF Handle, Arrive, RefuseUnkeyed, LoadPartner, ReadPrimary, ReadPrevious, VerifyApiKey,
           GetTokens, GetTs, SetTokens, SetTs, FailOpen, TypeOK
<1>. QED
    BY <1>1, <1>2, <1>3, <1>4

(* The steps of a call after its arrival, as the signature sees them: it   *)
(* is left with an answer, or goes on.                                     *)
Leaves(r) ==
    /\ pc[r] # "done" /\ pc'[r] = "done"
    /\ answer'[r] \in {"admitted", "limited"} => Passed(r)
Refuses(r) ==
    \/ pc[r] = "partner" /\ call[r].signed = None
    \/ pc[r] = "primary" /\ FetchPrimary(None) /\ call[r].signed # column
    \/ /\ pc[r] = "previous"
       /\ call[r].signed # call[r].primary
       /\ \E s : /\ call[r].signed # s
                 /\ \/ s \in Secrets /\ PreviousIsValid(s, call[r].arrived)
                    \/ \A t \in Secrets : ~PreviousIsValid(t, call[r].arrived)
Looks(r) ==
    \/ /\ pc[r] = "partner" /\ pc'[r] = "primary"
       /\ call[r].signed # None /\ call'[r] = call[r]
    \/ /\ pc[r] = "primary" /\ pc'[r] = "previous"
       /\ FetchPrimary(call'[r].primary) /\ call'[r].primary # None
       /\ call'[r].signed = call[r].signed /\ call'[r].arrived = call[r].arrived
Accepts(r) ==
    /\ pc'[r] = "key"
    /\ \/ pc[r] = "primary" /\ FetchPrimary(None) /\ call[r].signed \in {column, None}
       \/ /\ pc[r] = "previous"
          /\ \/ call[r].signed \in {call[r].primary, None}
             \/ PreviousIsValid(call[r].signed, call[r].arrived)

LEMMA OwnStep ==
    ASSUME TypeOK, NEW r \in Requests, Handle(r)
    PROVE  \/ Arrive(r)
           \/ /\ welcome'[r] = welcome[r]
              /\ \/ Leaves(r) /\ (answer'[r] = "bad_signature" => Refuses(r))
                 \/ answer'[r] = answer[r] /\ (Looks(r) \/ Accepts(r))
                 \/ answer'[r] = answer[r] /\ Passed(r) /\ pc'[r] \in {"tokens", "ts", "set_tokens", "set_ts"}
<1>1. pc \in [Requests -> Stages] /\ call \in [Requests -> Call] /\ answer \in [Requests -> Answers]
    BY DEF TypeOK
<1>2. ASSUME NEW code, End(r, code) PROVE pc'[r] = "done" /\ answer'[r] = code
    BY <1>1, <1>2 DEF End, Goto
<1>3. ASSUME NEW stage, Goto(r, stage) PROVE pc'[r] = stage
    BY <1>1, <1>3 DEF Goto
<1>4. CASE RefuseUnkeyed(r)
    <2>1. pc[r] = "new" /\ End(r, "unkeyed") /\ UNCHANGED welcome
        BY <1>4 DEF RefuseUnkeyed
    <2>. QED
        BY <1>2, <2>1 DEF Leaves
<1>5. CASE LoadPartner(r)
    <2>1. pc[r] = "partner" /\ UNCHANGED welcome
        BY <1>5 DEF LoadPartner
    <2>2. CASE End(r, "not_found") \/ End(r, "stale")
        BY <1>2, <2>1, <2>2 DEF Leaves
    <2>3. CASE call[r].signed = None /\ End(r, "bad_signature")
        BY <1>2, <2>1, <2>3 DEF Leaves, Refuses
    <2>4. CASE call[r].signed # None /\ Pass(r, "primary")
        BY <1>3, <2>1, <2>4 DEF Pass, Looks
    <2>. QED
        BY <1>5, <2>2, <2>3, <2>4 DEF LoadPartner
<1>6. CASE ReadPrimary(r)
    <2>1. pc[r] = "primary" /\ UNCHANGED welcome
        BY <1>6 DEF ReadPrimary
    <2>2. CASE End(r, "error")
        BY <1>2, <2>1, <2>2 DEF Leaves
    <2>3. CASE \E s \in Secrets : /\ FetchPrimary(s) /\ call' = [call EXCEPT ![r].primary = s]
                                  /\ Goto(r, "previous") /\ UNCHANGED answer
        <3>1. PICK s \in Secrets : /\ FetchPrimary(s) /\ call' = [call EXCEPT ![r].primary = s]
                                   /\ Goto(r, "previous") /\ UNCHANGED answer
            BY <2>3
        <3>2. s # None
            BY NamesAssumption
        <3>3. /\ call'[r].primary = s /\ call'[r].signed = call[r].signed
              /\ call'[r].arrived = call[r].arrived
            BY <1>1, <3>1 DEF Call
        <3>. QED
            BY <1>3, <2>1, <3>1, <3>2, <3>3 DEF Looks
    <2>4. CASE FetchPrimary(None) /\ VerifyHmac(r, column, None)
        <3>1. CASE Verify(r, column, None) /\ Pass(r, "key")
            <4>1. call[r].signed = column \/ call[r].signed = None
                BY <3>1 DEF Verify
            <4>. QED
                BY <1>3, <2>1, <2>4, <3>1, <4>1 DEF Pass, Accepts
        <3>2. CASE ~Verify(r, column, None) /\ End(r, "bad_signature")
            BY <1>2, <2>1, <2>4, <3>2 DEF Verify, Leaves, Refuses
        <3>. QED
            BY <2>4, <3>1, <3>2 DEF VerifyHmac
    <2>. QED
        BY <1>6, <2>2, <2>3, <2>4 DEF ReadPrimary
<1>7. CASE ReadPrevious(r)
    <2>1. pc[r] = "previous" /\ UNCHANGED welcome
        BY <1>7 DEF ReadPrevious
    <2>2. PICK s : /\ VerifyHmac(r, call[r].primary, s)
                   /\ \/ s = None /\ \A t \in Secrets : ~PreviousIsValid(t, call[r].arrived)
                      \/ s \in Secrets /\ PreviousIsValid(s, call[r].arrived)
        BY <1>7 DEF ReadPrevious
    <2>3. CASE Verify(r, call[r].primary, s) /\ Pass(r, "key")
        BY <1>3, <2>1, <2>2, <2>3 DEF Verify, Pass, Accepts
    <2>4. CASE ~Verify(r, call[r].primary, s) /\ End(r, "bad_signature")
        BY <1>2, <2>1, <2>2, <2>4 DEF Verify, Leaves, Refuses
    <2>. QED
        BY <2>2, <2>3, <2>4 DEF VerifyHmac
<1>8. CASE VerifyApiKey(r)
    <2>1. pc[r] = "key" /\ UNCHANGED welcome /\ (Pass(r, "tokens") \/ End(r, "unauthorized"))
        BY <1>8 DEF VerifyApiKey
    <2>. QED
        BY <1>2, <1>3, <2>1 DEF Pass, Passed, Leaves
<1>9. CASE GetTokens(r) \/ GetTs(r) \/ SetTokens(r)
    <2>1. /\ UNCHANGED <<answer, welcome>> /\ Passed(r)
          /\ Goto(r, "ts") \/ Goto(r, "set_tokens") \/ Goto(r, "set_ts")
        BY <1>9 DEF GetTokens, GetTs, SetTokens, Passed
    <2>. QED
        BY <1>3, <2>1
<1>10. CASE SetTs(r) \/ FailOpen(r)
    <2>1. /\ UNCHANGED welcome /\ Passed(r) /\ pc[r] # "done"
          /\ End(r, "admitted") \/ End(r, "limited")
        BY <1>10 DEF SetTs, FailOpen, Passed
    <2>. QED
        BY <1>2, <2>1 DEF Leaves
<1>. QED
    BY <1>4, <1>5, <1>6, <1>7, <1>8, <1>9, <1>10 DEF Handle

(* What a call brings.                                                     *)
LEMMA ArriveFacts ==
    ASSUME TypeOK, NEW r \in Requests, Arrive(r)
    PROVE  /\ pc[r] = "new" /\ pc'[r] = "partner" /\ answer'[r] = answer[r]
           /\ call'[r].signed \in Told \cup {None} /\ call'[r].arrived = Now
           /\ welcome'[r] <=> call'[r].signed # None /\ InForce(call'[r].signed, Now)
<1>1. /\ pc \in [Requests -> Stages] /\ call \in [Requests -> Call]
      /\ welcome \in [Requests -> BOOLEAN]
    BY DEF TypeOK
<1>2. PICK s \in Told \cup {None}, t \in {clock, 0, None}, k \in issued \cup {None} :
              /\ call' = [call EXCEPT ![r].signed = s, ![r].fresh = Fresh(t), ![r].key = k,
                                      ![r].arrived = Now]
              /\ welcome' = [welcome EXCEPT ![r] = s # None /\ InForce(s, Now)]
    BY DEF Arrive
<1>3. call'[r].signed = s /\ call'[r].arrived = Now
    BY <1>1, <1>2 DEF Call
<1>4. welcome'[r] <=> s # None /\ InForce(s, Now)
    BY <1>1, <1>2
<1>5. pc[r] = "new" /\ pc'[r] = "partner" /\ answer'[r] = answer[r]
    BY <1>1 DEF Arrive, Goto
<1>. QED
    BY <1>2, <1>3, <1>4, <1>5

LEMMA HandleCalls ==
    ASSUME TypeOK, CallsKept, NEW r \in Requests, Handle(r),
           UNCHANGED <<clock, rotation>>
    PROVE  CallsKept'
<1>1. Told' = Told
    BY DEF Told
<1> DEFINE Kept(at, c, a, w) ==
        /\ at \in {"partner", "primary", "previous"} => c.signed \in Told \cup {None} /\ c.arrived <= clock
        /\ at \in {"primary", "previous"} => c.signed # None
        /\ at \in {"partner", "primary", "previous"} /\ w => c.signed # None
        /\ at # "done" => a = "none"
<1>2. SUFFICES ASSUME NEW q \in Requests PROVE Kept(pc'[q], call'[q], answer'[q], welcome'[q])
    BY <1>1 DEF CallsKept, Asking
<1>3. Kept(pc[q], call[q], answer[q], welcome[q])
    BY DEF CallsKept, Asking
<1>4. CASE q # r
    BY <1>3, <1>4, HandleFrame
<1>5. CASE q = r /\ Arrive(r)
    <2>1. Now <= clock
        BY NowFacts DEF TypeOK
    <2>. QED
        BY <1>3, <1>5, <2>1, ArriveFacts
<1>6. CASE q = r /\ ~Arrive(r)
    BY <1>3, <1>6, OwnStep DEF Leaves, Looks, Accepts, Passed
<1>. QED
    BY <1>4, <1>5, <1>6

(* A rotation gives no right back to an outdated secret, unless it crosses *)
(* another one: it demotes the secret that is primary.                     *)
LEMMA OutsideEntitled ==
    ASSUME TypeOK, RowsKept, OnePrimary, CallsKept, Entitled,
           \/ Tick \/ UpdatePartner \/ \E k \in ApiKeys : CreateApiKey(k)
           \/ \E w \in Rotations : RotateRead(w) \/ RotateCommit(w)
    PROVE  Entitled'
<1>1. UNCHANGED <<pc, call, answer, welcome>>
    BY OutsideCalls
<1>2. SUFFICES ASSUME ~crossed' PROVE Entitled'
    BY DEF Entitled
<1>3. ~crossed
    BY <1>2 DEF Tick, UpdatePartner, CreateApiKey, RotateRead, RotateCommit, rotates
<1>4. ASSUME NEW s \in Told, NEW t, Outdated(s, t) PROVE Outdated(s, t)'
    <2>1. CASE UNCHANGED secrets
        BY <1>4, <2>1 DEF Outdated, WithStatus
    <2>2. ASSUME NEW w \in Rotations, RotateCommit(w) PROVE Outdated(s, t)'
        <3>1. s \in Secrets /\ s # w
            BY <2>2, ToldFacts
        <3>2. s # rotation[w].primary
            <4>1. FetchPrimary(rotation[w].primary)
                BY <1>3, <2>2 DEF OnePrimary, RotateCommit
            <4>2. s # None /\ secrets[s].status # "primary"
                BY <1>4, <3>1, NamesAssumption DEF Outdated
            <4>. QED
                BY <4>1, <4>2 DEF FetchPrimary, WithStatus
        <3>3. \/ secrets'[s] = secrets[s]
              \/ secrets'[s].status = "revoked"
            BY <2>2, <3>1, <3>2, RotatedFacts
        <3>4. WithStatus("primary")' # {}
            BY <2>2, CommitRows
        <3>. QED
            BY <1>4, <3>3, <3>4 DEF Outdated
    <2>3. UNCHANGED secrets \/ \E w \in Rotations : RotateCommit(w)
        BY DEF Tick, UpdatePartner, CreateApiKey, RotateRead, stored
    <2>. QED
        BY <2>1, <2>2, <2>3
<1>5. ASSUME NEW r \in Requests, Asking(r), call[r].signed # None, ~welcome[r]
      PROVE  Outdated(call[r].signed, call[r].arrived)'
    <2>1. call[r].signed \in Told /\ Outdated(call[r].signed, call[r].arrived)
        BY <1>3, <1>5 DEF CallsKept, Entitled
    <2>. QED
        BY <1>1, <1>4, <2>1 DEF Outdated
<1>. QED
    BY <1>1, <1>2, <1>3, <1>5 DEF Entitled, Asking, Passed

(* A call is let in only for a secret that is not outdated.                *)
LEMMA HandleEntitled ==
    ASSUME TypeOK, RowsKept, OnePrimary, CallsKept, Entitled, NEW r \in Requests, Handle(r)
    PROVE  Entitled'
<1>1. UNCHANGED <<clock, secrets, column, rotation, crossed>>
    BY HandleRows
<1>2. SUFFICES ASSUME ~crossed PROVE Entitled'
    BY <1>1 DEF Entitled
<1>3. \A s, t : Outdated(s, t)' <=> Outdated(s, t)
    BY <1>1 DEF Outdated, WithStatus
<1> DEFINE Kept(at, c, a, w) ==
        /\ at \in {"partner", "primary", "previous"} /\ c.signed # None /\ ~w => Outdated(c.signed, c.arrived)
        /\ at = "previous" /\ c.signed = c.primary => w
        /\ at \in {"key", "tokens", "ts", "set_tokens", "set_ts"} => w
        /\ a \in {"admitted", "limited"} => w
<1>4. SUFFICES ASSUME NEW q \in Requests PROVE Kept(pc'[q], call'[q], answer'[q], welcome'[q])
    BY <1>1 DEF Entitled, Asking, Passed, Outdated, WithStatus
<1>5. Kept(pc[q], call[q], answer[q], welcome[q])
    BY <1>2 DEF Entitled, Asking, Passed
<1>6. CASE q # r
    BY <1>5, <1>6, HandleFrame
<1>7. CASE q = r /\ Arrive(r)
    <2> DEFINE s == call'[r].signed
    <2>1. /\ pc[r] = "new" /\ pc'[r] = "partner" /\ answer'[r] = answer[r]
          /\ s \in Told \cup {None} /\ call'[r].arrived = Now
          /\ welcome'[r] <=> s # None /\ InForce(s, Now)
        BY <1>7, ArriveFacts
    <2>2. ASSUME s # None, ~welcome'[r] PROVE Outdated(s, Now)
        <3>1. s \in Told /\ ~InForce(s, Now) /\ s \in Secrets
            BY <2>1, <2>2 DEF Told, Secrets
        <3>2. secrets[s].status # "primary" /\ secrets[s].status \in Statuses
            BY <3>1 DEF InForce, TypeOK, Row
        <3>3. CASE secrets[s].status = "previous"
            <4>1. secrets[s].valid_until \in Nat /\ Now \in Nat
                BY <3>1, <3>3, NowFacts, TimesAssumption DEF RowsKept, WithStatus, TypeOK, Time
            <4>. QED
                BY <3>1, <3>3, <4>1 DEF InForce, Outdated
        <3>4. CASE secrets[s].status = "absent"
            <4>1. s = First
                BY <3>1, <3>4 DEF Told, RowsKept
            <4>2. WithStatus("primary") # {}
                BY <3>1, <4>1 DEF InForce, RowsKept
            <4>. QED
                BY <3>4, <4>2 DEF Outdated
        <3>5. CASE secrets[s].status = "revoked"
            BY <3>5 DEF Outdated
        <3>. QED
            BY <3>2, <3>3, <3>4, <3>5 DEF Statuses
    <2>3. answer'[r] = "none"
        BY <2>1 DEF CallsKept
    <2>. QED
        BY <1>7, <2>1, <2>2, <2>3
<1>8. CASE q = r /\ ~Arrive(r)
    <2>1. CASE Leaves(r) /\ welcome'[r] = welcome[r]
        BY <1>5, <1>8, <2>1 DEF Leaves, Passed
    <2>2. CASE Looks(r) /\ welcome'[r] = welcome[r] /\ answer'[r] = answer[r]
        <3>1. CASE pc'[r] = "primary"
            BY <1>5, <1>8, <2>2, <3>1 DEF Looks
        <3>2. CASE pc'[r] = "previous"
            <4>1. /\ pc[r] = "primary" /\ call[r].signed # None
                  /\ FetchPrimary(call'[r].primary) /\ call'[r].primary # None
                  /\ call'[r].signed = call[r].signed /\ call'[r].arrived = call[r].arrived
                BY <2>2, <3>2 DEF Looks, CallsKept
            <4>2. secrets[call'[r].primary].status = "primary"
                BY <4>1 DEF FetchPrimary, WithStatus
            <4>3. call'[r].signed = call'[r].primary => ~Outdated(call[r].signed, call[r].arrived)
                BY <4>1, <4>2 DEF Outdated
            <4>. QED
                BY <1>5, <1>8, <2>2, <3>2, <4>1, <4>3
        <3>. QED
            BY <2>2, <3>1, <3>2 DEF Looks
    <2>3. CASE Accepts(r) /\ welcome'[r] = welcome[r] /\ answer'[r] = answer[r]
        <3>1. pc[r] \in {"primary", "previous"} /\ call[r].signed # None
            BY <2>3 DEF Accepts, CallsKept
        <3>2. CASE pc[r] = "primary"
            <4>1. call[r].signed = column /\ WithStatus("primary") = {}
                BY <2>3, <3>1, <3>2, NamesAssumption DEF Accepts, FetchPrimary, WithStatus
            <4>2. ~Outdated(call[r].signed, call[r].arrived)
                BY <4>1 DEF Outdated, RowsKept, TypeOK
            <4>. QED
                BY <1>5, <1>8, <2>3, <3>1, <3>2, <4>2 DEF Accepts
        <3>3. CASE pc[r] = "previous" /\ call[r].signed = call[r].primary
            BY <1>5, <1>8, <2>3, <3>3 DEF Accepts
        <3>4. CASE pc[r] = "previous" /\ PreviousIsValid(call[r].signed, call[r].arrived)
            <4>1. call[r].signed \in Secrets /\ call[r].arrived \in Nat
                BY <3>1, TimesAssumption DEF TypeOK, Call, Time
            <4>2. secrets[call[r].signed].valid_until \in Nat
                BY <3>4, <4>1 DEF PreviousIsValid, RowsKept, WithStatus
            <4>3. ~Outdated(call[r].signed, call[r].arrived)
                BY <3>4, <4>1, <4>2 DEF PreviousIsValid, Outdated
            <4>. QED
                BY <1>5, <1>8, <2>3, <3>1, <3>4, <4>3 DEF Accepts
        <3>. QED
            BY <2>3, <3>1, <3>2, <3>3, <3>4 DEF Accepts
    <2>4. CASE /\ Passed(r) /\ pc'[r] \in {"tokens", "ts", "set_tokens", "set_ts"}
               /\ welcome'[r] = welcome[r] /\ answer'[r] = answer[r]
        BY <1>5, <1>8, <2>4 DEF Passed
    <2>. QED
        BY <1>8, <2>1, <2>2, <2>3, <2>4, OwnStep
<1>. QED
    BY <1>6, <1>7, <1>8

-----------------------------------------------------------------------------
(* Who is turned away                                                      *)

(* A rotation commits within the overlap it grants, so that the secret it  *)
(* demotes outlasts every call that has come; nothing told becomes primary *)
(* again.                                                                  *)
LEMMA OutsideServed ==
    ASSUME TypeOK, RowsKept, CallsKept, Served, Overlap > 0,
           \/ Tick \/ UpdatePartner \/ \E k \in ApiKeys : CreateApiKey(k)
           \/ \E w \in Rotations : RotateRead(w) \/ RotateCommit(w)
    PROVE  Served'
<1>1. UNCHANGED <<pc, call, welcome>>
    BY OutsideCalls
<1>2. clock \in Nat /\ Overlap \in Nat /\ \A w \in Rotations : rotation[w].at \in Nat
    BY TimesAssumption DEF TypeOK, Time
<1>3. \A w \in Rotations : rotation'[w].stage = "read" => clock' < rotation'[w].at + Overlap
    <2>1. CASE Tick
        BY <2>1 DEF Tick, rotates
    <2>2. CASE UpdatePartner \/ \E k \in ApiKeys : CreateApiKey(k)
        BY <2>2 DEF UpdatePartner, CreateApiKey, rotates, Served
    <2>3. ASSUME NEW w \in Rotations, RotateRead(w) \/ RotateCommit(w),
                 NEW v \in Rotations, rotation'[v].stage = "read"
          PROVE  clock' < rotation'[v].at + Overlap
        <3>1. clock' = clock
            BY <2>3 DEF RotateRead, RotateCommit
        <3>2. CASE v # w
            <4>1. rotation'[v] = rotation[v]
                BY <2>3, <3>2 DEF RotateRead, RotateCommit, TypeOK
            <4>. QED
                BY <2>3, <3>1, <4>1 DEF Served
        <3>3. CASE v = w
            <4>1. rotation'[v].at = clock
                BY <2>3, <3>3 DEF RotateRead, RotateCommit, TypeOK
            <4>. QED
                BY <1>2, <3>1, <4>1
        <3>. QED
            BY <3>2, <3>3
    <2>. QED
        BY <2>1, <2>2, <2>3
<1>4. CASE UNCHANGED secrets
    BY <1>1, <1>3, <1>4 DEF Served, Asking
<1>5. CASE \E w \in Rotations : RotateCommit(w)
    <2>1. PICK w \in Rotations : RotateCommit(w)
        BY <1>5
    <2>2. ASSUME NEW r \in Requests, Asking(r), call[r].signed # None
          PROVE  /\ secrets'[call[r].signed].status = "primary" =>
                       secrets[call[r].signed].status = "primary"
                 /\ secrets'[call[r].signed].status = "previous" =>
                       \/ secrets'[call[r].signed] = secrets[call[r].signed]
                       \/ secrets'[call[r].signed].valid_until > call[r].arrived
        <3> DEFINE s == call[r].signed
        <3>1. s \in Secrets /\ s # w /\ call[r].arrived <= clock /\ call[r].arrived \in Nat
            BY <2>1, <2>2, ToldFacts, TimesAssumption DEF CallsKept, TypeOK, Call, Time
        <3>2. CASE s = rotation[w].primary
            <4>1. secrets'[s].status = "previous" /\ secrets'[s].valid_until = rotation[w].at + Overlap
                BY <2>1, <2>2, <3>2, RotatedFacts
            <4>2. clock < rotation[w].at + Overlap
                BY <2>1 DEF Served, RotateCommit
            <4>. QED
                BY <1>2, <3>1, <4>1, <4>2
        <3>3. CASE s # rotation[w].primary
            BY <2>1, <3>1, <3>3, RotatedFacts
        <3>. QED
            BY <3>2, <3>3
    <2>3. \A r \in Requests : pc[r] = "previous" => Asking(r) /\ call[r].signed # None
        BY DEF CallsKept, Asking
    <2>4. \A r \in Requests : Asking(r) /\ welcome[r] => call[r].signed # None
        BY DEF CallsKept
    <2>5. \A r \in Requests :
              pc[r] = "previous" /\ secrets'[call[r].signed].status = "primary" =>
                  call[r].signed = call[r].primary
        BY <2>2, <2>3 DEF Served
    <2>6. \A r \in Requests :
              Asking(r) /\ welcome[r] /\ secrets'[call[r].signed].status = "previous" =>
                  secrets'[call[r].signed].valid_until > call[r].arrived
        BY <2>2, <2>4 DEF Served
    <2>. QED
        BY <1>1, <1>3, <2>5, <2>6 DEF Served, Asking
<1>6. UNCHANGED secrets \/ \E w \in Rotations : RotateCommit(w)
    BY DEF Tick, UpdatePartner, CreateApiKey, RotateRead, stored
<1>. QED
    BY <1>4, <1>5, <1>6

LEMMA HandleServed ==
    ASSUME TypeOK, RowsKept, OnePrimary, CallsKept, Served, NEW r \in Requests, Handle(r)
    PROVE  Served'
<1>1. UNCHANGED <<clock, secrets, rotation>>
    BY HandleRows
<1> DEFINE Kept(at, c, w) ==
        /\ at = "previous" /\ secrets[c.signed].status = "primary" => c.signed = c.primary
        /\ at \in {"partner", "primary", "previous"} /\ w /\ secrets[c.signed].status = "previous" =>
              secrets[c.signed].valid_until > c.arrived
<1>2. SUFFICES ASSUME NEW q \in Requests PROVE Kept(pc'[q], call'[q], welcome'[q])
    BY <1>1 DEF Served, Asking
<1>3. Kept(pc[q], call[q], welcome[q])
    BY DEF Served, Asking
<1>4. CASE q # r
    BY <1>3, <1>4, HandleFrame
<1>5. CASE q = r /\ Arrive(r)
    <2> DEFINE s == call'[r].signed
    <2>1. /\ pc'[r] = "partner" /\ call'[r].arrived = Now /\ s \in Told \cup {None}
          /\ welcome'[r] <=> s # None /\ InForce(s, Now)
        BY <1>5, ArriveFacts
    <2>2. ASSUME welcome'[r], secrets[s].status = "previous" PROVE secrets[s].valid_until > Now
        <3>1. s \in Secrets /\ InForce(s, Now)
            BY <2>1, <2>2 DEF Told, Secrets
        <3>2. WithStatus("primary") # {}
            BY <2>2, <3>1 DEF RowsKept
        <3>3. Now < secrets[s].valid_until
            BY <2>2, <3>1, <3>2 DEF InForce
        <3>4. Now \in Nat /\ secrets[s].valid_until \in Nat
            BY <2>2, <3>1, NowFacts, TimesAssumption DEF TypeOK, Time, RowsKept, WithStatus
        <3>. QED
            BY <3>3, <3>4
    <2>. QED
        BY <1>5, <2>1, <2>2
<1>6. CASE q = r /\ ~Arrive(r)
    <2>1. CASE Looks(r) /\ welcome'[r] = welcome[r] /\ pc'[r] = "previous"
        <3>1. /\ pc[r] = "primary" /\ FetchPrimary(call'[r].primary) /\ call'[r].primary # None
              /\ call'[r].signed = call[r].signed /\ call'[r].arrived = call[r].arrived
              /\ call[r].signed \in Secrets
            BY <2>1 DEF Looks, CallsKept, TypeOK, Call
        <3>2. secrets[call[r].signed].status = "primary" => call[r].signed = call'[r].primary
            BY <3>1 DEF FetchPrimary, WithStatus
        <3>. QED
            BY <1>3, <1>6, <2>1, <3>1, <3>2
    <2>2. CASE Looks(r) /\ welcome'[r] = welcome[r] /\ pc'[r] = "primary"
        BY <1>3, <1>6, <2>2 DEF Looks
    <2>3. CASE pc'[r] \notin {"partner", "primary", "previous"}
        BY <1>6, <2>3
    <2>. QED
        BY <1>6, <2>1, <2>2, <2>3, OwnStep DEF Leaves, Looks, Accepts
<1>. QED
    BY <1>4, <1>5, <1>6

(* The step that refuses a welcome call for its signature.                 *)
LEMMA RefusalStep ==
    ASSUME TypeOK, RowsKept, CallsKept, Served, NEW r \in Requests, Handle(r),
           answer[r] # "bad_signature", answer'[r] = "bad_signature", welcome[r]
    PROVE  secrets[call[r].signed].status \in {"revoked", "absent"}
<1>1. Leaves(r) /\ Refuses(r)
    BY OwnStep, ArriveFacts
<1>2. Asking(r) /\ call[r].signed # None
    BY <1>1 DEF Refuses, Asking, CallsKept
<1>3. call[r].signed \in Secrets /\ secrets[call[r].signed].status \in Statuses
    BY <1>2 DEF TypeOK, Call, Row
<1>4. CASE pc[r] = "primary"
    <2>1. WithStatus("primary") = {}
        BY <1>1, <1>4, NamesAssumption DEF Refuses, FetchPrimary, WithStatus
    <2>. QED
        BY <1>3, <2>1 DEF RowsKept
<1>5. CASE pc[r] = "previous"
    <2>1. call[r].signed # call[r].primary
        BY <1>1, <1>5 DEF Refuses
    <2>2. secrets[call[r].signed].status # "primary"
        BY <1>5, <2>1 DEF Served
    <2>3. ASSUME secrets[call[r].signed].status = "previous" PROVE FALSE
        <3>1. PreviousIsValid(call[r].signed, call[r].arrived)
            BY <1>2, <2>3 DEF Served, PreviousIsValid
        <3>2. PICK s \in Secrets : PreviousIsValid(s, call[r].arrived) /\ call[r].signed # s
            BY <1>1, <1>3, <1>5, <3>1 DEF Refuses
        <3>. QED
            BY <1>3, <2>3, <3>2 DEF PreviousIsValid, RowsKept, WithStatus
    <2>. QED
        BY <1>3, <2>2, <2>3 DEF Statuses
<1>. QED
    BY <1>1, <1>2, <1>4, <1>5 DEF Refuses

-----------------------------------------------------------------------------
(* What the bucket has paid for                                            *)

(* The two keys hold together.                                             *)
Settled ==
    /\ tokens = None <=> ts = None
    /\ tokens = None => paid = 0
    /\ tokens # None => ts <= clock /\ Covered(paid, tokens, ts)

(* Steps outside the bucket: nobody begins or ends a check.                *)
LEMMA ApartAccounted ==
    ASSUME TypeOK, Accounted, UNCHANGED bucket, clock' \in Time, clock <= clock',
           \A q \in Requests :
              \/ pc'[q] = pc[q] /\ call'[q] = call[q]
              \/ ~Checking(q) /\ pc'[q] \notin {"ts", "set_tokens", "set_ts"}
    PROVE  Accounted'
<1>1. UNCHANGED <<tokens, ts, paid, clean>>
    BY DEF bucket
<1>2. SUFFICES ASSUME clean PROVE Accounted'
    BY <1>1 DEF Accounted
<1>3. \A q \in Requests : Checking(q)' => Checking(q) /\ pc'[q] = pc[q] /\ call'[q] = call[q]
    BY DEF Checking
<1>4. clock \in Nat /\ clock' \in Nat
    BY TimesAssumption DEF TypeOK, Time
<1>5. \A q \in Requests : call[q].now \in Nat
    BY TimesAssumption DEF TypeOK, Call, Time
<1>6. ts # None => ts \in Nat
    BY TimesAssumption DEF TypeOK, Time
<1>7. \A q, r \in Requests : Checking(q)' /\ Checking(r)' => q = r
    BY <1>2, <1>3 DEF Accounted
<1>8. (\A q \in Requests : pc'[q] # "set_ts") => \A q \in Requests : pc[q] # "set_ts"
    BY DEF Checking
<1>9. (\A q \in Requests : pc'[q] # "set_ts") => Settled'
    BY <1>1, <1>2, <1>4, <1>6, <1>8 DEF Accounted, Settled, Covered
<1>10. \A q \in Requests : pc'[q] = "ts" =>
          /\ call'[q].tokens = tokens' /\ call'[q].now <= clock'
          /\ ts' # None => ts' <= call'[q].now
    BY <1>1, <1>2, <1>3, <1>4, <1>5 DEF Accounted, Checking
<1>11. \A q \in Requests : pc'[q] \in {"set_tokens", "set_ts"} =>
          /\ call'[q].tokens # None /\ call'[q].now <= clock'
          /\ Covered(Spent(q), call[q].tokens, call[q].now)'
    <2>1. SUFFICES ASSUME NEW q \in Requests, pc'[q] \in {"set_tokens", "set_ts"}
                   PROVE  /\ call'[q].tokens # None /\ call'[q].now <= clock'
                          /\ Covered(Spent(q), call[q].tokens, call[q].now)'
        OBVIOUS
    <2>2. pc'[q] = pc[q] /\ call'[q] = call[q]
        BY <1>3, <2>1 DEF Checking
    <2>3. /\ call[q].tokens # None /\ call[q].now <= clock
          /\ Covered(Spent(q), call[q].tokens, call[q].now)
        BY <1>2, <2>1, <2>2 DEF Accounted
    <2>. QED
        BY <1>1, <1>4, <1>5, <2>2, <2>3 DEF Covered, Spent
<1>12. \A q \in Requests : pc'[q] = "set_ts" => tokens' = call'[q].tokens
    BY <1>1, <1>2, <1>3 DEF Accounted, Checking
<1>. QED
    BY <1>1, <1>2, <1>7, <1>9, <1>10, <1>11, <1>12 DEF Accounted, Settled

(* When a check ends or is cut short with both keys in step, nobody is     *)
(* checking and the keys are settled.                                      *)
LEMMA EndAccounted ==
    ASSUME NEW r \in Requests, pc'[r] = "done",
           clean' => (\A q \in Requests \ {r} : pc'[q] \notin {"ts", "set_tokens", "set_ts"}) /\ Settled'
    PROVE  Accounted'
BY DEF Accounted, Checking, Settled

LEMMA BucketAccounted ==
    ASSUME TypeOK, Accounted, NEW r \in Requests,
           GetTokens(r) \/ GetTs(r) \/ SetTokens(r) \/ SetTs(r) \/ FailOpen(r)
    PROVE  Accounted'
<1>1. /\ pc \in [Requests -> Stages] /\ call \in [Requests -> Call] /\ call[r] \in Call
      /\ clock \in Nat /\ clock \in Time /\ paid \in Nat /\ PerSecond \in Nat /\ RPS \in Nat
      /\ Burst \in Nat /\ None \notin Int
      /\ ts # None => ts \in Nat /\ ts \in Time
      /\ tokens # None => tokens \in 0..Burst
      /\ call[r].now \in Nat /\ call[r].now \in Time /\ call[r].allow \in BOOLEAN
      /\ call[r].tokens # None => call[r].tokens \in 0..Burst
    BY TimesAssumption, NamesAssumption, BurstFacts DEF TypeOK, Time, Call
<1>2. /\ UNCHANGED clock
      /\ \A q \in Requests \ {r} : pc'[q] = pc[q] /\ call'[q] = call[q]
    BY HandleFrame DEF Handle, GetTokens, GetTs, SetTokens, SetTs, FailOpen
<1>3. SUFFICES ASSUME clean' PROVE Accounted'
    BY DEF Accounted
<1>4. clean /\ (Checking(r) \/ GetTokens(r) => \A q \in Requests \ {r} : ~Checking(q))
    <2>1. clean
        BY <1>3 DEF GetTokens, GetTs, SetTokens, SetTs, FailOpen, bucket
    <2>2. GetTokens(r) => \A q \in Requests : ~Checking(q)
        BY <1>3 DEF GetTokens
    <2>3. Checking(r) => \A q \in Requests \ {r} : ~Checking(q)
        BY <2>1 DEF Accounted
    <2>. QED
        BY <2>1, <2>2, <2>3
<1>5. CASE GetTokens(r)
    <2>1. \A q \in Requests : ~Checking(q)
        BY <1>3, <1>5 DEF GetTokens
    <2>2. Settled
        BY <1>4, <2>1 DEF Accounted, Settled, Checking
    <2>3. /\ pc'[r] = "ts" /\ call'[r].now = clock /\ call'[r].tokens = tokens
          /\ UNCHANGED <<tokens, ts, paid>>
        BY <1>1, <1>5 DEF GetTokens, Goto, Call
    <2>4. \A q \in Requests : q # r => pc'[q] \notin {"ts", "set_tokens", "set_ts"}
        BY <1>2, <2>1 DEF Checking
    <2>5. Settled'
        BY <1>2, <2>2, <2>3 DEF Settled, Covered
    <2>6. ts # None => ts <= clock
        BY <2>2 DEF Settled
    <2>. QED
        BY <1>1, <1>2, <2>3, <2>4, <2>5, <2>6 DEF Accounted, Settled, Checking
<1>6. CASE GetTs(r)
    <2> DEFINE held == Refilled(call[r].tokens, ts, call[r].now)
    <2>1. /\ pc[r] = "ts" /\ pc'[r] = "set_tokens" /\ UNCHANGED <<tokens, ts, paid>>
          /\ call'[r].allow = Enough(held)
          /\ call'[r].tokens = IF Enough(held) THEN held - PerSecond ELSE held
          /\ call'[r].now = call[r].now
        BY <1>1, <1>6 DEF GetTs, Goto, Call, bucket
    <2>2. \A q \in Requests \ {r} : ~Checking(q)
        BY <1>4, <2>1 DEF Checking
    <2>3. /\ call[r].tokens = tokens /\ call[r].now <= clock
          /\ ts # None => ts <= call[r].now
        BY <1>4, <2>1 DEF Accounted
    <2>4. \A q \in Requests : pc[q] # "set_ts"
        BY <2>1, <2>2 DEF Checking
    <2>5. Settled
        BY <1>4, <2>4 DEF Accounted, Settled
    <2>6. held \in 0..Burst /\ Covered(paid, held, call[r].now)
        <3>1. held \in 0..Burst
            BY <1>1, RefilledFacts DEF TypeOK, Call
        <3>2. CASE tokens = None
            <4>1. held = Burst /\ paid = 0
                BY <2>3, <2>5, <3>2 DEF Refilled, Settled
            <4>2. RPS * call[r].now \in Nat
                BY <1>1, TimesNat
            <4>. HIDE DEF held
            <4>. QED
                BY <1>1, <4>1, <4>2 DEF Covered
        <3>3. CASE tokens # None
            <4>1. ts # None /\ Covered(paid, tokens, ts)
                BY <2>5, <3>3 DEF Settled
            <4>. QED
                BY <1>1, <2>3, <3>1, <3>3, <4>1, RefilledCovered
        <3>. QED
            BY <3>1, <3>2, <3>3
    <2>. HIDE DEF held
    <2>7. call'[r].tokens \in Int /\ Covered(Spent(r), call[r].tokens, call[r].now)'
        <3>1. CASE Enough(held)
            <4>1. Spent(r)' = paid + 1 /\ call'[r].tokens = held - PerSecond
                BY <2>1, <3>1 DEF Spent
            <4>2. (paid + 1) * PerSecond = paid * PerSecond + PerSecond /\ paid * PerSecond \in Nat
                BY <1>1
            <4>3. RPS * call[r].now \in Nat
                BY <1>1, TimesNat
            <4> DEFINE p == paid * PerSecond
                       n == (paid + 1) * PerSecond
                       g == RPS * call[r].now
            <4>4. p + held <= Burst + g /\ n = p + PerSecond /\ p \in Nat /\ g \in Nat
                BY <2>6, <4>2, <4>3 DEF Covered
            <4>5. n + (held - PerSecond) <= Burst + g
                <5>. HIDE DEF p, n, g
                <5>. QED
                    BY <1>1, <2>6, <4>4
            <4>6. call'[r].tokens \in Int
                BY <1>1, <2>6, <4>1
            <4>. QED
                BY <2>1, <4>1, <4>5, <4>6 DEF Covered
        <3>2. CASE ~Enough(held)
            <4>1. Spent(r)' = paid /\ call'[r].tokens = held
                BY <1>1, <2>1, <3>2 DEF Spent
            <4>. QED
                BY <1>1, <2>1, <2>6, <4>1 DEF Covered
        <3>. QED
            BY <3>1, <3>2
    <2>8. \A q \in Requests : q # r => pc'[q] \notin {"ts", "set_tokens", "set_ts"}
        BY <1>2, <2>2 DEF Checking
    <2>9. Settled'
        BY <1>2, <2>1, <2>5 DEF Settled, Covered
    <2>10. call'[r].tokens # None
        BY <1>1, <2>7
    <2>. QED
        BY <1>2, <2>1, <2>3, <2>7, <2>8, <2>9, <2>10 DEF Accounted, Settled, Checking
<1>7. CASE SetTokens(r)
    <2>1. /\ pc[r] = "set_tokens" /\ pc'[r] = "set_ts" /\ UNCHANGED <<ts, paid, call>>
          /\ tokens' = call[r].tokens
        BY <1>1, <1>7 DEF SetTokens, Goto
    <2>2. \A q \in Requests : q # r => pc'[q] \notin {"ts", "set_tokens", "set_ts"}
        BY <1>2, <1>4, <2>1 DEF Checking
    <2>3. /\ call[r].tokens # None /\ call[r].now <= clock
          /\ Covered(Spent(r), call[r].tokens, call[r].now)
        BY <1>4, <2>1 DEF Accounted
    <2>4. Covered(Spent(r), call[r].tokens, call[r].now)'
        BY <2>1, <2>3 DEF Covered, Spent
    <2>. QED
        BY <1>2, <2>1, <2>2, <2>3, <2>4 DEF Accounted, Checking
<1>8. CASE SetTs(r)
    <2>1. /\ pc[r] = "set_ts" /\ pc'[r] = "done" /\ UNCHANGED tokens
          /\ ts' = call[r].now /\ paid' = Spent(r)
        BY <1>1, <1>8 DEF SetTs, End, Goto, Spent
    <2>2. /\ call[r].tokens # None /\ call[r].now <= clock /\ tokens = call[r].tokens
          /\ Covered(Spent(r), call[r].tokens, call[r].now)
        BY <1>4, <2>1 DEF Accounted
    <2>3. ts' # None
        BY <1>1, <2>1
    <2>4. Settled'
        BY <1>2, <2>1, <2>2, <2>3 DEF Settled, Covered
    <2>5. \A q \in Requests \ {r} : pc'[q] \notin {"ts", "set_tokens", "set_ts"}
        BY <1>2, <1>4, <2>1 DEF Checking
    <2>. QED
        BY <2>1, <2>4, <2>5, EndAccounted
<1>9. CASE FailOpen(r)
    <2>1. /\ pc[r] \in {"tokens", "ts", "set_tokens"} /\ pc'[r] = "done"
          /\ UNCHANGED <<tokens, ts, paid>> /\ clean' = clean
        BY <1>1, <1>3, <1>4, <1>9 DEF FailOpen, End, Goto
    <2>2. CASE pc[r] \in {"ts", "set_tokens"}
        <3>1. \A q \in Requests \ {r} : pc'[q] \notin {"ts", "set_tokens", "set_ts"}
            BY <1>2, <1>4, <2>2 DEF Checking
        <3>2. \A q \in Requests : pc[q] # "set_ts"
            BY <1>4, <2>2 DEF Checking
        <3>3. Settled'
            BY <1>2, <1>4, <2>1, <3>2 DEF Accounted, Settled, Covered
        <3>. QED
            BY <2>1, <3>1, <3>3, EndAccounted
    <2>3. CASE pc[r] = "tokens"
        <3>1. /\ ~Checking(r) /\ pc'[r] \notin {"ts", "set_tokens", "set_ts"}
            BY <2>1, <2>3 DEF Checking
        <3>2. \A q \in Requests : Checking(q)' => Checking(q) /\ q # r
            BY <1>2, <3>1 DEF Checking
        <3>3. \A q \in Requests : q # r => pc'[q] = pc[q] /\ call'[q] = call[q]
            BY <1>2
        <3>4. (\A q \in Requests : pc'[q] # "set_ts") => \A q \in Requests : pc[q] # "set_ts"
            BY <1>2, <2>3
        <3>5. (\A q \in Requests : pc'[q] # "set_ts") => Settled'
            BY <1>2, <1>4, <2>1, <3>4 DEF Accounted, Settled, Covered
        <3>. QED
            BY <1>2, <1>4, <2>1, <3>1, <3>2, <3>3, <3>5 DEF Accounted, Settled, Checking, Covered, Spent
    <2>. QED
        BY <2>1, <2>2, <2>3
<1>. QED
    BY <1>5, <1>6, <1>7, <1>8, <1>9

(* The other steps of a call leave the bucket alone.                       *)
LEMMA HandleAccounted ==
    ASSUME TypeOK, Accounted, NEW r \in Requests, Handle(r)
    PROVE  Accounted'
<1>1. CASE GetTokens(r) \/ GetTs(r) \/ SetTokens(r) \/ SetTs(r) \/ FailOpen(r)
    BY <1>1, BucketAccounted
<1>2. CASE \/ Arrive(r) \/ RefuseUnkeyed(r) \/ LoadPartner(r)
           \/ ReadPrimary(r) \/ ReadPrevious(r) \/ VerifyApiKey(r)
    <2>1. UNCHANGED <<bucket, clock>>
        BY <1>2 DEF Arrive, RefuseUnkeyed, LoadPartner, ReadPrimary, ReadPrevious, VerifyApiKey
    <2>2. pc[r] \in {"new", "partner", "primary", "previous", "key"}
        BY <1>2 DEF Arrive, RefuseUnkeyed, LoadPartner, ReadPrimary, ReadPrevious, VerifyApiKey
    <2>3. pc'[r] \in {"partner", "primary", "previous", "key", "tokens", "done"}
        BY <1>2 DEF Arrive, RefuseUnkeyed, LoadPartner, ReadPrimary, ReadPrevious, VerifyApiKey,
                    VerifyHmac, Pass, End, Goto, TypeOK
    <2>4. \A q \in Requests : q # r => pc'[q] = pc[q] /\ call'[q] = call[q]
        BY HandleFrame
    <2>5. clock' \in Time /\ clock <= clock'
        BY <2>1, TimesAssumption DEF TypeOK, Time
    <2>. QED
        BY <2>1, <2>2, <2>3, <2>4, <2>5, ApartAccounted DEF Checking
<1>. QED
    BY <1>1, <1>2 DEF Handle

-----------------------------------------------------------------------------
(* The invariant and its theorems                                          *)

Outside ==
    \/ Tick \/ UpdatePartner \/ \E k \in ApiKeys : CreateApiKey(k)
    \/ \E w \in Rotations : RotateRead(w) \/ RotateCommit(w)

LEMMA NextCases ==
    ASSUME Next
    PROVE  Outside \/ \E r \in Requests : Handle(r)
BY DEF Next, Outside

(* At the start there is a primary row for the column's secret, or no row. *)
LEMMA GateInit ==
    ASSUME Init
    PROVE  GateInv /\ Served
<1>1. 0 \in Time /\ MaxFaults \in Nat /\ First \in Secrets
    BY TimesAssumption DEF Time, Secrets
<1>2. PICK row \in FirstRows : secrets = [s \in Secrets |-> IF s = First THEN row ELSE NoRow]
    BY DEF Init
<1>3. NoCall \in Call /\ NoRow \in Row /\ NewPrimary \in Row
    BY <1>1 DEF NoCall, Call, NoRow, NewPrimary, Row, Statuses
<1>4. secrets \in [Secrets -> Row] /\ call \in [Requests -> Call]
    BY <1>2, <1>3 DEF FirstRows, Init
<1>5. TypeOK
    <2>1. rotation \in [Rotations -> [stage: {"new", "read", "done", "error"},
                                      primary: Secrets \cup {None}, at: Time]]
        BY <1>1 DEF Init
    <2>2. pc \in [Requests -> Stages] /\ answer \in [Requests -> Answers]
        BY DEF Init, Stages, Answers
    <2>3. welcome \in [Requests -> BOOLEAN] /\ active \in BOOLEAN /\ clean \in BOOLEAN /\ crossed \in BOOLEAN
        BY DEF Init
    <2>. QED
        BY <1>1, <1>4, <2>1, <2>2, <2>3 DEF Init, TypeOK
<1>6. /\ column = First
      /\ \A w \in Rotations : rotation[w].stage = "new" /\ secrets[w].status = "absent"
      /\ \A s \in Secrets : s # First => secrets[s].status = "absent"
      /\ secrets[First].status \in {"primary", "absent"}
    BY <1>1, <1>2, NamesAssumption DEF Init, FirstRows, NoRow, NewPrimary, Secrets
<1>7. RowsKept
    BY <1>6 DEF RowsKept, WithStatus
<1>8. \A r \in Requests : pc[r] = "new" /\ answer[r] = "none"
    BY DEF Init
<1>9. OnePrimary
    BY <1>1, <1>6, <1>8 DEF OnePrimary, WithStatus
<1>10. CallsKept /\ Entitled
    BY <1>8 DEF CallsKept, Entitled, Asking, Passed
<1>11. Accounted
    BY <1>8 DEF Accounted, Checking, Init
<1>12. Served
    BY <1>6, <1>8 DEF Served, Asking
<1>. QED
    BY <1>5, <1>7, <1>9, <1>10, <1>11, <1>12 DEF GateInv

LEMMA GateStep ==
    ASSUME GateInv, [Next]_vars
    PROVE  GateInv'
<1> USE DEF GateInv
<1>1. CASE Outside
    <2>1. TypeOK'
        BY <1>1, OutsideTypes, RotateTypes DEF Outside
    <2>2. RowsKept' /\ OnePrimary'
        <3>1. CASE Tick \/ UpdatePartner \/ \E k \in ApiKeys : CreateApiKey(k)
            <4>1. UNCHANGED <<secrets, column, rotation, crossed, answer>>
                BY <3>1 DEF Tick, UpdatePartner, CreateApiKey, stored, rotates, gate
            <4>2. ~crossed => \A r \in Requests : answer'[r] # "error"
                BY <4>1 DEF OnePrimary
            <4>. QED
                BY <4>1, <4>2, RowsApart
        <3>2. CASE \E w \in Rotations : RotateRead(w) \/ RotateCommit(w)
            BY <3>2, ReadRows, CommitRows
        <3>. QED
            BY <1>1, <3>1, <3>2 DEF Outside
    <2>3. CallsKept' /\ Entitled' /\ UNCHANGED <<pc, call>> /\ clock <= clock'
        BY <1>1, OutsideCalls, OutsideEntitled DEF Outside
    <2>4. UNCHANGED bucket
        BY <1>1 DEF Outside, Tick, UpdatePartner, CreateApiKey, RotateRead, RotateCommit
    <2>5. Accounted'
        BY <2>1, <2>3, <2>4, ApartAccounted DEF TypeOK
    <2>. QED
        BY <2>1, <2>2, <2>3, <2>5
<1>2. ASSUME NEW r \in Requests, Handle(r) PROVE GateInv'
    <2>1. TypeOK'
        BY <1>2, ChecksTypes, BucketTypes DEF Handle
    <2>2. RowsKept' /\ OnePrimary' /\ UNCHANGED <<clock, rotation>>
        BY <1>2, HandleRows
    <2>3. CallsKept' /\ Entitled'
        BY <1>2, <2>2, HandleCalls, HandleEntitled
    <2>4. Accounted'
        BY <1>2, HandleAccounted
    <2>. QED
        BY <2>1, <2>2, <2>3, <2>4
<1>3. CASE UNCHANGED vars
    <2>1. UNCHANGED <<clock, pc, call, answer, welcome, active, secrets, column, issued,
                      tokens, ts, faults, paid, clean, rotation, crossed>>
        BY <1>3 DEF vars, gate, stored, bucket, rotates
    <2>2. TypeOK' /\ RowsKept' /\ OnePrimary'
        BY <2>1 DEF TypeOK, RowsKept, OnePrimary, WithStatus, FetchPrimary
    <2>3. CallsKept' /\ Entitled'
        BY <2>1 DEF CallsKept, Entitled, Asking, Passed, Told, Outdated, WithStatus
    <2>4. Accounted'
        BY <2>1 DEF Accounted, Checking, Covered, Spent
    <2>. QED
        BY <2>2, <2>3, <2>4
<1>. QED
    BY <1>1, <1>2, <1>3, NextCases

(* Of every behaviour of the specification.                                *)
THEOREM GateInvariant == Spec => []GateInv
<1>1. Init => GateInv
    BY GateInit
<1>2. GateInv /\ [Next]_vars => GateInv'
    BY GateStep
<1>. QED
    BY <1>1, <1>2, PTL DEF Spec

(* Types of the rows, the calls and the bucket: it never holds less than   *)
(* nothing or more than the burst.                                         *)
THEOREM TypesKept == Spec => []TypeOK
<1>1. GateInv => TypeOK
    BY DEF GateInv
<1>. QED
    BY <1>1, GateInvariant, PTL

(* Without overlapping rotations the hub signs with the secret it handed   *)
(* out last, at most one older secret is in force and no call ends in an   *)
(* error (rotate_signing_secret, load_inbound_signing_secrets).            *)
THEOREM RotationsKeepService == Spec => []RotationKeepsService
<1>1. GateInv => RotationKeepsService
    <2>1. SUFFICES ASSUME GateInv, ~crossed
                   PROVE  /\ \A s \in Secrets : OutboundSecret(s) <=> s = column
                          /\ Cardinality(WithStatus("previous")) <= 1
                          /\ \A r \in Requests : answer[r] # "error"
        BY DEF RotationKeepsService
    <2>2. WithStatus("primary") \in {{}, {column}} /\ \A r \in Requests : answer[r] # "error"
        BY <2>1 DEF GateInv, OnePrimary
    <2>3. column \in Secrets /\ None \notin Secrets
        BY <2>1, NamesAssumption DEF GateInv, TypeOK
    <2>4. \A s \in Secrets : OutboundSecret(s) <=> s = column
        BY <2>2, <2>3 DEF OutboundSecret, FetchPrimary
    <2>5. Cardinality(WithStatus("previous")) <= 1
        BY <2>1, AtMostOne DEF GateInv, RowsKept
    <2>. QED
        BY <2>2, <2>4, <2>5
<1>. QED
    BY <1>1, GateInvariant, PTL

(* A call that passes the gate was signed with a secret in force when it   *)
(* came, whichever rotations commit between its two SELECTs, as long as no *)
(* two rotations overlap (load_inbound_signing_secrets).                   *)
THEOREM AdmissionsEntitled == Spec => []AdmittedWasEntitled
<1>1. GateInv => AdmittedWasEntitled
    BY DEF GateInv, Entitled, AdmittedWasEntitled
<1>. QED
    BY <1>1, GateInvariant, PTL

(* Calls admitted for a token never exceed the burst and the refill of the *)
(* elapsed time, while checks do not overlap (allow_request).              *)
THEOREM BudgetKept == Spec => []Budget
<1>1. GateInv => Budget
    <2>1. SUFFICES ASSUME GateInv, clean PROVE paid * PerSecond <= Burst + RPS * clock
        BY DEF Budget
    <2>2. /\ Burst \in Nat /\ RPS \in Nat /\ PerSecond \in Nat /\ clock \in Nat /\ paid \in Nat
          /\ paid * PerSecond \in Nat /\ RPS * clock \in Nat
        BY <2>1, BurstFacts, TimesAssumption, TimesNat DEF GateInv, TypeOK, Time
    <2>3. ASSUME NEW held \in Nat, NEW now \in Nat, NEW spent \in Nat, paid <= spent, now <= clock,
                 Covered(spent, held, now)
          PROVE  paid * PerSecond <= Burst + RPS * clock
        <3>1. PerSecond * paid <= PerSecond * spent /\ RPS * now <= RPS * clock
            BY <2>2, <2>3, TimesMono
        <3>2. PerSecond * paid = paid * PerSecond /\ PerSecond * spent = spent * PerSecond
            BY <2>2
        <3>3. spent * PerSecond \in Nat /\ RPS * now \in Nat
            BY <2>2, TimesNat
        <3> DEFINE p == paid * PerSecond
                   q == spent * PerSecond
                   a == RPS * now
                   b == RPS * clock
        <3>4. p <= q /\ a <= b /\ q + held <= Burst + a /\ p \in Nat /\ q \in Nat /\ a \in Nat /\ b \in Nat
            BY <2>2, <2>3, <3>1, <3>2, <3>3 DEF Covered
        <3>5. p <= Burst + b
            <4>. HIDE DEF p, q, a, b
            <4>. QED
                BY <2>2, <2>3, <3>4
        <3>. QED
            BY <3>5
    <2>4. CASE \E r \in Requests : pc[r] = "set_ts"
        <3>1. PICK r \in Requests : pc[r] = "set_ts"
            BY <2>4
        <3>2. /\ call[r].tokens # None /\ call[r].now <= clock
              /\ Covered(Spent(r), call[r].tokens, call[r].now)
            BY <2>1, <3>1 DEF GateInv, Accounted
        <3>3. call[r].tokens \in Nat /\ call[r].now \in Nat /\ Spent(r) \in Nat /\ paid <= Spent(r)
            BY <2>1, <2>2, <3>2, TimesAssumption DEF GateInv, TypeOK, Call, Time, Spent
        <3>. QED
            BY <2>3, <3>2, <3>3
    <2>5. CASE ~ \E r \in Requests : pc[r] = "set_ts"
        <3>1. Settled
            BY <2>1, <2>5 DEF GateInv, Accounted, Settled
        <3>2. CASE tokens = None
            BY <2>2, <3>1, <3>2 DEF Settled
        <3>3. CASE tokens # None
            <4>1. tokens \in Nat /\ ts \in Nat /\ ts <= clock /\ Covered(paid, tokens, ts)
                BY <2>1, <2>2, <3>1, <3>3, TimesAssumption DEF GateInv, TypeOK, Time, Settled
            <4>. QED
                BY <2>2, <2>3, <4>1
        <3>. QED
            BY <3>2, <3>3
    <2>. QED
        BY <2>4, <2>5
<1>. QED
    BY <1>1, GateInvariant, PTL

(* With an overlap of some length, a call that was signed with a secret in *)
(* force when it came is refused for its signature only when that secret   *)
(* has been revoked meanwhile or had no row, even when rotations overlap   *)
(* (rotate_signing_secret, load_inbound_signing_secrets).                  *)
THEOREM RefusalsJustified ==
    ASSUME Overlap > 0
    PROVE  Spec => RefusalJustified
<1>1. Init => Served
    BY GateInit
<1>2. ASSUME GateInv, Served, [Next]_vars PROVE Served'
    <2> USE <1>2 DEF GateInv
    <2>1. CASE Outside
        BY <2>1, OutsideServed DEF Outside
    <2>2. ASSUME NEW r \in Requests, Handle(r) PROVE Served'
        BY <2>2, HandleServed
    <2>3. CASE UNCHANGED vars
        BY <2>3 DEF vars, gate, stored, rotates, Served, Asking
    <2>. QED
        BY <2>1, <2>2, <2>3, NextCases
<1>3. ASSUME GateInv, Served, [Next]_vars
      PROVE  [\A r \in Requests :
                 answer[r] # "bad_signature" /\ answer'[r] = "bad_signature" /\ welcome[r] =>
                     secrets[call[r].signed].status \in {"revoked", "absent"}]_vars
    <2> USE <1>3 DEF GateInv
    <2>1. SUFFICES ASSUME Next, NEW r \in Requests, answer[r] # "bad_signature",
                          answer'[r] = "bad_signature", welcome[r]
                   PROVE  secrets[call[r].signed].status \in {"revoked", "absent"}
        OBVIOUS
    <2>2. PICK q \in Requests : Handle(q)
        <3>1. Outside => UNCHANGED answer
            BY OutsideCalls DEF Outside
        <3>. QED
            BY <2>1, <3>1, NextCases
    <2>3. q = r
        BY <2>1, <2>2, HandleFrame
    <2>. QED
        BY <2>1, <2>2, <2>3, RefusalStep
<1>. QED
    BY <1>1, <1>2, <1>3, GateInvariant, PTL DEF Spec, RefusalJustified
=============================================================================
