----------------------------- MODULE PartnerGate -----------------------------
(***************************************************************************)
(* What a partner's call meets before its event is looked at: the checks   *)
(* of ingest_event (app/api/v1/inbound/events.py), the signing secrets and *)
(* their rotation (app/domain/services/signing_secrets.py), the API keys   *)
(* and the token bucket in Redis (rate_limit.py).  One partner.            *)
(*                                                                         *)
(* Time is counted in ticks, PerSecond of them in a second, and tokens in  *)
(* parts, PerSecond of them in a token: one tick refills rate_limit_rps    *)
(* parts, as the floats of the code do.  `secrets` and `column` hold       *)
(* COMMITTED rows.  A secret is named by the rotation that generated it.   *)
(*                                                                         *)
(* A definition headed "Slip:" is a plausible mistake in the definition    *)
(* that follows it; it shows that the named property notices it.           *)
(***************************************************************************)
EXTENDS Integers, FiniteSets

CONSTANTS Requests,    \* calls of POST /inbound/v1/{slug}/events
          Rotations,   \* calls of POST /admin/v1/partners/{id}/rotate-secret
          First,       \* the secret the partner was created with
          ApiKeys,     \* API keys an administrator may create
          Writes,      \* Writes[k]: the key has the scope inbound:write
          Expires,     \* Expires[k]: expires_at of the key
          None,        \* NULL, a missing Redis key, a missing header
          PerSecond,   \* ticks in a second
          RPS,         \* partners.rate_limit_rps
          Tolerance,   \* HUB_INBOUND_TIMESTAMP_TOLERANCE, in ticks
          Overlap,     \* HUB_SECRET_ROTATION_OVERLAP_HOURS, in ticks
          MaxClock,    \* bound: the last tick
          MaxFaults    \* bound: Redis errors

Secrets == Rotations \cup {First}
Burst   == RPS * PerSecond

ASSUME NamesAssumption == First \notin Rotations /\ None \notin Secrets \cup ApiKeys \cup Int
ASSUME KeysAssumption == Writes \in [ApiKeys -> BOOLEAN] /\ Expires \in [ApiKeys -> Nat]
ASSUME TimesAssumption ==
    /\ PerSecond \in Nat \ {0} /\ RPS \in Nat \ {0}
    /\ Tolerance \in Nat /\ Overlap \in Nat /\ MaxClock \in Nat /\ MaxFaults \in Nat

VARIABLES
    clock,       \* the tick it is
    active,      \* partners.status is ACTIVE
    secrets,     \* secrets[s]: the partner_signing_secrets row of s
    column,      \* partners.signing_secret_encrypted
    issued,      \* rows of partner_api_keys
    rotation,    \* rotation[w]: where the rotation w stands and what it read
    pc,          \* pc[r]: where the handler of r stands
    call,        \* call[r]: the headers of r and what its handler has read
    answer,      \* answer[r]: what the caller of r was answered
    tokens, ts,  \* rl:{slug}:tokens and rl:{slug}:ts
    faults,      \* Redis errors so far
    paid,        \* history: calls admitted for a token
    clean,       \* history: no two checks overlapped, none stopped half-way
    welcome,     \* history: r was signed with a secret in force when it came
    crossed      \* history: two rotations overlapped

gate    == <<pc, call, answer, welcome>>
stored  == <<active, secrets, column, issued>>
bucket  == <<tokens, ts, faults, paid, clean>>
rotates == <<rotation, crossed>>
vars    == <<clock, gate, stored, bucket, rotates>>

Statuses == {"absent", "primary", "previous", "revoked"}
Stages   == {"new", "partner", "primary", "previous", "key", "tokens", "ts",
             "set_tokens", "set_ts", "done"}
Answers  == {"none", "unkeyed", "not_found", "stale", "bad_signature", "unauthorized",
             "limited", "admitted", "error"}
Time     == 0 .. MaxClock
Row      == [status: Statuses, valid_until: Nat \cup {None}]
Call     == [signed: Secrets \cup {None}, fresh: BOOLEAN, key: ApiKeys \cup {None},
             arrived: Time, primary: Secrets \cup {None}, now: Time,
             tokens: (0 .. Burst) \cup {None}, allow: BOOLEAN]
NoRow    == [status |-> "absent", valid_until |-> None]
NoCall   == [signed |-> None, fresh |-> FALSE, key |-> None, arrived |-> 0, primary |-> None,
             now |-> 0, tokens |-> None, allow |-> FALSE]

TypeOK ==
    /\ clock \in Time
    /\ active \in BOOLEAN
    /\ secrets \in [Secrets -> Row]
    /\ column \in Secrets
    /\ issued \subseteq ApiKeys
    /\ rotation \in [Rotations -> [stage: {"new", "read", "done", "error"},
                                   primary: Secrets \cup {None}, at: Time]]
    /\ pc \in [Requests -> Stages]
    /\ call \in [Requests -> Call]
    /\ answer \in [Requests -> Answers]
    /\ tokens \in (0 .. Burst) \cup {None}
    /\ ts \in Time \cup {None}
    /\ faults \in 0 .. MaxFaults
    /\ paid \in Nat
    /\ clean \in BOOLEAN
    /\ welcome \in [Requests -> BOOLEAN]
    /\ crossed \in BOOLEAN

WithStatus(status) == {s \in Secrets : secrets[s].status = status}

(* insert_primary_signing_secret *)
NewPrimary == [status |-> "primary", valid_until |-> None]

(* The migration gives a partner that has a secret in its column a primary *)
(* row, as create_partner does; one written by the older release that is   *)
(* still running has the column only.                                      *)
FirstRows == {NewPrimary, NoRow}

Init ==
    /\ clock = 0
    /\ active = TRUE
    /\ \E row \in FirstRows : secrets = [s \in Secrets |-> IF s = First THEN row ELSE NoRow]
    /\ column = First
    /\ issued = {}
    /\ rotation = [w \in Rotations |-> [stage |-> "new", primary |-> None, at |-> 0]]
    /\ pc = [r \in Requests |-> "new"]
    /\ call = [r \in Requests |-> NoCall]
    /\ answer = [r \in Requests |-> "none"]
    /\ tokens = None
    /\ ts = None
    /\ faults = 0
    /\ paid = 0
    /\ clean = TRUE
    /\ welcome = [r \in Requests |-> FALSE]
    /\ crossed = FALSE

-----------------------------------------------------------------------------
(* The administrator and the clock                                         *)

(* A rotation, two SELECTs and a commit, is shorter than the overlap,      *)
(* which is counted in hours.                                              *)
Tick ==
    /\ clock < MaxClock
    /\ \A w \in Rotations : rotation[w].stage = "read" => clock + 1 < rotation[w].at + Overlap
    /\ clock' = clock + 1
    /\ UNCHANGED <<gate, stored, bucket, rotates>>

(* PATCH of the partner's status. *)
UpdatePartner ==
    /\ active' = ~active
    /\ UNCHANGED <<clock, gate, secrets, column, issued, bucket, rotates>>

CreateApiKey(k) ==
    /\ k \notin issued
    /\ issued' = issued \cup {k}
    /\ UNCHANGED <<clock, gate, active, secrets, column, bucket, rotates>>

(* _fetch_primary_row: scalar_one_or_none raises on a second row.          *)
FetchPrimary(s) ==
    \/ WithStatus("primary") = {s}
    \/ WithStatus("primary") = {} /\ s = None
FetchRaises == Cardinality(WithStatus("primary")) > 1

(* The moment the overlap counts from is read before the rows are. *)
RotateRead(w) ==
    /\ rotation[w].stage = "new"
    /\ \/ /\ FetchRaises
          /\ rotation' = [rotation EXCEPT ![w].stage = "error"]
       \/ \E s \in Secrets \cup {None} :
             /\ FetchPrimary(s)
             /\ rotation' = [rotation EXCEPT ![w] = [stage |-> "read", primary |-> s, at |-> clock]]
    /\ crossed' = (crossed \/ \E v \in Rotations : rotation[v].stage = "read")
    /\ UNCHANGED <<clock, gate, stored, bucket>>

(* Slip: the old primary row is not demoted (RotationKeepsService).        *)
RotatedKeepsOld(w) == [secrets EXCEPT ![w] = NewPrimary]

(* The rows a rotation writes: what it read as primary becomes previous    *)
(* until the end of the overlap, earlier previous rows are revoked, a new  *)
(* primary is inserted.  Nothing is demoted when there was no row.         *)
Rotated(w) ==
    LET old == rotation[w].primary
    IN  [s \in Secrets |->
            CASE s = w -> NewPrimary
              [] s = old -> [status |-> "previous", valid_until |-> rotation[w].at + Overlap]
              [] s # w /\ s # old /\ old # None /\ secrets[s].status = "previous" ->
                    [secrets[s] EXCEPT !.status = "revoked"]
              [] OTHER -> secrets[s]]

(* From the flush of the demoted row, which holds its row lock, to the     *)
(* commit: one step for two rotations, since the second waits for it.      *)
RotateCommit(w) ==
    /\ rotation[w].stage = "read"
    /\ secrets' = Rotated(w)
    /\ column' = w
    /\ rotation' = [rotation EXCEPT ![w] = [stage |-> "done", primary |-> None, at |-> 0]]
    /\ UNCHANGED <<clock, gate, active, issued, bucket, crossed>>

-----------------------------------------------------------------------------
(* The checks of a call                                                    *)

Goto(r, stage) == pc' = [pc EXCEPT ![r] = stage]

(* The handler is left, and with it everything it had read. *)
End(r, code) ==
    /\ Goto(r, "done")
    /\ answer' = [answer EXCEPT ![r] = code]
    /\ call' = [call EXCEPT ![r] = [NoCall EXCEPT !.signed = call[r].signed]]

Pass(r, stage) == Goto(r, stage) /\ UNCHANGED <<call, answer>>

(* The secrets the partner has been told: a rotation answers after its     *)
(* commit.                                                                 *)
Told == {First} \cup {w \in Rotations : rotation[w].stage = "done"}

(* get_now: whole seconds. *)
Now == PerSecond * (clock \div PerSecond)

(* What the code treats as in force at a moment: the primary row, a row    *)
(* still "previous" before its valid_until, the column where there is no   *)
(* primary row.  A revoked row never is, even inside its window.           *)
InForce(s, t) ==
    \/ secrets[s].status = "primary"
    \/ secrets[s].status = "previous" /\ t < secrets[s].valid_until
    \/ WithStatus("primary") = {} /\ s = column

(* _verify_timestamp: the skew between the header and get_now. *)
Fresh(stamp) == stamp # None /\ Now - stamp \in -Tolerance .. Tolerance

Arrive(r) ==
    /\ pc[r] = "new"
    /\ \E s \in Told \cup {None}, t \in {clock, 0, None}, k \in issued \cup {None} :
          /\ call' = [call EXCEPT ![r].signed = s, ![r].fresh = Fresh(t), ![r].key = k,
                                  ![r].arrived = Now]
          /\ welcome' = [welcome EXCEPT ![r] = s # None /\ InForce(s, Now)]
    /\ Goto(r, "partner")
    /\ UNCHANGED <<clock, answer, stored, bucket, rotates>>

(* No Idempotency-Key. *)
RefuseUnkeyed(r) ==
    /\ pc[r] = "new"
    /\ End(r, "unkeyed")
    /\ UNCHANGED <<clock, welcome, stored, bucket, rotates>>

(* _load_partner, then the timestamp and the presence of the signature. *)
LoadPartner(r) ==
    /\ pc[r] = "partner"
    /\ \/ ~active /\ End(r, "not_found")
       \/ active /\ ~call[r].fresh /\ End(r, "stale")
       \/ active /\ call[r].fresh /\ call[r].signed = None /\ End(r, "bad_signature")
       \/ active /\ call[r].fresh /\ call[r].signed # None /\ Pass(r, "primary")
    /\ UNCHANGED <<clock, welcome, stored, bucket, rotates>>

(* Slip: valid_until itself still counts (AdmittedWasEntitled).            *)
PreviousIsValidInclusive(s, t) ==
    secrets[s].status = "previous" /\ secrets[s].valid_until >= t

(* _previous_is_valid *)
PreviousIsValid(s, t) ==
    secrets[s].status = "previous" /\ secrets[s].valid_until > t

(* Slip: only the primary secret is tried (RefusalJustified).              *)
VerifyPrimaryOnly(r, primary, previous) == call[r].signed = primary

(* hmac_service.verify: the primary secret, then the previous one. *)
Verify(r, primary, previous) == call[r].signed \in {primary, previous}

VerifyHmac(r, primary, previous) ==
    IF Verify(r, primary, previous) THEN Pass(r, "key") ELSE End(r, "bad_signature")

(* The first SELECT of load_inbound_signing_secrets.  Without a row the    *)
(* partner's column is the only secret; a second primary row raises.       *)
ReadPrimary(r) ==
    /\ pc[r] = "primary"
    /\ \/ FetchRaises /\ End(r, "error")
       \/ \E s \in Secrets :
             /\ FetchPrimary(s)
             /\ call' = [call EXCEPT ![r].primary = s]
             /\ Goto(r, "previous")
             /\ UNCHANGED answer
       \/ /\ FetchPrimary(None)
          /\ VerifyHmac(r, column, None)
    /\ UNCHANGED <<clock, welcome, stored, bucket, rotates>>

(* The second SELECT, in whatever order the rows come, and the signature.  *)
ReadPrevious(r) ==
    /\ pc[r] = "previous"
    /\ LET valid == {s \in Secrets : PreviousIsValid(s, call[r].arrived)}
       IN  \E s \in IF valid = {} THEN {None} ELSE valid : VerifyHmac(r, call[r].primary, s)
    /\ UNCHANGED <<clock, welcome, stored, bucket, rotates>>

(* _verify_api_key: the expiry is compared with the clock of this moment.  *)
VerifyApiKey(r) ==
    /\ pc[r] = "key"
    /\ LET k == call[r].key
       IN  IF k # None /\ Writes[k] /\ Expires[k] > clock
           THEN Pass(r, "tokens") ELSE End(r, "unauthorized")
    /\ UNCHANGED <<clock, welcome, stored, bucket, rotates>>

-----------------------------------------------------------------------------
(* allow_request: four Redis commands, not a transaction                   *)

Checking(q) == pc[q] \in {"ts", "set_tokens", "set_ts"}

(* The clock is read before the first GET. *)
GetTokens(r) ==
    /\ pc[r] = "tokens"
    /\ call' = [call EXCEPT ![r].now = clock, ![r].tokens = tokens]
    /\ Goto(r, "ts")
    /\ clean' = (clean /\ \A q \in Requests : ~Checking(q))
    /\ UNCHANGED <<clock, answer, welcome, stored, tokens, ts, faults, paid, rotates>>

(* Slip: any elapsed time fills the bucket (Budget).                       *)
RefilledAlways(held, last, now) ==
    IF held = None \/ last = None \/ now > last THEN Burst ELSE held

(* The tokens there are now: a full bucket when one key is missing. *)
Refilled(held, last, now) ==
    LET more == held + (now - last) * RPS
    IN  CASE held = None \/ last = None -> Burst
          [] held # None /\ last # None /\ now > last -> IF more < Burst THEN more ELSE Burst
          [] OTHER -> held

(* Slip: a part of a token is enough (TypeOK).                             *)
EnoughPart(held) == held > 0

(* A whole token is needed. *)
Enough(held) == held >= PerSecond

GetTs(r) ==
    /\ pc[r] = "ts"
    /\ LET held == Refilled(call[r].tokens, ts, call[r].now)
           allow == Enough(held)
       IN  call' = [call EXCEPT ![r].allow = allow,
                                ![r].tokens = IF allow THEN held - PerSecond ELSE held]
    /\ Goto(r, "set_tokens")
    /\ UNCHANGED <<clock, answer, welcome, stored, bucket, rotates>>

SetTokens(r) ==
    /\ pc[r] = "set_tokens"
    /\ tokens' = call[r].tokens
    /\ Goto(r, "set_ts")
    /\ UNCHANGED <<clock, call, answer, welcome, stored, ts, faults, paid, clean, rotates>>

SetTs(r) ==
    /\ pc[r] = "set_ts"
    /\ ts' = call[r].now
    /\ End(r, IF call[r].allow THEN "admitted" ELSE "limited")
    /\ paid' = IF call[r].allow THEN paid + 1 ELSE paid
    /\ UNCHANGED <<clock, welcome, stored, tokens, faults, clean, rotates>>

(* RedisError in one of the four commands: the call is admitted; the       *)
(* tokens may have been stored and their time not.                         *)
FailOpen(r) ==
    /\ pc[r] \in {"tokens", "ts", "set_tokens", "set_ts"}
    /\ faults < MaxFaults
    /\ faults' = faults + 1
    /\ End(r, "admitted")
    /\ clean' = (clean /\ pc[r] # "set_ts")
    /\ UNCHANGED <<clock, welcome, stored, tokens, ts, paid, rotates>>

-----------------------------------------------------------------------------
Handle(r) ==
    \/ Arrive(r) \/ RefuseUnkeyed(r) \/ LoadPartner(r)
    \/ ReadPrimary(r) \/ ReadPrevious(r) \/ VerifyApiKey(r)
    \/ GetTokens(r) \/ GetTs(r) \/ SetTokens(r) \/ SetTs(r) \/ FailOpen(r)

Next ==
    \/ Tick \/ UpdatePartner
    \/ \E k \in ApiKeys : CreateApiKey(k)
    \/ \E w \in Rotations : RotateRead(w) \/ RotateCommit(w)
    \/ \E r \in Requests : Handle(r)

Spec == Init /\ [][Next]_vars

-----------------------------------------------------------------------------
(* Properties                                                              *)

(* A call that passes the gate was signed with a secret in force when it   *)
(* came, whatever rotation was committed between the two SELECTs of        *)
(* load_inbound_signing_secrets.  Only overlapping rotations break it: the *)
(* later one gives the demoted secret a new valid_until.                   *)
AdmittedWasEntitled ==
    \A r \in Requests :
        answer[r] \in {"admitted", "limited"} => welcome[r] \/ crossed

(* One rotation, committed at any moment of a call, does not turn away a   *)
(* partner that still signs with the secret it replaces.  There are only   *)
(* two ways a call signed with a secret in force when it came is refused   *)
(* for its signature: a further rotation has revoked that secret (which is *)
(* what PreviousHonoured is about), or it had no row to demote (a partner  *)
(* written by an older release), signing_secrets.py lines 148 to 156.      *)
RefusalJustified ==
    [][\A r \in Requests :
          answer[r] # "bad_signature" /\ answer'[r] = "bad_signature" /\ welcome[r] =>
              secrets[call[r].signed].status \in {"revoked", "absent"}]_vars

(* The administrator's API description (partners.py:240) and the rotation  *)
(* runbook: the previous secret remains valid for inbound verification     *)
(* until its row's valid_until.  So no call signed with a secret that has  *)
(* a later valid_until is refused for its signature.  The code breaks it:  *)
(* the next rotation revokes the row inside its window.                    *)
PreviousHonoured ==
    [][\A r \in Requests :
          answer[r] # "bad_signature" /\ answer'[r] = "bad_signature" /\ call[r].signed # None =>
              LET until == secrets[call[r].signed].valid_until
              IN  until = None \/ until <= call[r].arrived]_vars

(* load_outbound_primary_secret *)
OutboundSecret(s) ==
    \/ FetchPrimary(s) /\ s # None
    \/ FetchPrimary(None) /\ s = column

(* As long as rotations do not overlap there is one secret the hub signs   *)
(* with, it is the last one handed out, at most one older secret is in     *)
(* force, and no call ends in a 500 for want of a single primary row.      *)
RotationKeepsService ==
    ~crossed =>
        /\ \A s \in Secrets : OutboundSecret(s) <=> s = column
        /\ Cardinality(WithStatus("previous")) <= 1
        /\ \A r \in Requests : answer[r] # "error"

(* The token bucket: while checks do not overlap and none stops half-way,  *)
(* the calls admitted for a token since the start never exceed the burst   *)
(* plus what the elapsed time refills, allow_request.                      *)
Budget == clean => paid * PerSecond <= Burst + RPS * clock
=============================================================================
