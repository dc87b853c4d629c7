----------------------------- MODULE RelayerProxy -----------------------------
(***************************************************************************)
(* The relayer proxy: a Cloudflare Worker that checks a submission, finds  *)
(* or mints the relayer API key of the client IP and submits through it.   *)
(* Its requests interleave at their awaits; all they share is the rate     *)
(* limiters (RateLimiter) and the KV namespace of API keys.                *)
(***************************************************************************)
EXTENDS RateLimiter, ProxyValidation

CONSTANTS
    Requests,        \* requests the worker serves: a bound
    Ips, UnknownIp,
    Global,          \* the limiter every request asks besides that of its IP
    Submissions,     \* bodies clients may send
    Outlooks,        \* what RPC may say of them
    ApiKeys, NoKey,  \* keys /gen may mint: a bound
    OldEntries,      \* what an earlier version may have left in the KV, and whose
    Channels,        \* accounts the relayer may report missing
    LostAnswers,     \* bound: answers of Friendbot lost, per request and account
    Testnet,         \* NETWORK is testnet
    RetryDuration    \* TESTNET_RETRY_DURATION_MS, in ticks

\* A KV value: nothing, a key stored by the proxy, a bare key of an earlier
\* version, or text that is neither.
KvValues == {[form |-> "none", key |-> NoKey], [form |-> "junk", key |-> NoKey]}
            \cup [form : {"stored", "bare"}, key : ApiKeys]

ASSUME ProxyAssumption ==
    /\ Names = Ips \cup {Global}
    /\ Global \notin Ips
    /\ UnknownIp \notin Ips
    /\ NoKey \notin ApiKeys
    /\ "shared" \notin Channels
    /\ OldEntries \subseteq [ip : Ips, value : KvValues]
    /\ LostAnswers \in Nat
    /\ Testnet \in BOOLEAN
    /\ RetryDuration \in Nat

ASSUME SubmissionsAssumption == \A body \in Submissions : IsDecoded(body)

VARIABLES
    req,      \* each request: its continuation and what it has learned
    kv,       \* API_KEYS, by client IP
    mintedFor \* history: the IP each API key was minted for

proxyVars == <<now, window, granted, req, kv, mintedFor>>

-----------------------------------------------------------------------------
(* Data. *)

Empty == [form |-> "none", key |-> NoKey]

Steps == {"idle", "limit", "validate", "read", "purge", "mint", "store",
          "submit", "fund", "done"}

\* left: limiters still to answer; denied: one has refused; wait: the largest
\* Retry-After so far; over: when the windows that refused end; late: attempts
\* begun after the deadline; missing: the account to fund; funded: those that
\* Friendbot says it has paid.  History: how often Friendbot has paid an account,
\* and how often it has without its answer coming back.
Request == [step : Steps, ip : Ips \cup {UnknownIp}, get : BOOLEAN,
            left : SUBSET Names, denied : BOOLEAN, wait : Nat, over : Int,
            sponsored : BOOLEAN, key : ApiKeys \cup {NoKey},
            deadline : Nat, late : 0..2, missing : Channels \cup {"shared", ""},
            funded : SUBSET Channels, paid : [Channels \cup {"shared"} -> Nat],
            lost : [Channels \cup {"shared"} -> Nat], status : Nat]

Fresh == [step |-> "idle", ip |-> UnknownIp, get |-> FALSE, left |-> {},
          denied |-> FALSE, wait |-> 0, over |-> 0, sponsored |-> FALSE,
          key |-> NoKey, deadline |-> 0, late |-> 0, missing |-> "",
          funded |-> {}, paid |-> [a \in Channels \cup {"shared"} |-> 0],
          lost |-> [a \in Channels \cup {"shared"} |-> 0], status |-> 0]

Unminted(keys) == {k \in ApiKeys : keys[k] = UnknownIp}

\* The KV may hold what an earlier version has left for one of the clients.
Init ==
    /\ LimiterInit
    /\ req = [r \in Requests |-> Fresh]
    /\ \E old \in OldEntries :
          /\ kv = [i \in Ips |-> IF i = old.ip THEN old.value ELSE Empty]
          /\ mintedFor = [k \in ApiKeys |-> IF k = old.value.key THEN old.ip ELSE UnknownIp]

\* Request r goes on with another record.
Goes(r, record) == req' = [req EXCEPT ![r] = record]

\* The request is answered.  Of the codes only 429 is told apart, and 200 stands
\* for every other.  Nothing else of the request matters any more, but a limiter
\* it has asked may still count it.
Answer(r, code) ==
    Goes(r, [Fresh EXCEPT !.step = "done", !.status = code, !.left = req[r].left])

At(r, step) == req[r].step = step

-----------------------------------------------------------------------------
(* Admission. *)

\* The CORS middleware and the client IP.  /status asks no limiter, and does
\* not need an IP.
Arrive(r) ==
    /\ At(r, "idle")
    /\ \/ Answer(r, 200)
       \/ \E ip \in Ips : Goes(r, [req[r] EXCEPT !.step = "limit", !.ip = ip,
                                                 !.left = {Global, ip}])
       \/ \E ip \in Ips : Goes(r, [req[r] EXCEPT !.step = "read", !.ip = ip,
                                                 !.get = TRUE])
    /\ UNCHANGED <<limiterVars, kv, mintedFor>>

\* The two checks are made together and come in any order, one of them perhaps
\* when the failure of the other has been answered.
AskedBy(r, n) == req[r].step \in {"limit", "done"} /\ n \in req[r].left

LimiterAllows(r, n) ==
    /\ AskedBy(r, n)
    /\ Admit(n)
    /\ Goes(r, [req[r] EXCEPT !.left = @ \ {n}])
    /\ UNCHANGED <<kv, mintedFor>>

\* The slip of keeping the wait of whichever limiter answers last.
LastWait(wait, other) == wait
LongerWait(wait, other) == IF wait > other THEN wait ELSE other

LimiterDenies(r, n) ==
    /\ AskedBy(r, n)
    /\ Deny(n)
    /\ LET q == req[r]
           end == window[n].start + Window
       IN  Goes(r, IF At(r, "done") THEN [q EXCEPT !.left = @ \ {n}]
              ELSE [q EXCEPT !.left = @ \ {n}, !.denied = TRUE,
              !.wait = LongerWait(RetryAfter(n), @),
              !.over = IF end > @ THEN end ELSE @])
    /\ UNCHANGED <<kv, mintedFor>>

\* A limiter cannot be reached: the other one may have counted the request.
LimiterUnavailable(r) ==
    /\ At(r, "limit")
    /\ req[r].left # {}
    /\ Answer(r, 200)
    /\ UNCHANGED <<limiterVars, kv, mintedFor>>

\* enforceRateLimit's verdict.  `wait` becomes the instant Retry-After names.
Decide(r) ==
    /\ At(r, "limit")
    /\ req[r].left = {}
    /\ IF req[r].denied
       THEN Goes(r, [Fresh EXCEPT !.step = "done", !.status = 429,
                       !.wait = now + Second * req[r].wait, !.over = req[r].over])
       ELSE Goes(r, [req[r] EXCEPT !.step = "validate"])
    /\ UNCHANGED <<limiterVars, kv, mintedFor>>

\* What the checks say of the bodies clients send, and what they should say.
Verdicts ==
    {[allowed |-> SubmissionAllowed(body, rpc), sponsorable |-> Sponsorable(body, rpc)] :
        body \in Submissions, rpc \in Outlooks}

\* parseSubmissionBody and validateSubmission.  Whatever is refused, or cannot
\* be checked, is answered without touching a key.
Validate(r) ==
    /\ At(r, "validate")
    /\ \E verdict \in Verdicts :
          IF verdict.allowed
          THEN Goes(r, [req[r] EXCEPT !.step = "read",
                                      !.sponsored = verdict.sponsorable])
          ELSE Answer(r, 200)
    /\ UNCHANGED <<limiterVars, kv, mintedFor>>

-----------------------------------------------------------------------------
(* API keys. *)

\* An attempt to submit begins.  Those after the deadline are counted up to two.
Attempt(q) ==
    [q EXCEPT !.step = "submit",
              !.late = IF now >= q.deadline /\ @ < 2 THEN @ + 1 ELSE @]

\* The submit loop starts, and with it the deadline (the bound MaxTime is a
\* deadline for everybody).
Loop(q, key) ==
    LET end == now + RetryDuration
    IN  Attempt([q EXCEPT !.key = key,
                          !.deadline = IF ~Testnet THEN 0
                                       ELSE IF end > MaxTime THEN MaxTime ELSE end])

\* readStoredApiKey has found nothing, or failed.  /status is answered anyway.
NothingRead(q) ==
    IF q.get THEN [Fresh EXCEPT !.step = "done", !.status = 200]
             ELSE [q EXCEPT !.step = "mint"]

\* The value of the client's own key name.  The slip is one name for all.
AnybodysEntry(q) == kv[CHOOSE ip \in Ips : TRUE]
EntryOf(q) == kv[q.ip]

\* KV is read.  A bare key is stored anew before it is used, by a POST.
ReadKey(r) ==
    /\ At(r, "read")
    /\ LET q     == req[r]
           value == EntryOf(q)
       IN  \/ Goes(r, NothingRead(q))
           \/ value.form = "junk" /\ Goes(r, [q EXCEPT !.step = "purge"])
           \/ /\ value.form \in {"stored", "bare"}
              /\ Goes(r, IF q.get THEN NothingRead(q)
                         ELSE IF value.form = "stored" THEN Loop(q, value.key)
                         ELSE [q EXCEPT !.step = "store", !.key = value.key])
    /\ UNCHANGED <<limiterVars, kv, mintedFor>>

\* The delete of what was read as junk deletes what is there by then.
Purge(r) ==
    /\ At(r, "purge")
    /\ kv' \in {kv, [kv EXCEPT ![req[r].ip] = Empty]}
    /\ Goes(r, NothingRead(req[r]))
    /\ UNCHANGED <<limiterVars, mintedFor>>

\* GET /gen on the relayer, which may answer nothing usable.  The slip is to
\* store that.
MintUnchecked(r) ==
    /\ At(r, "mint")
    /\ Goes(r, [req[r] EXCEPT !.step = "store"])
    /\ UNCHANGED <<limiterVars, kv, mintedFor>>
Mint(r) ==
    /\ At(r, "mint")
    /\ \/ /\ Unminted(mintedFor) # {}
          /\ LET fresh == CHOOSE k \in Unminted(mintedFor) : TRUE
             IN  /\ mintedFor' = [mintedFor EXCEPT ![fresh] = req[r].ip]
                 /\ Goes(r, [req[r] EXCEPT !.step = "store", !.key = fresh])
       \/ Answer(r, 200) /\ UNCHANGED mintedFor
    /\ UNCHANGED <<limiterVars, kv>>

\* KV put, of a minted or a migrated key.  A put that throws is an error.
Store(r) ==
    /\ At(r, "store")
    /\ \/ /\ kv' = [kv EXCEPT ![req[r].ip] = [form |-> "stored", key |-> req[r].key]]
          /\ Goes(r, Loop(req[r], req[r].key))
       \/ Answer(r, 200) /\ UNCHANGED kv
    /\ UNCHANGED <<limiterVars, mintedFor>>

-----------------------------------------------------------------------------
(* Submission. *)

\* The channels client resolves, or fails for good.
SubmitSettles(r) ==
    /\ At(r, "submit")
    /\ Answer(r, 200)
    /\ UNCHANGED <<limiterVars, kv, mintedFor>>

\* A missing account ends the loop elsewhere than on testnet, after the deadline,
\* and when it is the shared deployer.  The slips are to look at the deadline
\* before a funding only, and never.
GivesUpUnfunded(q, account) ==
    ~Testnet \/ (q.deadline <= now /\ account \notin q.funded) \/ account = "shared"
GivesUpNever(q, account) == ~Testnet \/ account = "shared"
GivesUp(q, account) == ~Testnet \/ q.deadline <= now \/ account = "shared"

\* The relayer misses an account: it is funded, unless it is known to have been,
\* and the loop goes on.
SubmitMisses(r, account) ==
    /\ At(r, "submit")
    /\ LET q == req[r]
       IN  IF GivesUp(q, account)
           THEN Answer(r, 200)
           ELSE IF account \in q.funded
           THEN Goes(r, Attempt(q))
           ELSE Goes(r, [q EXCEPT !.step = "fund", !.missing = account])
    /\ UNCHANGED <<limiterVars, kv, mintedFor>>

\* fundedAccounts.add, and the slip of leaving it out.
Unremembered(q, account) == q
Remembered(q, account) == [q EXCEPT !.funded = @ \cup {account}]

\* Friendbot pays the account or does not, and what it says may not come back: a
\* fetch that throws counts as not paid.  Either way the loop goes on.
Fund(r) ==
    /\ At(r, "fund")
    /\ LET q == Attempt([req[r] EXCEPT !.missing = ""])
           a == req[r].missing
       IN  \/ Goes(r, q)
           \/ Goes(r, [Remembered(q, a) EXCEPT !.paid[a] = @ + 1])
           \/ /\ q.lost[a] < LostAnswers
              /\ Goes(r, [q EXCEPT !.paid[a] = @ + 1, !.lost[a] = @ + 1])
    /\ UNCHANGED <<limiterVars, kv, mintedFor>>

-----------------------------------------------------------------------------

RequestStep(r) ==
    \/ \E n \in Names : LimiterAllows(r, n) \/ LimiterDenies(r, n)
    \/ LimiterUnavailable(r) \/ Decide(r) \/ Validate(r)
    \/ ReadKey(r) \/ Purge(r) \/ Mint(r) \/ Store(r)
    \/ SubmitSettles(r) \/ Fund(r)
    \/ \E a \in Channels \cup {"shared"} : SubmitMisses(r, a)

Passes == Tick /\ UNCHANGED <<req, kv, mintedFor>>

\* Clients besides Ips use up the global limiter.
OtherClient == Admit(Global) /\ UNCHANGED <<req, kv, mintedFor>>

Next == Passes \/ OtherClient \/ \E r \in Requests : Arrive(r) \/ RequestStep(r)

Spec == Init /\ [][Next]_proxyVars

\* Time passes, and as long as requests wait for calls some call comes back.
FairSpec ==
    Spec /\ WF_proxyVars(Passes) /\ WF_proxyVars(\E r \in Requests : RequestStep(r))

-----------------------------------------------------------------------------
(* Properties. *)

TypeOK ==
    /\ LimiterTypeOK
    /\ req \in [Requests -> Request]
    /\ kv \in [Ips -> KvValues]
    /\ mintedFor \in [ApiKeys -> Ips \cup {UnknownIp}]

\* A client told to wait may come back when Retry-After says: the windows that
\* refused it are over by then, whichever of the two limiters refused and
\* however late the answer of the other one was (enforceRateLimit takes the
\* larger of the two, RequestRateLimiter.fetch rounds up).
RetryAfterSuffices ==
    \A r \in Requests : req[r].status = 429 => req[r].wait >= req[r].over

\* Nothing that the sponsor should not pay for gets near an API key ("Security
\* invariant: validation and fee checks precede key read/mint/use").
OnlySponsorableUsesAKey ==
    \A r \in Requests :
        req[r].step \in {"mint", "store", "submit", "fund"} => req[r].sponsored

\* A key serves the client it was minted for and nobody else, whatever requests
\* of other clients read, delete, mint and store meanwhile (getKVKey).
KeysStayWithTheirIp ==
    /\ \A ip \in Ips : kv[ip].key # NoKey => mintedFor[kv[ip].key] = ip
    /\ \A r \in Requests : req[r].key # NoKey => mintedFor[req[r].key] = req[r].ip

\* The retry loop outlives its deadline by one attempt at most, the one that
\* follows a funding begun in time; elsewhere than on testnet there is one
\* attempt (POST /, the deadline checked after the attempt failed).
OneAttemptAfterDeadline == \A r \in Requests : req[r].late <= 1

\* A request makes Friendbot pay an account again only where it could not know of
\* the last payment: every payment but one has cost an answer that was lost.  The
\* shared deployer is never paid, and nobody elsewhere than on testnet
\* (fundWithFriendbot's catch, fundedAccounts).
PaysAgainOnlyUnanswered ==
    \A r \in Requests : \A a \in Channels \cup {"shared"} :
        req[r].paid[a] <= IF Testnet /\ a # "shared" THEN 1 + req[r].lost[a] ELSE 0

\* Every request is answered, however often the relayer asks for an account
\* (POST /, the while loop).
EveryRequestIsAnswered ==
    \A r \in Requests : ~At(r, "idle") ~> At(r, "done")

=============================================================================
