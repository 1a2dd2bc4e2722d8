----------------------------- MODULE RateLimit -----------------------------
(***************************************************************************)
(* Token buckets in Redis, one for each address and one for each e-mail of *)
(* a rule.  A request takes a token of each in turn; the script that takes *)
(* one runs alone, with the clock of the process that calls it, while the  *)
(* bucket lapses by the clock of Redis.  Tokens are counted in units of    *)
(* 1/Window, so that a bucket of `rate' gains that many in each tick.      *)
(***************************************************************************)
EXTENDS Integers, Sequences, Functions

CONSTANTS
  Process,       \* processes of the API, each with its clock
  Ip, NoIp,      \* addresses; NoIp: the address is not known
  Mail, NoMail,  \* e-mails; NoMail: the body has none
  Rules,         \* the file of rules, in order: [id, paths, fallback, buckets], and of
                 \* each bucket [scope, rate, burst]
  Window,        \* ticks of the window of every bucket
  MinTtl,        \* a minute, at least
  MaxTime, MaxRequests, MaxSkew,
  MaxFaults      \* bounds, the last of failures and of steps of a clock together

ASSUME RateLimitAssumption ==
  /\ Window \in Nat \ {0} /\ MinTtl \in Nat
  /\ MaxTime \in Nat /\ MaxRequests \in Nat /\ MaxSkew \in Nat /\ MaxFaults \in Nat
  /\ \A r \in Range(Rules) : \A b \in Range(r.buckets) :
       b.rate \in Nat \ {0} /\ b.burst \in 0 .. 2 * b.rate

VARIABLES
  time, skew,
  bucket,     \* by key: [units, last, until], or None
  request,    \* each process serves one: the turns it has yet to take
  granted,    \* tokens given from each key
  asked, faults,
  steps       \* of a clock

rateVars == <<time, skew, bucket, request, granted, asked, faults, steps>>

None == [units |-> 0, last |-> 0, until |-> -1]
Capacity(b) == IF b.burst < 1 THEN 1 ELSE b.burst
Keys == UNION {{<<r.id, b, who>> : b \in Range(r.buckets), who \in Ip \cup Mail} : r \in Range(Rules)}
Now(p) == time + skew[p]

RateInit ==
  /\ time = 0 /\ skew = [p \in Process |-> 0]
  /\ bucket = [k \in Keys |-> None]
  /\ request = [p \in Process |-> {}]
  /\ granted = [k \in Keys |-> 0]
  /\ asked = 0 /\ faults = 0 /\ steps = 0

(* The identifier a bucket counts by; without one the bucket is passed.    *)
Identifier(b, ip, mail) == IF b.scope = "ip" THEN ip ELSE mail

(* A specific rule makes the fallbacks not count.                          *)
Matched(path) ==
  LET all == {i \in DOMAIN Rules : path \in Rules[i].paths}
      specific == {i \in all : ~Rules[i].fallback}
  IN IF specific = {} THEN all ELSE specific

(* A turn is the place of the rule, that of the bucket in it, and who; the *)
(* turns are taken rule by rule and bucket by bucket, from the key of each. *)
KeyAt(turn) == <<Rules[turn[1]].id, Rules[turn[1]].buckets[turn[2]], turn[3]>>
Before(turn, other) == turn[1] < other[1] \/ (turn[1] = other[1] /\ turn[2] < other[2])
SameKey(turn, other) ==
  KeyAt(turn)[1] = KeyAt(other)[1] /\ KeyAt(turn)[2].scope = KeyAt(other)[2].scope /\ turn[3] = other[3]

(* Of the buckets that Redis knows by one key, the first is asked.         *)
BucketsOf(path, ip, mail) ==
  LET turns(i) == {<<i, j, Identifier(Rules[i].buckets[j], ip, mail)>> : j \in DOMAIN Rules[i].buckets}
      known == {turn \in UNION {turns(i) : i \in Matched(path)} : turn[3] \notin {NoIp, NoMail}}
  IN {turn \in known : \A other \in known : Before(other, turn) => ~SameKey(other, turn)}

Ask(p, path, ip, mail) ==
  /\ request[p] = {} /\ asked < MaxRequests
  /\ request' = [request EXCEPT ![p] = BucketsOf(path, ip, mail)]
  /\ asked' = asked + 1
  /\ UNCHANGED <<time, skew, bucket, granted, faults, steps>>
-----------------------------------------------------------------------------
(* rate_limit_lua.lua *)

Least(a, b) == IF a < b THEN a ELSE b
Most(a, b) == IF a > b THEN a ELSE b

(* (RefilledUncapped: a mutant whose bucket overflows.)                    *)
RefilledUncapped(k, now) ==
  IF bucket[k] = None THEN Capacity(k[2]) * Window
  ELSE bucket[k].units + Most(0, now - bucket[k].last) * k[2].rate

Refilled(k, now) ==
  IF bucket[k] = None THEN Capacity(k[2]) * Window
  ELSE Least(Capacity(k[2]) * Window, bucket[k].units + Most(0, now - bucket[k].last) * k[2].rate)

Kept(units, now) == [units |-> units, last |-> now, until |-> time + Most(2 * Window, MinTtl)]

(* A refused request has taken the tokens of the buckets before.           *)
Consume(p) == \E turn \in request[p] :
  /\ \A other \in request[p] \ {turn} : Before(turn, other)
  /\ LET k == KeyAt(turn)
         units == Refilled(k, Now(p))
     IN IF units < Window
        THEN /\ bucket' = [bucket EXCEPT ![k] = Kept(units, Now(p))]
             /\ request' = [request EXCEPT ![p] = {}]
             /\ UNCHANGED granted
        ELSE /\ bucket' = [bucket EXCEPT ![k] = Kept(units - Window, Now(p))]
             /\ request' = [request EXCEPT ![p] = @ \ {turn}]
             /\ granted' = [granted EXCEPT ![k] = @ + 1]
  /\ UNCHANGED <<time, skew, asked, faults, steps>>

(* Redis fails: the request is refused, or is served without a check.      *)
CannotCheck(p) ==
  /\ request[p] # {} /\ faults + steps < MaxFaults
  /\ faults' = faults + 1
  /\ request' = [request EXCEPT ![p] = {}]
  /\ UNCHANGED <<time, skew, bucket, granted, asked, steps>>

Tick ==
  /\ time < MaxTime
  /\ time' = time + 1
  /\ bucket' = [k \in Keys |-> IF bucket[k].until <= time' THEN None ELSE bucket[k]]
  /\ UNCHANGED <<skew, request, granted, asked, faults, steps>>

StepClock(p, by) ==
  /\ skew[p] # by /\ faults + steps < MaxFaults
  /\ skew' = [skew EXCEPT ![p] = by]
  /\ steps' = steps + 1
  /\ UNCHANGED <<time, bucket, request, granted, asked, faults>>

RateNext ==
  \/ Tick
  \/ \E p \in Process :
       \/ \E path \in UNION {r.paths : r \in Range(Rules)}, ip \in Ip \cup {NoIp}, mail \in Mail \cup {NoMail} : Ask(p, path, ip, mail)
       \/ Consume(p) \/ CannotCheck(p)
       \/ \E by \in -MaxSkew .. MaxSkew : StepClock(p, by)

RateSpec == RateInit /\ [][RateNext]_rateVars
-----------------------------------------------------------------------------
(* Properties *)

(* Buckets hold between nothing and their capacity, and a request takes    *)
(* from those alone.                                                       *)
RateTypeOK ==
  /\ \A k \in Keys : bucket[k].units \in 0 .. Capacity(k[2]) * Window
  /\ \A p \in Process : \A turn \in request[p] : KeyAt(turn) \in Keys

(* From a key no more is granted than the burst at first, and the rate     *)
(* since: a bucket that lapses has had the time to fill.                   *)
GrantedWithinRate ==
  \A k \in Keys : granted[k] * Window <= Capacity(k[2]) * Window + k[2].rate * time

(* That holds as long as no process's clock is stepped.                    *)
GrantedWithinRateUnlessStepped == steps = 0 => GrantedWithinRate
=============================================================================
