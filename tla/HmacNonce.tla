----------------------------- MODULE HmacNonce -----------------------------
(***************************************************************************)
(* internal/middleware/hmac.go: RequireHMAC, in front of the stamp and      *)
(* redeem routes.  A client signs a message once, over a fresh nonce and    *)
(* its own clock; the network may deliver it any number of times, intact or *)
(* not.  The middleware checks the age, then records the nonce in Redis for *)
(* nonceTTL, then verifies the signature.  Time is a counter of ticks; the  *)
(* code's hmacMaxAge is 5 minutes and its nonceTTL 10.                      *)
(***************************************************************************)
EXTENDS Integers

CONSTANTS Deliveries,   \* arrivals of a signed message at the middleware
          Messages,     \* signed messages, each with its own nonce
          MaxAge,       \* hmacMaxAge
          NonceTTL,     \* nonceTTL
          MaxSkew,      \* how far a client's clock is off the server's
          MaxDelay,     \* the longest time from the age check to the SET
          Horizon       \* bound on the clock

ASSUME TicksAssumption ==
  /\ MaxAge \in Nat /\ NonceTTL \in Nat /\ MaxSkew \in Nat /\ MaxDelay \in Nat
  /\ Horizon \in Nat

\* How far ahead of the server's clock a timestamp that is let through can be.
Ahead == IF MaxSkew < MaxAge THEN MaxSkew ELSE MaxAge

\* How long a message may still pass, from the first time it may.
Span == Ahead + MaxAge + MaxDelay

\* What the promise rests on: that nonceTTL exceeds hmacMaxAge is not enough, it
\* must also cover a client clock that runs ahead and the time the SET takes.
WindowCovered == Span < NonceTTL

VARIABLES now,
          signed,    \* the messages signed so far
          stamp,     \* the X-Timestamp of each
          expiry,    \* when whisked:nonce:<nonce> expires, 0 if it was never set
          pc, msg,
          checked    \* when the delivery passed the age check

vars == <<now, signed, stamp, expiry, pc, msg, checked>>

Answers == {"expired", "unavailable", "replayed", "refused", "handled"}

TypeOK ==
  /\ now \in Nat
  /\ signed \subseteq Messages
  /\ stamp \in [Messages -> Int]
  /\ expiry \in [Messages -> Nat]
  /\ pc \in [Deliveries -> {"new", "nonce", "verify"} \cup Answers]
  /\ msg \in [Deliveries -> Messages]
  /\ checked \in [Deliveries -> Nat]

Init ==
  /\ now = 0
  /\ signed = {}
  /\ stamp = [m \in Messages |-> 0]
  /\ expiry = [m \in Messages |-> 0]
  /\ pc = [d \in Deliveries |-> "new"]
  /\ msg \in [Deliveries -> Messages]
  /\ checked = [d \in Deliveries |-> 0]

Goto(d, l) == pc' = [pc EXCEPT ![d] = l]

\* The nonce of m is in Redis.
Held(m) == now < expiry[m]

\* age > hmacMaxAge || age < -hmacMaxAge
TooOld(m)   == now - stamp[m] > MaxAge
TooEarly(m) == now - stamp[m] < -MaxAge

\* A client signs with its own reading of the time.
Sign(m, t) ==
  /\ m \notin signed
  /\ signed' = signed \cup {m}
  /\ stamp' = [stamp EXCEPT ![m] = t]
  /\ UNCHANGED <<now, expiry, pc, msg, checked>>

\* Mutant: age > hmacMaxAge is not tested.
CheckAgeOneSided(d) ==
  /\ pc[d] = "new" /\ msg[d] \in signed
  /\ checked' = [checked EXCEPT ![d] = now]
  /\ IF TooEarly(msg[d]) THEN Goto(d, "expired") ELSE Goto(d, "nonce")
  /\ UNCHANGED <<now, signed, stamp, expiry, msg>>

\* The timestamp must be within hmacMaxAge of the server's clock, either way.
CheckAge(d) ==
  /\ pc[d] = "new" /\ msg[d] \in signed
  /\ IF TooOld(msg[d]) \/ TooEarly(msg[d])
       THEN Goto(d, "expired") /\ UNCHANGED checked
       ELSE Goto(d, "nonce") /\ checked' = [checked EXCEPT ![d] = now]
  /\ UNCHANGED <<now, signed, stamp, expiry, msg>>

\* Mutant: the nonce is kept for hmacMaxAge.
SetNonceForMaxAge(d) ==
  /\ pc[d] = "nonce"
  /\ IF Held(msg[d]) THEN Goto(d, "replayed") /\ UNCHANGED expiry
       ELSE Goto(d, "verify") /\ expiry' = [expiry EXCEPT ![msg[d]] = now + MaxAge]
  /\ UNCHANGED <<now, signed, stamp, msg, checked>>

\* SET whisked:nonce:<nonce> NX EX.  When Redis fails the request is refused;
\* the SET may have been done, and go-redis, sending it again, may then take
\* its own nonce for a replay.
SetNonce(d) ==
  LET m == msg[d]
      Record == expiry' = [expiry EXCEPT ![m] = now + NonceTTL] IN
  /\ pc[d] = "nonce"
  /\ \/ ~Held(m) /\ Record /\ Goto(d, "verify")
     \/ Held(m) /\ Goto(d, "replayed") /\ UNCHANGED expiry
     \/ Goto(d, "unavailable") /\ UNCHANGED expiry
     \/ ~Held(m) /\ Record /\ (Goto(d, "unavailable") \/ Goto(d, "replayed"))
  /\ UNCHANGED <<now, signed, stamp, msg, checked>>

\* The signature is verified last: a copy damaged on the way is refused with
\* its nonce already recorded.
Verify(d) ==
  /\ pc[d] = "verify"
  /\ Goto(d, "handled") \/ Goto(d, "refused")
  /\ UNCHANGED <<now, signed, stamp, expiry, msg, checked>>

Tick ==
  /\ now < Horizon
  /\ \A d \in Deliveries : pc[d] = "nonce" => now - checked[d] < MaxDelay
  /\ now' = now + 1
  /\ UNCHANGED <<signed, stamp, expiry, pc, msg, checked>>

Next ==
  \/ \E m \in Messages, t \in (now - MaxSkew)..(now + MaxSkew) : Sign(m, t)
  \/ \E d \in Deliveries : CheckAge(d) \/ SetNonce(d) \/ Verify(d)
  \/ Tick

Spec == Init /\ [][Next]_vars
-----------------------------------------------------------------------------
\* A message reaches its handler once, however often it is delivered: the
\* promise of the nonce to Stamp and Redeem, whose retries it keeps apart.
HandledOnce ==
  \A d, e \in Deliveries :
    pc[d] = "handled" /\ pc[e] = "handled" /\ msg[d] = msg[e] => d = e

\* As long as a delivery of a message may still pass, the nonce its first
\* delivery recorded is in Redis.
NonceOutlivesWindow ==
  \A d, e \in Deliveries :
    pc[d] \in {"verify", "handled"} /\ pc[e] = "nonce" /\ msg[d] = msg[e] => Held(msg[d])

\* Why: what passes the age check is at most Ahead of the clock and MaxAge behind
\* it, and waits MaxDelay for its SET.
WindowInv ==
  /\ \A m \in signed : stamp[m] <= now + MaxSkew
  /\ \A d \in Deliveries :
       pc[d] \in {"nonce", "verify", "handled"} => msg[d] \in signed
  /\ \A d \in Deliveries :
       pc[d] = "nonce" => /\ checked[d] - stamp[msg[d]] \in (-Ahead)..MaxAge
                          /\ now - checked[d] \in 0..MaxDelay

\* So the first delivery set the nonce at stamp - Ahead or later, and the last can
\* try at stamp + MaxAge + MaxDelay.
NonceInv ==
  /\ \A d \in Deliveries :
       pc[d] \in {"verify", "handled"} => expiry[msg[d]] >= stamp[msg[d]] - Ahead + NonceTTL
  /\ \A d, e \in Deliveries :
       /\ pc[d] \in {"verify", "handled"} /\ pc[e] \in {"verify", "handled"}
       /\ msg[d] = msg[e]
       => d = e
=============================================================================
