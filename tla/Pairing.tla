-------------------------------- MODULE Pairing --------------------------------
(***************************************************************************)
(* PairingState of crates/lattice-studio-bridge: the challenges that       *)
(* discover_http issues, the session tokens pair_http mints for them, and  *)
(* the check authenticate makes of every request.  A handler reads the     *)
(* clock before it waits for the lock, so requests may apply out of order, *)
(* each with a time up to MaxLag old.                                      *)
(***************************************************************************)
EXTENDS Naturals, FiniteSets

CONSTANTS
    ChallengeTTL,         \* PAIRING_CHALLENGE_TTL_MS
    SessionTTL,           \* PAIRING_SESSION_TTL_MS
    MaxChallenges,        \* MAX_PENDING_PAIRING_CHALLENGES, 32
    MaxSessions,          \* MAX_PAIRING_SESSIONS, 128
    MaxLag, MaxClock, MaxIssued      \* bounds of the model

ASSUME PairingAssumption ==
    /\ ChallengeTTL \in Nat /\ SessionTTL \in Nat
    /\ MaxChallenges \in Nat \ {0} /\ MaxSessions \in Nat \ {0}
    /\ MaxLag \in Nat /\ MaxClock \in Nat /\ MaxIssued \in Nat

VARIABLES
    clock,
    issued,         \* challenges issued so far; they are numbered
    challenges,     \* [id, expires] pending
    sessions,       \* [id, expires, challenge] of the tokens that are accepted
    minted,         \* every token ever minted
    applied         \* the latest time a request was applied with

pairingVars == <<clock, issued, challenges, sessions, minted, applied>>

PairingInit == /\ clock = 0 /\ issued = 0 /\ applied = 0
               /\ challenges = {} /\ sessions = {} /\ minted = {}

Tick == /\ clock < MaxClock
        /\ clock' = clock + 1
        /\ UNCHANGED <<issued, challenges, sessions, minted, applied>>

RequestTimes == {now \in 0..clock : clock - now <= MaxLag}

Unexpired(entries, now) == {entry \in entries : entry.expires > now}

\* Eviction until there is room: the entries that would expire first go.
Evicted(entries, capacity) ==
    {kept \in SUBSET entries :
        /\ Cardinality(kept) = IF Cardinality(entries) < capacity THEN Cardinality(entries)
                               ELSE capacity - 1
        /\ \A entry \in kept, gone \in entries \ kept : entry.expires >= gone.expires}

AppliedAt(now) == applied' = IF now > applied THEN now ELSE applied

IssueChallenge(now) ==
    /\ issued < MaxIssued
    /\ issued' = issued + 1
    /\ \E kept \in Evicted(Unexpired(challenges, now), MaxChallenges) :
          challenges' = kept \union {[id |-> issued', expires |-> now + ChallengeTTL]}
    /\ sessions' = Unexpired(sessions, now)
    /\ AppliedAt(now)
    /\ UNCHANGED <<clock, minted>>

RedeemedKept(entries, challenge) == entries       \* read instead of removed
Redeemed(entries, challenge) == entries \ {challenge}

Redeem(challenge, now) ==
    /\ challenge \in Unexpired(challenges, now)
    /\ challenges' = Redeemed(Unexpired(challenges, now), challenge)
    /\ LET token == [id |-> Cardinality(minted) + 1, expires |-> now + SessionTTL,
                     challenge |-> challenge.id]
       IN  /\ \E kept \in Evicted(Unexpired(sessions, now), MaxSessions) :
                 sessions' = kept \union {token}
           /\ minted' = minted \union {token}
    /\ AppliedAt(now)
    /\ UNCHANGED <<clock, issued>>

\* authenticate, and a redemption of a challenge that is not pending: only expire.
Authenticate(now) ==
    /\ challenges' = Unexpired(challenges, now)
    /\ sessions' = Unexpired(sessions, now)
    /\ AppliedAt(now)
    /\ UNCHANGED <<clock, issued, minted>>

Accepts(token, now) == token \in Unexpired(sessions, now)

PairingNext ==
    \/ Tick
    \/ \E now \in RequestTimes :
          \/ IssueChallenge(now)
          \/ \E challenge \in challenges : Redeem(challenge, now)
          \/ Authenticate(now)

PairingSpec == PairingInit /\ [][PairingNext]_pairingVars

(***************************************************************************)
(* Properties.                                                             *)
(***************************************************************************)
PairingTypeOK ==
    /\ clock \in 0..MaxClock /\ issued \in 0..MaxIssued /\ applied \in 0..MaxClock
    /\ \A entry \in challenges : entry.id \in 1..issued
    /\ sessions \subseteq minted

\* A challenge is redeemed once, no more tokens are accepted than the limit,
\* none longer than its lifetime, and one is lost before it expires only to
\* others that expire no earlier, as many as fit beside a new one.
PairingSound ==
    /\ \A a, b \in minted : a.challenge = b.challenge => a = b
    /\ \A token \in minted, challenge \in challenges : token.challenge # challenge.id
    /\ Cardinality(challenges) <= MaxChallenges /\ Cardinality(sessions) <= MaxSessions
    /\ \A token \in minted, now \in RequestTimes :
          Accepts(token, now) => now < token.expires
    /\ \A lost \in minted \ sessions :
          lost.expires > applied =>
              Cardinality({token \in minted \ {lost} : token.expires >= lost.expires})
                  >= MaxSessions - 1
=============================================================================
