-------------------------------- MODULE HostProofs --------------------------------
(***************************************************************************)
(* The theorems about the parts of the host side that share no state: the  *)
(* endpoint of the daemon, the pairing of plugins, the background jobs and *)
(* the pull of scripts, each for any number of daemons, requests, jobs and *)
(* instances; then about all of them, with the monitor, as one system.     *)
(***************************************************************************)
EXTENDS MCHost, StudioMonitorProofs, SequenceTheorems

----------------------------------------------------------------------------
(* The endpoint of the daemon                                              *)

Busy(d) == phase[d] \in Binding \union Dropping

\* The phases in which the listener of a daemon is open.
OpenPhases == {"restricting", "writing", "renaming", "published", "verifying", "serving"}
            \union Dropping

ListeningKnown == \A d \in Daemons : d \in listening <=> phase[d] \in OpenPhases

\* Without an overlap one daemon at most binds or drops and each phase of a bind
\* finds the files as it left them; unless one took a live daemon for dead, nobody
\* serves from its removal of the socket on.
AloneBusy == \A d, e \in Daemons : Busy(d) /\ Busy(e) => d = e

Unserved == \A d \in Daemons :
    phase[d] \in (Binding \ {"checking"}) \union Dropping =>
        \A e \in Daemons : phase[e] # "serving"

ServingOwns == \A d \in Daemons : phase[d] = "serving" => socket = d

OwnsFiles == \A d \in Daemons :
    /\ phase[d] = "listening" => socket = NoFile
    /\ phase[d] = "unpublishing" => socket = NoFile
    /\ phase[d] \in {"restricting", "writing", "renaming", "published", "verifying"} => socket = d
    /\ phase[d] = "renaming" => temporary = d
    /\ phase[d] \in {"published", "verifying"} => endpoint = d
    /\ phase[d] = "serving" /\ socket = d => endpoint = d

NoneFailed == \A d \in Daemons : phase[d] # "failed"

Undisturbed == AloneBusy /\ OwnsFiles /\ NoneFailed /\ (~missed => Unserved /\ ServingOwns)

EndpointInv == EndpointTypeOK /\ ListeningKnown /\ (~overlapped => Undisturbed)

\* Only one of them is ever busy, or everyone was off, when a step leaves no overlap.
LEMMA MovesAlone ==
  ASSUME NEW d \in Daemons, NEW next, Moves(d, next), ~overlapped'
  PROVE  /\ \A e \in Daemons \ {d} : ~Busy(e)
         /\ overlapped => \A e \in Daemons : phase[e] = "off"
  BY DEF Moves, NoneRuns, Busy, Binding, Dropping

LEMMA InitEndpoint == EndpointInit => EndpointInv
  BY NoFileAssumption
  DEF EndpointInit, EndpointInv, EndpointTypeOK, ListeningKnown, Undisturbed, AloneBusy, Unserved,
      ServingOwns, OwnsFiles, NoneFailed, Busy, OpenPhases, Binding, Dropping

LEMMA StepEndpoint ==
  ASSUME EndpointInv, NEW d \in Daemons,
         \/ Start(d) \/ Check(d) \/ RemoveSocket(d) \/ Listen(d) \/ RestrictSocket(d)
         \/ Write(d) \/ Rename(d) \/ RestrictEndpoint(d) \/ Verify(d)
         \/ Stop(d) \/ DropSocket(d) \/ DropEndpoint(d) \/ Exit(d)
  PROVE  EndpointInv'
<1> USE NoFileAssumption DEF Busy, OpenPhases, Binding, Dropping
<1>1. PICK next \in {"off", "refused", "failed", "serving"} \union Binding \union Dropping :
         Moves(d, next)
  BY DEF Start, Check, RemoveSocket, Listen, RestrictSocket, Write, Rename, RestrictEndpoint,
         Verify, Stop, DropSocket, DropEndpoint, Exit
<1>2. EndpointTypeOK'
  BY <1>1 DEF EndpointInv, EndpointTypeOK, Moves, Start, Check, RemoveSocket, Listen,
         RestrictSocket, Write, Rename, RestrictEndpoint, Verify, Stop, DropSocket, DropEndpoint,
         Exit
<1>3. ListeningKnown'
  <2> USE DEF EndpointInv, EndpointTypeOK, ListeningKnown, Moves
  <2>1. CASE Start(d) BY <2>1 DEF Start
  <2>2. CASE Check(d) BY <2>2 DEF Check
  <2>3. CASE RemoveSocket(d) BY <2>3 DEF RemoveSocket
  <2>4. CASE Listen(d) BY <2>4 DEF Listen
  <2>5. CASE RestrictSocket(d) BY <2>5 DEF RestrictSocket
  <2>6. CASE Write(d) BY <2>6 DEF Write
  <2>7. CASE Rename(d) BY <2>7 DEF Rename
  <2>8. CASE RestrictEndpoint(d) BY <2>8 DEF RestrictEndpoint
  <2>9. CASE Verify(d) BY <2>9 DEF Verify
  <2>10. CASE Stop(d) BY <2>10 DEF Stop
  <2>11. CASE DropSocket(d) BY <2>11 DEF DropSocket
  <2>12. CASE DropEndpoint(d) BY <2>12 DEF DropEndpoint
  <2>13. CASE Exit(d) BY <2>13 DEF Exit
  <2> QED BY <2>1, <2>2, <2>3, <2>4, <2>5, <2>6, <2>7, <2>8, <2>9, <2>10, <2>11, <2>12, <2>13
<1>4. ASSUME ~overlapped' PROVE Undisturbed'
  <2>1. \A e \in Daemons \ {d} : ~Busy(e)
    BY <1>1, <1>4, MovesAlone
  <2>2. CASE overlapped
    <3>1. \A e \in Daemons : phase[e] = "off"
      BY <1>1, <1>4, <2>2, MovesAlone
    <3>2. Start(d)
      BY <3>1 DEF Check, RemoveSocket, Listen, RestrictSocket, Write, Rename, RestrictEndpoint,
                  Verify, Stop, DropSocket, DropEndpoint, Exit
    <3> QED BY <3>1, <3>2 DEF Start, Moves, EndpointInv, EndpointTypeOK, Undisturbed, AloneBusy,
                              Unserved, ServingOwns, ServingOwns, OwnsFiles, NoneFailed
  <2>3. CASE ~overlapped
    <3> USE DEF EndpointInv, EndpointTypeOK, ListeningKnown, Moves, Undisturbed, AloneBusy, Unserved,
                ServingOwns, OwnsFiles, NoneFailed
    <3>1. CASE Start(d)
      <4>1. /\ phase' = [phase EXCEPT ![d] = "checking"]
            /\ UNCHANGED <<socket, temporary, endpoint>>
            /\ ~missed' => ~missed \/ \A e \in Daemons : phase[e] = "off"
        BY <3>1 DEF Start, NoneRuns
      <4> QED BY <2>1, <2>3, <4>1
    <3>2. CASE Check(d)
      <4>1. /\ phase[d] = "checking"
            /\ \/ phase' = [phase EXCEPT ![d] = "refused"] /\ missed' = missed
               \/ phase' = [phase EXCEPT ![d] = "removing"] /\ (~missed' => ~missed /\ ~Reachable)
            /\ UNCHANGED <<socket, temporary, endpoint>>
        BY <3>2 DEF Check
      <4>2. ~missed /\ ~Reachable => \A e \in Daemons : phase[e] # "serving"
        BY <2>3 DEF Reachable
      <4> QED BY <2>1, <2>3, <4>1, <4>2
    <3>3. CASE RemoveSocket(d) BY <2>1, <2>3, <3>3 DEF RemoveSocket
    <3>4. CASE Listen(d)
      <4>1. phase[d] = "listening" /\ socket = NoFile
        BY <2>3, <3>4 DEF Listen
      <4>2. /\ phase' = [phase EXCEPT ![d] = "restricting"] /\ socket' = d
            /\ UNCHANGED <<temporary, endpoint, missed>>
        BY <3>4, <4>1 DEF Listen
      <4> QED BY <2>1, <2>3, <4>1, <4>2
    <3>5. CASE RestrictSocket(d)
      <4>1. phase[d] = "restricting" /\ socket = d /\ d # NoFile
        BY <2>3, <3>5 DEF RestrictSocket
      <4>2. /\ phase' = [phase EXCEPT ![d] = "writing"]
            /\ UNCHANGED <<socket, temporary, endpoint, missed>>
        BY <3>5, <4>1 DEF RestrictSocket
      <4> QED BY <2>1, <2>3, <4>1, <4>2
    <3>6. CASE Write(d) BY <2>1, <2>3, <3>6 DEF Write
    <3>7. CASE Rename(d)
      <4>1. phase[d] = "renaming" /\ socket = d /\ d # NoFile /\ temporary = d
        BY <2>3, <3>7 DEF Rename
      <4>2. /\ phase' = [phase EXCEPT ![d] = "published"]
            /\ endpoint' = d /\ UNCHANGED <<socket, missed>>
        BY <3>7, <4>1 DEF Rename
      <4> QED BY <2>1, <2>3, <4>1, <4>2
    <3>8. CASE RestrictEndpoint(d)
      <4>1. phase[d] = "published" /\ socket = d /\ d # NoFile /\ endpoint = d
        BY <2>3, <3>8 DEF RestrictEndpoint
      <4>2. /\ phase' = [phase EXCEPT ![d] = "verifying"]
            /\ UNCHANGED <<socket, temporary, endpoint, missed>>
        BY <3>8, <4>1 DEF RestrictEndpoint
      <4> QED BY <2>1, <2>3, <4>1, <4>2
    <3>9. CASE Verify(d) BY <2>1, <2>3, <3>9 DEF Verify
    <3>10. CASE Stop(d) BY <2>1, <2>3, <3>10 DEF Stop
    <3>11. CASE DropSocket(d) BY <2>1, <2>3, <3>11 DEF DropSocket
    <3>12. CASE DropEndpoint(d) BY <2>1, <2>3, <3>12 DEF DropEndpoint
    <3>13. CASE Exit(d) BY <2>1, <2>3, <3>13 DEF Exit
    <3> QED BY <3>1, <3>2, <3>3, <3>4, <3>5, <3>6, <3>7, <3>8, <3>9, <3>10, <3>11, <3>12, <3>13
  <2> QED BY <2>2, <2>3
<1> QED BY <1>2, <1>3, <1>4 DEF EndpointInv

LEMMA NextEndpoint == EndpointInv /\ [EndpointNext]_endpointVars => EndpointInv'
<1> SUFFICES ASSUME EndpointInv, [EndpointNext]_endpointVars PROVE EndpointInv'
  OBVIOUS
<1>1. CASE EndpointNext
  BY <1>1, StepEndpoint DEF EndpointNext
<1>2. CASE UNCHANGED endpointVars
  BY <1>2 DEF endpointVars, EndpointInv, EndpointTypeOK, ListeningKnown, Undisturbed, AloneBusy,
              Unserved, ServingOwns, OwnsFiles, NoneFailed, Busy
<1> QED BY <1>1, <1>2

LEMMA InvImpliesNamed == EndpointInv => EndpointNamesLiveDaemon
<1> SUFFICES ASSUME EndpointInv, ~overlapped PROVE
       /\ \A d \in Daemons : phase[d] # "failed"
       /\ \A d \in Serving : socket = d => endpoint = d /\ Connects = "connected"
       /\ ~missed => /\ \A d \in Serving : socket = d
                     /\ Cardinality(Serving) <= 1
  BY DEF EndpointNamesLiveDaemon
<1>1. \A d \in Serving : socket = d => endpoint = d /\ Connects = "connected"
  BY NoFileAssumption
  DEF Serving, Connects, EndpointInv, Undisturbed, OwnsFiles, ListeningKnown, OpenPhases
<1>2. ASSUME ~missed PROVE \A d \in Serving : socket = d
  BY <1>2 DEF Serving, EndpointInv, Undisturbed, ServingOwns
<1>3. ASSUME ~missed PROVE Cardinality(Serving) <= 1
  <2>1. CASE Serving = {} BY <2>1, FS_EmptySet
  <2>2. CASE Serving # {}
    <3>1. Serving = {socket} BY <1>2, <1>3, <2>2
    <3>2. Cardinality({socket}) = 1 BY FS_Singleton
    <3> QED BY <3>1, <3>2
  <2> QED BY <2>1, <2>2
<1> QED BY <1>1, <1>2, <1>3 DEF EndpointInv, Undisturbed, NoneFailed

\* For any number of daemons, whatever crashes left behind: where no two bind or
\* drop at the same time, no bind fails but by a daemon that answers, a serving
\* daemon that owns the socket is the one the files lead to and, unless a bind
\* took a live daemon for dead, whoever serves is the only one and owns it.
THEOREM EndpointTheorem == EndpointSpec => [](EndpointTypeOK /\ EndpointNamesLiveDaemon)
<1>1. EndpointInit => EndpointInv BY InitEndpoint
<1>2. EndpointInv /\ [EndpointNext]_endpointVars => EndpointInv' BY NextEndpoint
<1>3. EndpointInv => EndpointTypeOK /\ EndpointNamesLiveDaemon BY InvImpliesNamed DEF EndpointInv
<1> QED BY <1>1, <1>2, <1>3, PTL DEF EndpointSpec

----------------------------------------------------------------------------
(* Pairing                                                                 *)

Challenge == [id: Nat, expires: Nat]
Token == [id: Nat, expires: Nat, challenge: Nat]

\* Challenges are told apart by their numbers, which no other one had before.
ChallengesKnown ==
    /\ IsFiniteSet(challenges)
    /\ challenges \subseteq Challenge
    /\ \A challenge \in challenges : challenge.id <= issued
    /\ \A a, b \in challenges : a.id = b.id => a = b

TokensKnown ==
    /\ IsFiniteSet(minted)
    /\ minted \subseteq Token
    /\ \A token \in minted : token.challenge <= issued
    /\ sessions \subseteq minted

RedeemedOnce ==
    /\ \A a, b \in minted : a.challenge = b.challenge => a = b
    /\ \A token \in minted, challenge \in challenges : token.challenge # challenge.id

Limited == Cardinality(challenges) <= MaxChallenges /\ Cardinality(sessions) <= MaxSessions

\* The tokens in M that a token may have been lost to.
Rivals(token, M) == {other \in M \ {token} : other.expires >= token.expires}

Beaten(token, M) == Cardinality(Rivals(token, M)) >= MaxSessions - 1

LostToRivals == \A token \in minted \ sessions : token.expires > applied => Beaten(token, minted)

PairingInv ==
    /\ clock \in Nat /\ issued \in Nat /\ applied \in Nat
    /\ ChallengesKnown /\ TokensKnown /\ RedeemedOnce /\ Limited /\ LostToRivals

\* Eviction leaves room for one more, and evicts only when there is none.
LEMMA EvictedProperties ==
  ASSUME NEW entries, IsFiniteSet(entries), NEW capacity \in Nat \ {0},
         NEW kept \in Evicted(entries, capacity)
  PROVE  /\ kept \subseteq entries
         /\ IsFiniteSet(kept)
         /\ Cardinality(kept) \in Nat
         /\ Cardinality(kept) < capacity
         /\ kept # entries => /\ Cardinality(kept) = capacity - 1
                              /\ \A entry \in kept, gone \in entries \ kept :
                                    entry.expires >= gone.expires
<1>1. kept \in SUBSET entries BY DEF Evicted
<1>2. /\ IsFiniteSet(kept)
      /\ Cardinality(entries) = Cardinality(kept) => entries = kept
  BY <1>1, FS_Subset
<1>3. Cardinality(kept) \in Nat /\ Cardinality(entries) \in Nat BY <1>2, FS_CardinalityType
<1>4. Cardinality(kept) = IF Cardinality(entries) < capacity THEN Cardinality(entries)
                          ELSE capacity - 1
  BY DEF Evicted
<1>5. \A entry \in kept, gone \in entries \ kept : entry.expires >= gone.expires
  BY DEF Evicted
<1> QED BY <1>1, <1>2, <1>3, <1>4, <1>5

LEMMA UnexpiredProperties ==
  ASSUME NEW entries, IsFiniteSet(entries), NEW now
  PROVE  /\ Unexpired(entries, now) \subseteq entries
         /\ IsFiniteSet(Unexpired(entries, now))
         /\ Cardinality(Unexpired(entries, now)) \in Nat
         /\ Cardinality(Unexpired(entries, now)) <= Cardinality(entries)
<1>1. Unexpired(entries, now) \in SUBSET entries BY DEF Unexpired
<1>2. /\ IsFiniteSet(Unexpired(entries, now))
      /\ Cardinality(Unexpired(entries, now)) <= Cardinality(entries)
  BY <1>1, FS_Subset
<1> QED BY <1>1, <1>2, FS_CardinalityType

\* More tokens can only add rivals.
LEMMA BeatenStays ==
  ASSUME NEW token, NEW N, IsFiniteSet(N), NEW M \in SUBSET N, Beaten(token, M)
  PROVE  Beaten(token, N)
<1>1. Rivals(token, N) \in SUBSET N /\ Rivals(token, M) \in SUBSET Rivals(token, N) BY DEF Rivals
<1>2. IsFiniteSet(Rivals(token, N)) BY <1>1, FS_Subset
<1>3. /\ IsFiniteSet(Rivals(token, M))
      /\ Cardinality(Rivals(token, M)) <= Cardinality(Rivals(token, N))
  BY <1>1, <1>2, FS_Subset
<1>4. Cardinality(Rivals(token, M)) \in Nat /\ Cardinality(Rivals(token, N)) \in Nat
  BY <1>2, <1>3, FS_CardinalityType
<1> QED BY <1>3, <1>4, PairingAssumption DEF Beaten

\* A token that is evicted has as many rivals as are kept.
LEMMA EvictedBeaten ==
  ASSUME NEW M, IsFiniteSet(M), NEW entries \in SUBSET M,
         NEW kept \in Evicted(entries, MaxSessions), NEW token \in entries \ kept
  PROVE  Beaten(token, M)
<1>1. IsFiniteSet(entries) BY FS_Subset
<1>2. MaxSessions \in Nat \ {0} BY PairingAssumption
<1>3. /\ kept \subseteq entries /\ Cardinality(kept) = MaxSessions - 1
      /\ \A entry \in kept : entry.expires >= token.expires
  BY <1>1, <1>2, EvictedProperties
<1>4. Rivals(token, M) \in SUBSET M /\ kept \in SUBSET Rivals(token, M)
  BY <1>3 DEF Rivals
<1>5. IsFiniteSet(Rivals(token, M)) BY <1>4, FS_Subset
<1>6. Cardinality(kept) <= Cardinality(Rivals(token, M)) BY <1>4, <1>5, FS_Subset
<1> QED BY <1>3, <1>6 DEF Beaten

LEMMA InitPairing == PairingInit => PairingInv
<1> SUFFICES ASSUME PairingInit PROVE PairingInv OBVIOUS
<1>1. IsFiniteSet({}) /\ Cardinality({}) = 0 BY FS_EmptySet
<1>2. ChallengesKnown /\ TokensKnown /\ RedeemedOnce /\ LostToRivals
  BY <1>1 DEF PairingInit, ChallengesKnown, TokensKnown, RedeemedOnce, LostToRivals
<1>3. Limited BY <1>1, PairingAssumption DEF PairingInit, Limited
<1> QED BY <1>2, <1>3 DEF PairingInv, PairingInit

\* What every request does first.
LEMMA Sweep ==
  ASSUME PairingInv, NEW now \in RequestTimes, AppliedAt(now)
  PROVE  /\ now \in Nat /\ applied' \in Nat /\ applied <= applied' /\ now <= applied'
         /\ IsFiniteSet(sessions)
         /\ Unexpired(sessions, now) \in SUBSET minted
         /\ \A token \in minted \ Unexpired(sessions, now) :
               token.expires > applied' => Beaten(token, minted)
<1>1. /\ now \in Nat /\ applied' \in Nat /\ applied <= applied' /\ now <= applied'
  BY DEF RequestTimes, AppliedAt, PairingInv
<1>2. sessions \in SUBSET minted /\ IsFiniteSet(minted) BY DEF PairingInv, TokensKnown
<1>3. IsFiniteSet(sessions) BY <1>2, FS_Subset
<1>4. ASSUME NEW token \in minted \ Unexpired(sessions, now), token.expires > applied'
      PROVE  Beaten(token, minted)
  <2>1. token.expires \in Nat BY DEF PairingInv, TokensKnown, Token
  <2>2. token.expires > now /\ token.expires > applied BY <1>1, <1>4, <2>1 DEF PairingInv
  <2>3. token \notin sessions BY <1>4, <2>2 DEF Unexpired
  <2> QED BY <2>2, <2>3 DEF PairingInv, LostToRivals
<1> QED BY <1>1, <1>2, <1>3, <1>4 DEF Unexpired

LEMMA IssueKeeps ==
  ASSUME PairingInv, NEW now \in RequestTimes, IssueChallenge(now)
  PROVE  PairingInv'
<1>1. /\ now \in Nat /\ applied' \in Nat /\ IsFiniteSet(sessions)
      /\ \A token \in minted \ Unexpired(sessions, now) :
            token.expires > applied' => Beaten(token, minted)
  BY Sweep DEF IssueChallenge
<1>2. PICK kept \in Evicted(Unexpired(challenges, now), MaxChallenges) :
         challenges' = kept \union {[id |-> issued', expires |-> now + ChallengeTTL]}
  BY DEF IssueChallenge
<1> DEFINE new == [id |-> issued', expires |-> now + ChallengeTTL]
<1>3. IsFiniteSet(challenges) /\ MaxChallenges \in Nat \ {0} /\ ChallengeTTL \in Nat
  BY PairingAssumption DEF PairingInv, ChallengesKnown
<1>4. Unexpired(challenges, now) \subseteq challenges /\ IsFiniteSet(Unexpired(challenges, now))
  BY <1>3, UnexpiredProperties
<1>5. /\ kept \subseteq challenges /\ IsFiniteSet(kept)
      /\ Cardinality(kept) \in Nat /\ Cardinality(kept) < MaxChallenges
  BY <1>3, <1>4, EvictedProperties
<1>6. /\ IsFiniteSet(challenges')
      /\ Cardinality(challenges') = IF new \in kept THEN Cardinality(kept) ELSE Cardinality(kept) + 1
  BY <1>2, <1>5, FS_AddElement
<1>7. issued' = issued + 1 /\ issued \in Nat /\ minted' = minted /\ clock' = clock
      /\ sessions' = Unexpired(sessions, now)
  BY DEF IssueChallenge, PairingInv
<1>8. new \in Challenge /\ new.id = issued + 1 BY <1>1, <1>3, <1>7 DEF Challenge
<1>9. ChallengesKnown'
  <2>1. \A challenge \in challenges :
           challenge \in Challenge /\ challenge.id \in Nat /\ challenge.id <= issued
    BY DEF PairingInv, ChallengesKnown, Challenge
  <2>2. challenges' \subseteq Challenge BY <1>2, <1>5, <1>8, <2>1
  <2>3. \A challenge \in challenges' : challenge.id <= issued'
    BY <1>2, <1>5, <1>7, <1>8, <2>1
  <2>4. \A a, b \in kept : a.id = b.id => a = b BY <1>5 DEF PairingInv, ChallengesKnown
  <2>5. \A a \in kept : a.id # new.id BY <1>5, <1>7, <1>8, <2>1
  <2>6. \A a, b \in challenges' : a.id = b.id => a = b BY <1>2, <2>4, <2>5
  <2> QED BY <1>6, <2>2, <2>3, <2>6 DEF ChallengesKnown
<1>10. TokensKnown'
  <2>1. \A token \in minted : token.challenge \in Nat /\ token.challenge <= issued
    BY DEF PairingInv, TokensKnown, Token
  <2>2. \A token \in minted : token.challenge <= issued' BY <1>7, <2>1
  <2> QED BY <1>7, <2>2 DEF PairingInv, TokensKnown, Unexpired
<1>11. RedeemedOnce'
  <2>1. \A token \in minted : token.challenge \in Nat /\ token.challenge <= issued
    BY DEF PairingInv, TokensKnown, Token
  <2>2. \A token \in minted : token.challenge # new.id BY <1>7, <1>8, <2>1
  <2> QED BY <1>2, <1>5, <1>7, <2>2 DEF PairingInv, RedeemedOnce
<1>12. Limited'
  <2>1. /\ Cardinality(sessions') \in Nat /\ Cardinality(sessions') <= Cardinality(sessions)
    BY <1>1, <1>7, UnexpiredProperties
  <2>2. Cardinality(sessions) \in Nat /\ Cardinality(sessions) <= MaxSessions
    BY <1>1, FS_CardinalityType DEF PairingInv, Limited
  <2>3. Cardinality(sessions') <= MaxSessions BY <2>1, <2>2, PairingAssumption
  <2>4. Cardinality(challenges') <= MaxChallenges BY <1>3, <1>5, <1>6
  <2> QED BY <2>3, <2>4 DEF Limited
<1>13. LostToRivals' BY <1>1, <1>7 DEF LostToRivals, Beaten, Rivals
<1>14. clock' \in Nat /\ issued' \in Nat BY <1>7 DEF PairingInv
<1> QED BY <1>1, <1>9, <1>10, <1>11, <1>12, <1>13, <1>14 DEF PairingInv

LEMMA RedeemKeeps ==
  ASSUME PairingInv, NEW challenge \in challenges, NEW now \in RequestTimes, Redeem(challenge, now)
  PROVE  PairingInv'
<1> DEFINE token == [id |-> Cardinality(minted) + 1, expires |-> now + SessionTTL,
                     challenge |-> challenge.id]
<1>1. /\ now \in Nat /\ applied' \in Nat /\ applied <= applied' /\ now <= applied'
      /\ IsFiniteSet(sessions) /\ Unexpired(sessions, now) \in SUBSET minted
      /\ \A t \in minted \ Unexpired(sessions, now) :
            t.expires > applied' => Beaten(t, minted)
  BY Sweep DEF Redeem
<1>2. PICK kept \in Evicted(Unexpired(sessions, now), MaxSessions) :
         sessions' = kept \union {token}
  BY DEF Redeem
<1>3. /\ minted' = minted \union {token} /\ clock' = clock /\ issued' = issued
      /\ challenges' = Unexpired(challenges, now) \ {challenge}
  BY DEF Redeem, Redeemed
<1>4. /\ IsFiniteSet(minted) /\ IsFiniteSet(challenges) /\ MaxSessions \in Nat \ {0}
      /\ MaxChallenges \in Nat /\ SessionTTL \in Nat
  BY PairingAssumption DEF PairingInv, TokensKnown, ChallengesKnown
<1>5. IsFiniteSet(Unexpired(sessions, now)) BY <1>1, UnexpiredProperties
<1>6. /\ kept \subseteq Unexpired(sessions, now) /\ IsFiniteSet(kept)
      /\ Cardinality(kept) \in Nat /\ Cardinality(kept) < MaxSessions
  BY <1>4, <1>5, EvictedProperties
<1>7. challenge.id \in Nat /\ challenge.id <= issued
  BY DEF PairingInv, ChallengesKnown, Challenge
<1>8. token \in Token /\ token.challenge = challenge.id
  BY <1>1, <1>4, <1>7, FS_CardinalityType DEF Token
<1>9. challenges' \subseteq challenges /\ challenge \notin challenges'
  BY <1>3 DEF Unexpired
<1>10. ChallengesKnown'
  <2>1. IsFiniteSet(challenges') BY <1>4, <1>9, FS_Subset
  <2> QED BY <1>3, <1>9, <2>1 DEF PairingInv, ChallengesKnown
<1>11. TokensKnown'
  <2>1. IsFiniteSet(minted') BY <1>3, <1>4, FS_AddElement
  <2>2. minted' \subseteq Token /\ \A t \in minted' : t.challenge <= issued'
    BY <1>3, <1>7, <1>8 DEF PairingInv, TokensKnown
  <2>3. sessions' \subseteq minted' BY <1>1, <1>2, <1>3, <1>6
  <2> QED BY <2>1, <2>2, <2>3 DEF TokensKnown
<1>12. RedeemedOnce'
  <2>1. \A t \in minted : t.challenge # token.challenge BY <1>8 DEF PairingInv, RedeemedOnce
  <2>2. \A a, b \in minted' : a.challenge = b.challenge => a = b
    BY <1>3, <2>1 DEF PairingInv, RedeemedOnce
  <2>3. \A other \in challenges' : other.id # challenge.id
    BY <1>9 DEF PairingInv, ChallengesKnown
  <2>4. \A t \in minted', other \in challenges' : t.challenge # other.id
    BY <1>3, <1>8, <1>9, <2>3 DEF PairingInv, RedeemedOnce
  <2> QED BY <2>2, <2>4 DEF RedeemedOnce
<1>13. Limited'
  <2>1. Cardinality(sessions') = IF token \in kept THEN Cardinality(kept) ELSE Cardinality(kept) + 1
    BY <1>2, <1>6, FS_AddElement
  <2>2. Cardinality(sessions') <= MaxSessions BY <1>4, <1>6, <2>1
  <2>3. challenges' \in SUBSET challenges BY <1>9
  <2>4. IsFiniteSet(challenges') /\ Cardinality(challenges') <= Cardinality(challenges)
    BY <1>4, <2>3, FS_Subset
  <2>5. Cardinality(challenges) \in Nat /\ Cardinality(challenges') \in Nat
    BY <1>4, <2>4, FS_CardinalityType
  <2>6. Cardinality(challenges') <= MaxChallenges BY <1>4, <2>4, <2>5 DEF PairingInv, Limited
  <2> QED BY <2>2, <2>6 DEF Limited
<1>14. LostToRivals'
  <2>1. SUFFICES ASSUME NEW t \in minted' \ sessions', t.expires > applied'
                 PROVE  Beaten(t, minted')
    BY DEF LostToRivals, Beaten, Rivals
  <2>2. t \in minted /\ t \notin kept BY <1>2, <1>3, <2>1
  <2>3. Beaten(t, minted)
    <3>1. CASE t \in Unexpired(sessions, now) BY <1>1, <1>4, <2>2, <3>1, EvictedBeaten
    <3>2. CASE t \notin Unexpired(sessions, now) BY <1>1, <2>1, <2>2, <3>2
    <3> QED BY <3>1, <3>2
  <2>4. minted \in SUBSET minted' /\ IsFiniteSet(minted') BY <1>3, <1>4, FS_AddElement
  <2> QED BY <2>3, <2>4, BeatenStays
<1>15. clock' \in Nat /\ issued' \in Nat BY <1>3 DEF PairingInv
<1> QED BY <1>1, <1>10, <1>11, <1>12, <1>13, <1>14, <1>15 DEF PairingInv

LEMMA AuthenticateKeeps ==
  ASSUME PairingInv, NEW now \in RequestTimes, Authenticate(now)
  PROVE  PairingInv'
<1>1. /\ applied' \in Nat /\ IsFiniteSet(sessions) /\ Unexpired(sessions, now) \in SUBSET minted
      /\ \A token \in minted \ Unexpired(sessions, now) :
            token.expires > applied' => Beaten(token, minted)
  BY Sweep DEF Authenticate
<1>2. /\ challenges' = Unexpired(challenges, now) /\ sessions' = Unexpired(sessions, now)
      /\ clock' = clock /\ issued' = issued /\ minted' = minted
  BY DEF Authenticate
<1>3. IsFiniteSet(challenges) BY DEF PairingInv, ChallengesKnown
<1>4. /\ challenges' \subseteq challenges /\ IsFiniteSet(challenges')
      /\ Cardinality(challenges') \in Nat /\ Cardinality(challenges') <= Cardinality(challenges)
  BY <1>2, <1>3, UnexpiredProperties
<1>5. Cardinality(sessions') \in Nat /\ Cardinality(sessions') <= Cardinality(sessions)
  BY <1>1, <1>2, UnexpiredProperties
<1>6. ChallengesKnown' BY <1>2, <1>4 DEF PairingInv, ChallengesKnown
<1>7. TokensKnown' BY <1>1, <1>2 DEF PairingInv, TokensKnown
<1>8. RedeemedOnce' BY <1>2, <1>4 DEF PairingInv, RedeemedOnce
<1>9. Limited'
  <2>1. Cardinality(challenges) \in Nat /\ Cardinality(sessions) \in Nat
    BY <1>1, <1>3, FS_CardinalityType
  <2>2. Cardinality(challenges) <= MaxChallenges /\ Cardinality(sessions) <= MaxSessions
    BY DEF PairingInv, Limited
  <2> QED BY <1>4, <1>5, <2>1, <2>2, PairingAssumption DEF Limited
<1>10. LostToRivals' BY <1>1, <1>2 DEF LostToRivals, Beaten, Rivals
<1> QED BY <1>1, <1>2, <1>6, <1>7, <1>8, <1>9, <1>10 DEF PairingInv

LEMMA NextPairing == PairingInv /\ [PairingNext]_pairingVars => PairingInv'
<1> SUFFICES ASSUME PairingInv, [PairingNext]_pairingVars PROVE PairingInv' OBVIOUS
<1>1. CASE Tick
  <2>1. clock' \in Nat BY <1>1 DEF Tick, PairingInv
  <2> QED BY <1>1, <2>1 DEF Tick, PairingInv, ChallengesKnown, TokensKnown, RedeemedOnce,
                            Limited, LostToRivals, Beaten, Rivals
<1>2. ASSUME NEW now \in RequestTimes, IssueChallenge(now) PROVE PairingInv'
  BY <1>2, IssueKeeps
<1>3. ASSUME NEW now \in RequestTimes, NEW challenge \in challenges, Redeem(challenge, now)
      PROVE  PairingInv'
  BY <1>3, RedeemKeeps
<1>4. ASSUME NEW now \in RequestTimes, Authenticate(now) PROVE PairingInv'
  BY <1>4, AuthenticateKeeps
<1>5. CASE UNCHANGED pairingVars
  BY <1>5 DEF pairingVars, PairingInv, ChallengesKnown, TokensKnown, RedeemedOnce, Limited,
              LostToRivals, Beaten, Rivals
<1> QED BY <1>1, <1>2, <1>3, <1>4, <1>5 DEF PairingNext

LEMMA InvImpliesSound == PairingInv => PairingSound
<1> SUFFICES ASSUME PairingInv PROVE PairingSound OBVIOUS
<1>1. \A token \in minted, now \in RequestTimes : Accepts(token, now) => now < token.expires
  <2> SUFFICES ASSUME NEW token \in minted, NEW now \in RequestTimes, Accepts(token, now)
               PROVE  now < token.expires
    OBVIOUS
  <2>1. now \in Nat BY DEF RequestTimes
  <2>2. token.expires \in Nat BY DEF PairingInv, TokensKnown, Token
  <2> QED BY <2>1, <2>2 DEF Accepts, Unexpired
<1>2. \A early \in minted \ sessions :
         early.expires > applied =>
            Cardinality({token \in minted \ {early} : token.expires >= early.expires})
                >= MaxSessions - 1
  BY DEF PairingInv, LostToRivals, Beaten, Rivals
<1> QED BY <1>1, <1>2 DEF PairingInv, RedeemedOnce, Limited, PairingSound

LEMMA PairingTyped ==
  ASSUME PairingInv, PairingTypeOK, [PairingNext]_pairingVars
  PROVE  PairingTypeOK'
<1> USE DEF PairingInv
<1>1. CASE Tick BY <1>1, PairingAssumption DEF Tick, PairingTypeOK
<1>2. ASSUME NEW now \in RequestTimes, AppliedAt(now), clock' = clock
      PROVE  clock' \in 0..MaxClock /\ applied' \in 0..MaxClock
  BY <1>2, PairingAssumption DEF PairingTypeOK, RequestTimes, AppliedAt
<1>3. ASSUME NEW now \in RequestTimes, IssueChallenge(now) PROVE PairingTypeOK'
  <2>1. PICK kept \in Evicted(Unexpired(challenges, now), MaxChallenges) :
           challenges' = kept \union {[id |-> issued', expires |-> now + ChallengeTTL]}
    BY <1>3 DEF IssueChallenge
  <2>2. kept \subseteq challenges BY DEF Evicted, Unexpired
  <2>3. issued' \in 0..MaxIssued /\ issued' = issued + 1
    BY <1>3, PairingAssumption DEF IssueChallenge, PairingTypeOK
  <2>4. \A entry \in challenges' : entry.id \in 1..issued'
    BY <2>1, <2>2, <2>3 DEF PairingTypeOK
  <2>5. sessions' \subseteq minted' BY <1>3 DEF IssueChallenge, Unexpired, PairingTypeOK
  <2>6. AppliedAt(now) /\ clock' = clock BY <1>3 DEF IssueChallenge
  <2> QED BY <1>2, <2>3, <2>4, <2>5, <2>6 DEF PairingTypeOK
<1>4. ASSUME NEW now \in RequestTimes, NEW challenge \in challenges, Redeem(challenge, now)
      PROVE  PairingTypeOK'
  <2>1. AppliedAt(now) /\ clock' = clock /\ issued' = issued /\ challenges' \subseteq challenges
    BY <1>4 DEF Redeem, Redeemed, Unexpired
  <2>2. TokensKnown' BY <1>4, RedeemKeeps
  <2> QED BY <1>2, <2>1, <2>2 DEF PairingTypeOK, TokensKnown
<1>5. ASSUME NEW now \in RequestTimes, Authenticate(now) PROVE PairingTypeOK'
  BY <1>2, <1>5 DEF Authenticate, Unexpired, PairingTypeOK
<1>6. CASE UNCHANGED pairingVars BY <1>6 DEF pairingVars, PairingTypeOK
<1> QED BY <1>1, <1>3, <1>4, <1>5, <1>6 DEF PairingNext

LEMMA InitPairingTypes == PairingInit => PairingTypeOK
  BY PairingAssumption DEF PairingInit, PairingTypeOK

\* For every lifetime, capacity and lag, and any number of plugins: a challenge
\* is redeemed once, the limits hold, and a token that is lost before it
\* expires is lost to ones that expire no earlier.
THEOREM PairingTheorem == PairingSpec => [](PairingTypeOK /\ PairingSound)
<1>1. PairingInit => PairingInv /\ PairingTypeOK BY InitPairing, InitPairingTypes
<1>2. PairingInv /\ PairingTypeOK /\ [PairingNext]_pairingVars => PairingInv' /\ PairingTypeOK'
  BY NextPairing, PairingTyped
<1>3. PairingInv => PairingSound BY InvImpliesSound
<1> QED BY <1>1, <1>2, <1>3, PTL DEF PairingSpec

----------------------------------------------------------------------------
(* The background jobs                                                     *)

EventOf(list, j, state) == \E i \in DOMAIN list : list[i] = [job |-> j, state |-> state]

\* What the events say of a job that is somewhere in its life.
AtQueued(list, j) == /\ EventOf(list, j, "Queued")
                     /\ \A i \in DOMAIN list : list[i].job = j => list[i].state = "Queued"
AtRunning(list, j) ==
    /\ EventOf(list, j, "Queued") /\ EventOf(list, j, "Running")
    /\ \A i \in DOMAIN list : list[i].job = j => list[i].state \in {"Queued", "Running"}

LifeReported == \A j \in Jobs :
    /\ job[j] = "none" => \A i \in DOMAIN events : events[i].job # j
    /\ job[j] \in {"queued", "granted"} => AtQueued(events, j)
    /\ job[j] \in {"running", "panicked"} => AtRunning(events, j)
    /\ job[j] = "ended" => EndReported(j)

\* What the subscriber read was published, and is behind it.
SeenPublished == \A i \in DOMAIN seen : \E p \in 1..received : seen[i] = events[p]

PermitsHeld == IsFiniteSet(Holding) /\ Cardinality(Holding) <= Permits

JobsInv == /\ JobsTypeOK /\ PermitsHeld /\ LifeReported /\ SeenPublished
           /\ Forward(events) /\ Forward(seen) /\ NoneSkipped

LEMMA InitJobs == JobsInit => JobsInv
<1> SUFFICES ASSUME JobsInit PROVE JobsInv OBVIOUS
<1>1. Holding = {} BY DEF JobsInit, Holding
<1>2. PermitsHeld BY <1>1, FS_EmptySet, PermitsPositive DEF PermitsHeld
<1> QED BY <1>2 DEF JobsInit, JobsInv, JobsTypeOK, LifeReported, SeenPublished, Forward, NoneSkipped

\* An event further than everything reported of its job may be published.
LEMMA PublishKeeps ==
  ASSUME JobsInv, NEW j \in Jobs, NEW state \in {"Queued", "Running"} \union Terminal,
         Publish(j, state),
         \A i \in DOMAIN events : events[i].job = j => Rank(events[i].state) < Rank(state),
         state # "Queued" => EventOf(events, j, "Queued"),
         state \in {"Succeeded", "Failed"} => EventOf(events, j, "Running")
  PROVE  /\ events' \in Seq(JobEvents) /\ Len(events') = Len(events) + 1
         /\ \A i \in DOMAIN events : events'[i] = events[i]
         /\ events'[Len(events) + 1] = [job |-> j, state |-> state]
         /\ DOMAIN events = 1..Len(events) /\ DOMAIN events' = 1..(Len(events) + 1)
         /\ Forward(events)' /\ NoneSkipped'
<1> DEFINE e == [job |-> j, state |-> state]
           n == Len(events)
<1>1. e \in JobEvents /\ e.job = j /\ e.state = state BY DEF JobEvents
<1>2. events \in Seq(JobEvents) /\ n \in Nat BY DEF JobsInv, JobsTypeOK
<1>3. /\ events' \in Seq(JobEvents) /\ Len(events') = n + 1
      /\ \A i \in 1..n : events'[i] = events[i]
      /\ events'[n + 1] = e
  BY <1>1, <1>2 DEF Publish
<1>4. DOMAIN events = 1..n /\ DOMAIN events' = 1..(n + 1) BY <1>2, <1>3
<1> HIDE DEF e, n
<1>5. Forward(events)'
  <2> SUFFICES ASSUME NEW i \in DOMAIN events', NEW k \in DOMAIN events',
                      i < k, events'[i].job = events'[k].job
               PROVE  Rank(events'[i].state) < Rank(events'[k].state)
    BY DEF Forward
  <2>1. i \in 1..n /\ events'[i] = events[i] BY <1>2, <1>3, <1>4
  <2>2. CASE k \in 1..n
    BY <2>1, <2>2, <1>3, <1>4 DEF JobsInv, Forward
  <2>3. CASE k = n + 1
    BY <2>1, <2>3, <1>1, <1>3, <1>4
  <2> QED BY <2>2, <2>3, <1>2, <1>4
<1>6. NoneSkipped'
  <2> SUFFICES ASSUME NEW k \in DOMAIN events', NEW before \in {"Queued", "Running"},
                      \/ before = "Queued" /\ events'[k].state # "Queued"
                      \/ before = "Running" /\ events'[k].state \in {"Succeeded", "Failed"}
               PROVE  \E i \in 1..(k - 1) : events'[i] = [job |-> events'[k].job, state |-> before]
    BY DEF NoneSkipped, Preceded
  <2>2. CASE k \in 1..n
    <3>1. events'[k] = events[k] BY <2>2, <1>3
    <3>2. PICK i \in 1..(k - 1) : events[i] = [job |-> events[k].job, state |-> before]
      BY <2>2, <3>1, <1>4 DEF JobsInv, NoneSkipped, Preceded
    <3>3. i \in 1..n BY <2>2, <1>2
    <3> QED BY <3>1, <3>2, <3>3, <1>3
  <2>3. CASE k = n + 1
    <3>1. events'[k].job = j /\ events'[k].state = state BY <2>3, <1>1, <1>3
    <3>2. PICK i \in DOMAIN events : events[i] = [job |-> j, state |-> before]
      BY <3>1 DEF EventOf
    <3>3. i \in 1..(k - 1) /\ events'[i] = events[i] BY <2>3, <1>2, <1>3, <1>4
    <3> QED BY <3>1, <3>2, <3>3
  <2> QED BY <2>2, <2>3, <1>2, <1>4
<1> QED BY <1>3, <1>4, <1>5, <1>6 DEF n, e

\* It says nothing of the other jobs.
LEMMA OthersKeep ==
  ASSUME LifeReported, NEW j \in Jobs, NEW state,
         DOMAIN events = 1..Len(events), DOMAIN events' = 1..(Len(events) + 1), Len(events) \in Nat,
         \A i \in DOMAIN events : events'[i] = events[i],
         events'[Len(events) + 1] = [job |-> j, state |-> state],
         NEW k \in Jobs, k # j, job'[k] = job[k]
  PROVE  /\ job'[k] = "none" => \A i \in DOMAIN events' : events'[i].job # k
         /\ job'[k] \in {"queued", "granted"} => AtQueued(events', k)
         /\ job'[k] \in {"running", "panicked"} => AtRunning(events', k)
         /\ job'[k] = "ended" => EndReported(k)'
<1>1. \A i \in DOMAIN events' : events'[i].job = k => i \in DOMAIN events /\ events'[i] = events[i]
  <2> SUFFICES ASSUME NEW i \in DOMAIN events', events'[i].job = k PROVE i \in DOMAIN events
    OBVIOUS
  <2>1. i # Len(events) + 1 OBVIOUS
  <2> QED BY <2>1
<1>2. DOMAIN events \subseteq DOMAIN events' OBVIOUS
<1>3. \A what : EventOf(events, k, what) => EventOf(events', k, what)
  BY <1>2 DEF EventOf
<1>4. EndReported(k) => EndReported(k)'
  BY <1>2 DEF EndReported
<1> QED BY <1>1, <1>3, <1>4 DEF LifeReported, AtQueued, AtRunning

\* What was read stays published.
LEMMA SeenStays ==
  ASSUME JobsTypeOK, SeenPublished, UNCHANGED <<received, seen>>,
         DOMAIN events = 1..Len(events), \A i \in DOMAIN events : events'[i] = events[i]
  PROVE  SeenPublished'
<1> SUFFICES ASSUME NEW i \in DOMAIN seen
             PROVE  \E p \in 1..received : seen[i] = events'[p]
  BY DEF SeenPublished
<1>1. PICK p \in 1..received : seen[i] = events[p] BY DEF SeenPublished
<1>2. Len(events) \in Nat /\ received \in 0..Len(events) BY DEF JobsTypeOK
<1>3. p \in DOMAIN events BY <1>2
<1> QED BY <1>1, <1>3

LEMMA SpawnJobKeeps == ASSUME JobsInv, NEW j \in Jobs, SpawnJob(j) PROVE JobsInv'
<1>1. job[j] = "none" /\ job' = [job EXCEPT ![j] = "queued"] /\ Publish(j, "Queued")
      /\ UNCHANGED <<cancelled, received, seen>>
  BY DEF SpawnJob
<1>2. \A i \in DOMAIN events : events[i].job # j BY <1>1 DEF JobsInv, LifeReported
<1>3. /\ events' \in Seq(JobEvents) /\ Len(events') = Len(events) + 1
      /\ \A i \in DOMAIN events : events'[i] = events[i]
      /\ events'[Len(events) + 1] = [job |-> j, state |-> "Queued"]
      /\ DOMAIN events = 1..Len(events) /\ DOMAIN events' = 1..(Len(events) + 1)
      /\ Forward(events)' /\ NoneSkipped'
  BY <1>1, <1>2, PublishKeeps
<1>4. Len(events) \in Nat /\ job \in [Jobs -> {"none", "queued", "granted", "running", "ended", "panicked"}]
  BY DEF JobsInv, JobsTypeOK
<1>5. JobsTypeOK' BY <1>1, <1>3, <1>4 DEF JobsInv, JobsTypeOK
<1>6. Holding' = Holding BY <1>1, <1>4 DEF Holding
<1>7. ASSUME NEW k \in Jobs
      PROVE  /\ job'[k] = "none" => \A i \in DOMAIN events' : events'[i].job # k
             /\ job'[k] \in {"queued", "granted"} => AtQueued(events', k)
             /\ job'[k] \in {"running", "panicked"} => AtRunning(events', k)
             /\ job'[k] = "ended" => EndReported(k)'
  <2>1. CASE k = j
    <3>1. job'[k] = "queued" BY <2>1, <1>1, <1>4
    <3>2. Len(events) + 1 \in DOMAIN events' BY <1>3, <1>4
    <3>3. \A i \in DOMAIN events' : events'[i].job = j => i = Len(events) + 1
      BY <1>2, <1>3, <1>4
    <3>4. AtQueued(events', j) BY <3>2, <3>3, <1>3 DEF AtQueued, EventOf
    <3> QED BY <2>1, <3>1, <3>4
  <2>2. CASE k # j
    <3>1. job'[k] = job[k] BY <2>2, <1>1, <1>4
    <3> QED BY <2>2, <3>1, <1>3, <1>4, OthersKeep DEF JobsInv
  <2> QED BY <2>1, <2>2
<1>8. LifeReported' BY <1>7 DEF LifeReported
<1>9. SeenPublished' BY <1>1, <1>3, SeenStays DEF JobsInv
<1> QED BY <1>1, <1>3, <1>5, <1>6, <1>8, <1>9 DEF JobsInv, PermitsHeld, Forward

LEMMA GrantKeeps == ASSUME JobsInv, NEW j \in Jobs, Grant(j) PROVE JobsInv'
<1>1. /\ job[j] = "queued" /\ Cardinality(Holding) < Permits
      /\ job' = [job EXCEPT ![j] = "granted"]
      /\ UNCHANGED <<cancelled, events, received, seen>>
  BY DEF Grant
<1>2. job \in [Jobs -> {"none", "queued", "granted", "running", "ended", "panicked"}]
      /\ IsFiniteSet(Holding)
  BY DEF JobsInv, JobsTypeOK, PermitsHeld
<1>3. JobsTypeOK' BY <1>1, <1>2 DEF JobsInv, JobsTypeOK
<1>4. Holding' = Holding \union {j} BY <1>1, <1>2 DEF Holding
<1>5. PermitsHeld'
  <2>1. j \notin Holding BY <1>1 DEF Holding
  <2>2. IsFiniteSet(Holding') /\ Cardinality(Holding') = Cardinality(Holding) + 1
    BY <1>2, <1>4, <2>1, FS_AddElement
  <2>3. Cardinality(Holding) \in Nat BY <1>2, FS_CardinalityType
  <2> QED BY <2>2, <2>3, <1>1, PermitsPositive DEF PermitsHeld
<1>6. LifeReported'
  BY <1>1, <1>2 DEF JobsInv, LifeReported, EndReported
<1> QED BY <1>1, <1>3, <1>5, <1>6 DEF JobsInv, SeenPublished, Forward, NoneSkipped, Preceded

\* A panic gives a permit back and reports nothing.
LEMMA PanicKeeps == ASSUME JobsInv, NEW j \in Jobs, Panic(j) PROVE JobsInv'
<1>1. /\ job[j] = "running" /\ job' = [job EXCEPT ![j] = "panicked"]
      /\ UNCHANGED <<cancelled, events, received, seen>>
  BY DEF Panic
<1>2. job \in [Jobs -> {"none", "queued", "granted", "running", "ended", "panicked"}]
      /\ IsFiniteSet(Holding) /\ Cardinality(Holding) <= Permits
  BY DEF JobsInv, JobsTypeOK, PermitsHeld
<1>3. JobsTypeOK' BY <1>1, <1>2 DEF JobsInv, JobsTypeOK
<1>4. Holding' \subseteq Holding BY <1>1, <1>2 DEF Holding
<1>5. PermitsHeld'
  <2>1. IsFiniteSet(Holding') /\ Cardinality(Holding') <= Cardinality(Holding)
    BY <1>2, <1>4, FS_Subset
  <2>2. Cardinality(Holding) \in Nat /\ Cardinality(Holding') \in Nat
    BY <1>2, <2>1, FS_CardinalityType
  <2> QED BY <1>2, <2>1, <2>2, PermitsPositive DEF PermitsHeld
<1>6. LifeReported'
  BY <1>1, <1>2 DEF JobsInv, LifeReported, EndReported
<1> QED BY <1>1, <1>3, <1>5, <1>6 DEF JobsInv, SeenPublished, Forward, NoneSkipped, Preceded

LEMMA CancelJobKeeps == ASSUME JobsInv, NEW j \in Jobs, CancelJob(j) PROVE JobsInv'
<1>1. /\ cancelled' = cancelled \union {j}
      /\ UNCHANGED <<job, events, received, seen>>
  BY DEF CancelJob
<1> QED BY <1>1 DEF JobsInv, JobsTypeOK, PermitsHeld, Holding, LifeReported, EndReported, SeenPublished,
                    Forward, NoneSkipped, Preceded

LEMMA BeginKeeps == ASSUME JobsInv, NEW j \in Jobs, Begin(j) PROVE JobsInv'
<1> DEFINE state == IF j \in cancelled THEN "Cancelled" ELSE "Running"
<1>1. /\ job[j] = "granted" /\ job' = [job EXCEPT ![j] = Enters(j)] /\ Publish(j, state)
      /\ UNCHANGED <<cancelled, received, seen>>
      /\ Enters(j) = IF state = "Running" THEN "running" ELSE "ended"
  BY DEF Begin, Enters
<1>2. state \in {"Running", "Cancelled"} OBVIOUS
<1> HIDE DEF state
<1>3. AtQueued(events, j) BY <1>1 DEF JobsInv, LifeReported
<1>4. /\ events' \in Seq(JobEvents) /\ Len(events') = Len(events) + 1
      /\ \A i \in DOMAIN events : events'[i] = events[i]
      /\ events'[Len(events) + 1] = [job |-> j, state |-> state]
      /\ DOMAIN events = 1..Len(events) /\ DOMAIN events' = 1..(Len(events) + 1)
      /\ Forward(events)' /\ NoneSkipped'
  <2>1. \A i \in DOMAIN events : events[i].job = j => Rank(events[i].state) < Rank(state)
    BY <1>2, <1>3 DEF AtQueued, Rank
  <2>2. /\ state \in {"Queued", "Running"} \union Terminal
        /\ EventOf(events, j, "Queued") /\ state \notin {"Succeeded", "Failed"}
    BY <1>2, <1>3 DEF AtQueued, Terminal
  <2> QED BY <2>1, <2>2, <1>1, PublishKeeps
<1>5. Len(events) \in Nat /\ job \in [Jobs -> {"none", "queued", "granted", "running", "ended", "panicked"}]
      /\ IsFiniteSet(Holding) /\ Cardinality(Holding) <= Permits
  BY DEF JobsInv, JobsTypeOK, PermitsHeld
<1>6. JobsTypeOK' BY <1>1, <1>4, <1>5 DEF JobsInv, JobsTypeOK
<1>7. PermitsHeld'
  <2>1. Holding' \subseteq Holding BY <1>1, <1>5 DEF Holding
  <2>2. IsFiniteSet(Holding') /\ Cardinality(Holding') <= Cardinality(Holding)
    BY <2>1, <1>5, FS_Subset
  <2>3. Cardinality(Holding) \in Nat /\ Cardinality(Holding') \in Nat
    BY <1>5, <2>2, FS_CardinalityType
  <2> QED BY <2>2, <2>3, <1>5, PermitsPositive DEF PermitsHeld
<1>8. ASSUME NEW k \in Jobs
      PROVE  /\ job'[k] = "none" => \A i \in DOMAIN events' : events'[i].job # k
             /\ job'[k] \in {"queued", "granted"} => AtQueued(events', k)
             /\ job'[k] \in {"running", "panicked"} => AtRunning(events', k)
             /\ job'[k] = "ended" => EndReported(k)'
  <2>1. CASE k = j
    <3>1. Len(events) + 1 \in DOMAIN events' BY <1>4, <1>5
    <3>2. EventOf(events', j, "Queued") BY <1>3, <1>4 DEF AtQueued, EventOf
    <3>3. EventOf(events', j, state) BY <3>1, <1>4 DEF EventOf
    <3>4. CASE state = "Running"
      <4>1. job'[k] = "running" BY <2>1, <3>4, <1>1, <1>5
      <4>2. \A i \in DOMAIN events' : events'[i].job = j => events'[i].state \in {"Queued", "Running"}
        BY <3>4, <1>3, <1>4, <1>5 DEF AtQueued
      <4> QED BY <2>1, <3>2, <3>3, <3>4, <4>1, <4>2 DEF AtRunning
    <3>5. CASE state = "Cancelled"
      <4>1. job'[k] = "ended" BY <2>1, <3>5, <1>1, <1>5
      <4> QED BY <2>1, <3>1, <3>5, <4>1, <1>4 DEF EndReported, Terminal
    <3> QED BY <1>2, <3>4, <3>5
  <2>2. CASE k # j
    <3>1. job'[k] = job[k] BY <2>2, <1>1, <1>5
    <3> QED BY <2>2, <3>1, <1>4, <1>5, OthersKeep DEF JobsInv
  <2> QED BY <2>1, <2>2
<1>9. LifeReported' BY <1>8 DEF LifeReported
<1>10. SeenPublished' BY <1>1, <1>4, SeenStays DEF JobsInv
<1> QED BY <1>1, <1>4, <1>6, <1>7, <1>9, <1>10 DEF JobsInv, Forward

LEMMA EndKeeps == ASSUME JobsInv, NEW j \in Jobs, NEW ok \in BOOLEAN, End(j, ok) PROVE JobsInv'
<1> DEFINE state == IF ~ok THEN "Failed" ELSE IF j \in cancelled THEN "Cancelled" ELSE "Succeeded"
<1>1. /\ job[j] = "running" /\ job' = [job EXCEPT ![j] = "ended"] /\ Publish(j, state)
      /\ UNCHANGED <<cancelled, received, seen>>
  BY DEF End
<1>2. state \in Terminal BY DEF Terminal
<1> HIDE DEF state
<1>3. AtRunning(events, j) BY <1>1 DEF JobsInv, LifeReported
<1>4. /\ events' \in Seq(JobEvents) /\ Len(events') = Len(events) + 1
      /\ \A i \in DOMAIN events : events'[i] = events[i]
      /\ events'[Len(events) + 1] = [job |-> j, state |-> state]
      /\ DOMAIN events = 1..Len(events) /\ DOMAIN events' = 1..(Len(events) + 1)
      /\ Forward(events)' /\ NoneSkipped'
  <2>1. \A i \in DOMAIN events : events[i].job = j => Rank(events[i].state) < Rank(state)
    BY <1>2, <1>3 DEF AtRunning, Rank, Terminal
  <2>2. EventOf(events, j, "Queued") /\ EventOf(events, j, "Running") BY <1>3 DEF AtRunning
  <2> QED BY <2>1, <2>2, <1>1, <1>2, PublishKeeps
<1>5. Len(events) \in Nat /\ job \in [Jobs -> {"none", "queued", "granted", "running", "ended", "panicked"}]
      /\ IsFiniteSet(Holding) /\ Cardinality(Holding) <= Permits
  BY DEF JobsInv, JobsTypeOK, PermitsHeld
<1>6. JobsTypeOK' BY <1>1, <1>4, <1>5 DEF JobsInv, JobsTypeOK
<1>7. PermitsHeld'
  <2>1. Holding' \subseteq Holding BY <1>1, <1>5 DEF Holding
  <2>2. IsFiniteSet(Holding') /\ Cardinality(Holding') <= Cardinality(Holding)
    BY <2>1, <1>5, FS_Subset
  <2>3. Cardinality(Holding) \in Nat /\ Cardinality(Holding') \in Nat
    BY <1>5, <2>2, FS_CardinalityType
  <2> QED BY <2>2, <2>3, <1>5, PermitsPositive DEF PermitsHeld
<1>8. ASSUME NEW k \in Jobs
      PROVE  /\ job'[k] = "none" => \A i \in DOMAIN events' : events'[i].job # k
             /\ job'[k] \in {"queued", "granted"} => AtQueued(events', k)
             /\ job'[k] \in {"running", "panicked"} => AtRunning(events', k)
             /\ job'[k] = "ended" => EndReported(k)'
  <2>1. CASE k = j
    <3>1. job'[k] = "ended" BY <2>1, <1>1, <1>5
    <3>2. Len(events) + 1 \in DOMAIN events' BY <1>4, <1>5
    <3>3. EndReported(k)' BY <2>1, <3>2, <1>2, <1>4 DEF EndReported
    <3> QED BY <3>1, <3>3
  <2>2. CASE k # j
    <3>1. job'[k] = job[k] BY <2>2, <1>1, <1>5
    <3> QED BY <2>2, <3>1, <1>4, <1>5, OthersKeep DEF JobsInv
  <2> QED BY <2>1, <2>2
<1>9. LifeReported' BY <1>8 DEF LifeReported
<1>10. SeenPublished' BY <1>1, <1>4, SeenStays DEF JobsInv
<1> QED BY <1>1, <1>4, <1>6, <1>7, <1>9, <1>10 DEF JobsInv, Forward

\* What the subscriber reads next was published after all it read before.
LEMMA ReceiveKeeps == ASSUME JobsInv, Receive PROVE JobsInv'
<1> DEFINE oldest == IF Len(events) - received > EventCapacity THEN Len(events) - EventCapacity
                     ELSE received
           n == Len(seen)
           e == events[oldest + 1]
<1>1. received' = oldest + 1 /\ seen' = Append(seen, e) BY DEF Receive
<1>2. UNCHANGED <<job, cancelled, events>> BY DEF Receive
<1>3. /\ Len(events) \in Nat /\ received \in 0..Len(events) /\ DOMAIN events = 1..Len(events)
      /\ seen \in Seq(JobEvents) /\ events \in Seq(JobEvents)
  BY DEF JobsInv, JobsTypeOK
<1>4. oldest \in Int /\ received <= oldest /\ oldest < Len(events)
  BY <1>3, PermitsPositive DEF Receive
<1> HIDE DEF oldest
<1>5. oldest + 1 \in DOMAIN events /\ e \in JobEvents BY <1>4, <1>3
<1>6. n \in Nat BY <1>3
<1>7. /\ seen' \in Seq(JobEvents) /\ Len(seen') = n + 1 /\ seen'[n + 1] = e
      /\ \A i \in 1..n : seen'[i] = seen[i]
      /\ DOMAIN seen = 1..n /\ DOMAIN seen' = 1..(n + 1)
  BY <1>1, <1>3, <1>5
<1> HIDE DEF n
<1>8. JobsTypeOK' BY <1>1, <1>2, <1>3, <1>4, <1>7 DEF JobsInv, JobsTypeOK
<1>9. SeenPublished'
  <2> SUFFICES ASSUME NEW i \in DOMAIN seen'
               PROVE  \E p \in 1..received' : seen'[i] = events[p]
    BY <1>2 DEF SeenPublished
  <2>1. CASE i \in 1..n
    <3>1. PICK p \in 1..received : seen[i] = events[p]
      BY <2>1, <1>7 DEF JobsInv, SeenPublished
    <3>2. p \in 1..received' BY <1>1, <1>3, <1>4
    <3> QED BY <2>1, <3>1, <3>2, <1>7
  <2>2. CASE i = n + 1
    <3>1. oldest + 1 \in 1..received' BY <1>1, <1>3, <1>4
    <3> QED BY <2>2, <3>1, <1>7
  <2> QED BY <2>1, <2>2, <1>6, <1>7
<1>10. Forward(seen)'
  <2> SUFFICES ASSUME NEW i \in DOMAIN seen', NEW k \in DOMAIN seen',
                      i < k, seen'[i].job = seen'[k].job
               PROVE  Rank(seen'[i].state) < Rank(seen'[k].state)
    BY DEF Forward
  <2>1. i \in 1..n /\ seen'[i] = seen[i] BY <1>6, <1>7
  <2>2. CASE k \in 1..n
    BY <2>1, <2>2, <1>7 DEF JobsInv, Forward
  <2>3. CASE k = n + 1
    <3>1. PICK p \in 1..received : seen[i] = events[p]
      BY <2>1, <1>7 DEF JobsInv, SeenPublished
    <3>2. p \in DOMAIN events /\ p < oldest + 1 BY <1>3, <1>4
    <3> QED BY <2>1, <2>3, <3>1, <3>2, <1>5, <1>7 DEF JobsInv, Forward
  <2> QED BY <2>2, <2>3, <1>6, <1>7
<1> QED BY <1>2, <1>8, <1>9, <1>10
        DEF JobsInv, PermitsHeld, Holding, LifeReported, EndReported, Forward, NoneSkipped, Preceded

LEMMA NextJobs == JobsInv /\ [JobsNext]_jobVars => JobsInv'
<1> SUFFICES ASSUME JobsInv, [JobsNext]_jobVars PROVE JobsInv' OBVIOUS
<1>1. ASSUME NEW j \in Jobs, SpawnJob(j) PROVE JobsInv' BY <1>1, SpawnJobKeeps
<1>2. ASSUME NEW j \in Jobs, CancelJob(j) PROVE JobsInv' BY <1>2, CancelJobKeeps
<1>3. ASSUME NEW j \in Jobs, Grant(j) PROVE JobsInv' BY <1>3, GrantKeeps
<1>4. ASSUME NEW j \in Jobs, Begin(j) PROVE JobsInv' BY <1>4, BeginKeeps
<1>5. ASSUME NEW j \in Jobs, NEW ok \in BOOLEAN, End(j, ok) PROVE JobsInv' BY <1>5, EndKeeps
<1>6. ASSUME NEW j \in Jobs, Panic(j) PROVE JobsInv' BY <1>6, PanicKeeps
<1>7. CASE Receive BY <1>7, ReceiveKeeps
<1>8. CASE UNCHANGED jobVars
  BY <1>8 DEF jobVars, JobsInv, JobsTypeOK, PermitsHeld, Holding, LifeReported, EndReported,
              SeenPublished, Forward, NoneSkipped, Preceded
<1> QED BY <1>1, <1>2, <1>3, <1>4, <1>5, <1>6, <1>7, <1>8 DEF JobsNext

\* A job whose end was reported has ended: its other phases report no end.
LEMMA InvImpliesOrderly == JobsInv => JobsOrderly
<1> SUFFICES ASSUME JobsInv, NEW j \in Jobs PROVE job[j] = "ended" <=> EndReported(j)
  BY DEF JobsInv, PermitsHeld, JobsOrderly
<1>1. job[j] \in {"none", "queued", "granted", "running", "ended", "panicked"} BY DEF JobsInv, JobsTypeOK
<1>2. job[j] = "none" \/ job[j] \in {"queued", "granted"} \/ job[j] \in {"running", "panicked"} => ~EndReported(j)
  BY DEF JobsInv, LifeReported, AtQueued, AtRunning, EndReported, Terminal
<1> QED BY <1>1, <1>2 DEF JobsInv, LifeReported

\* For any jobs, permits and capacity of the channel, and cancellations at any
\* time: the permits hold, every job is reported through one life, and what a
\* slow subscriber sees of it never goes back.
THEOREM JobsTheorem == JobsSpec => [](JobsTypeOK /\ JobsOrderly)
<1>1. JobsInit => JobsInv BY InitJobs
<1>2. JobsInv /\ [JobsNext]_jobVars => JobsInv' BY NextJobs
<1>3. JobsInv => JobsTypeOK /\ JobsOrderly BY InvImpliesOrderly DEF JobsInv
<1> QED BY <1>1, <1>2, <1>3, PTL DEF JobsSpec

----------------------------------------------------------------------------
(* lattice studio pull.  While nobody edits anything the place is what the *)
(* search found: the nodes, the files and the writes each account for every *)
(* script, and for one that shares no path and no file they are its own.    *)

NodesPresent == \A node \in pull.nodes : \E i \in Present : node = Node(i)

ListingKnown == pull.pc = "searching" =>
    /\ NodesPresent /\ pull.files = {}
    /\ \A i \in Present : Service[FullPath[i]] \in pull.services \/ Node(i) \in pull.nodes

NodesKnown == pull.pc = "reading" =>
    /\ NodesPresent
    /\ \A i \in Present : \E node \in pull.nodes : node.path = FullPath[i]

FilesKnown == pull.pc \in {"reading", "comparing", "writing"} =>
    \A file \in pull.files : \E i \in Present :
        /\ file.path = FullPath[i] /\ file.file = FileOf(i)
        /\ Alone(i) => file.source = ScriptSource(i)

FilesComplete == pull.pc \in {"reading", "comparing"} =>
    \A i \in Present : \/ pull.pc = "reading" /\ FullPath[i] \in pull.todo
                       \/ \E file \in pull.files : file.path = FullPath[i]

WrittenKnown == pull.pc \in {"writing", "pulled"} =>
    \A i \in Present : Alone(i) => \/ pull.pc = "writing" /\ FullPath[i] \in pull.todo
                                   \/ disk[FileOf(i)] = ScriptSource(i)

Gathered == ListingKnown /\ NodesKnown /\ FilesKnown /\ FilesComplete /\ WrittenKnown

\* What is still to be read was listed, whatever happened since.
TodoListed == pull.pc = "reading" =>
    \A path \in pull.todo : \E node \in pull.nodes : node.path = path

\* A pull that writes is not a dry run, and one without --force found nothing in
\* its way.
NothingInTheWay == pull.pc = "writing" =>
    ~pull.dry /\ (~pull.force => Conflicts = {} /\ ~project)

PullInv == /\ PullTypeOK /\ TodoListed /\ NothingInTheWay /\ WritesAllowed /\ lost = {}
           /\ quiet => Gathered

LEMMA FileOfType == ASSUME NEW i \in Instances PROVE FileOf(i) \in Files
  BY PullAssumption DEF FileOf, LocalFile, Node, Files

LEMMA SourceType ==
  ASSUME PullTypeOK, NEW i \in Instances, place[i] # Gone
  PROVE  ScriptSource(i) \in Sources
  BY DEF PullTypeOK, ScriptSource, Sources

LEMMA InitPull == PullInit => PullInv
<1> SUFFICES ASSUME PullInit PROVE PullInv OBVIOUS
<1>1. pull.pc = "idle" /\ wrote = {} /\ lost = {} BY DEF PullInit, NoPull
<1>2. pull \in Pulls BY DEF PullInit, NoPull, Pulls
<1>3. disk \in [Files -> Contents] BY DEF PullInit, Contents
<1>4. edits \in 0..MaxEdits BY PullAssumption DEF PullInit
<1>5. PullTypeOK BY <1>2, <1>3, <1>4 DEF PullInit, PullTypeOK
<1> QED BY <1>1, <1>5 DEF PullInv, TodoListed, NothingInTheWay, WritesAllowed, Conflicts, Gathered, ListingKnown, NodesKnown,
                          FilesKnown, FilesComplete, WrittenKnown

\* The scripts, their files and their sources are those of the place.
LEMMA PlaceStays ==
  ASSUME UNCHANGED place
  PROVE  /\ Present' = Present
         /\ \A i \in Instances : /\ FileOf(i)' = FileOf(i) /\ ScriptSource(i)' = ScriptSource(i)
                                 /\ Alone(i)' <=> Alone(i)
<1>1. Present' = Present BY DEF Present
<1>2. \A i \in Instances : FileOf(i)' = FileOf(i) BY <1>1 DEF FileOf
<1>3. \A i \in Instances : Alone(i)' <=> Alone(i) BY <1>1, <1>2 DEF Alone
<1> QED BY <1>1, <1>2, <1>3 DEF ScriptSource

\* An edit ends what is known, and leaves the pull and its history alone.
LEMMA EditKeeps ==
  ASSUME PullInv, Edited, UNCHANGED <<project, pull, wrote, lost>>,
         \/ \E i \in Instances, text \in Texts \union {Gone} :
               place' = [place EXCEPT ![i] = text] /\ disk' = disk
         \/ \E f \in Files : disk' = [disk EXCEPT ![f] = UserText] /\ place' = place
  PROVE  PullInv'
<1>1. disk' \in [Files -> Contents] BY DEF PullInv, PullTypeOK, Contents
<1>2. place' \in [Instances -> Texts \union {Gone}] BY DEF PullInv, PullTypeOK
<1>3. edits' \in 0..MaxEdits BY PullAssumption DEF PullInv, PullTypeOK, Edited
<1>4. quiet' = FALSE BY DEF Edited
<1>5. PullTypeOK' BY <1>1, <1>2, <1>3, <1>4 DEF PullInv, PullTypeOK
<1> QED BY <1>4, <1>5 DEF PullInv, TodoListed, NothingInTheWay, WritesAllowed, Conflicts

LEMMA StartPullKeeps ==
  ASSUME PullInv, NEW force \in BOOLEAN, NEW dry \in BOOLEAN, StartPull(force, dry)
  PROVE  PullInv'
<1>1. /\ pull' = [NoPull EXCEPT !.pc = "searching", !.force = force, !.dry = dry,
                                !.services = Services]
      /\ UNCHANGED <<place, disk, project, edits, lost>> /\ quiet' = TRUE /\ wrote' = {}
  BY DEF StartPull
<1>2. /\ pull'.pc = "searching" /\ pull'.services = Services /\ pull'.nodes = {}
      /\ pull'.files = {}
  BY <1>1 DEF NoPull
<1>3. pull' \in Pulls BY <1>1 DEF NoPull, Pulls
<1>4. PullTypeOK' BY <1>1, <1>3 DEF PullInv, PullTypeOK
<1>5. \A i \in Present' : Service[FullPath[i]] \in Services
  BY DEF Present, Paths, Services
<1> QED BY <1>1, <1>2, <1>4, <1>5
        DEF PullInv, TodoListed, NothingInTheWay, WritesAllowed, Conflicts, Gathered, ListingKnown, NodesPresent, NodesKnown,
            FilesKnown, FilesComplete, WrittenKnown

LEMMA PullFailsKeeps == ASSUME PullInv, PullFails PROVE PullInv'
<1>1. pull' = [pull EXCEPT !.pc = "failed"] /\ UNCHANGED <<place, disk, project, edits, quiet, wrote, lost>>
  BY DEF PullFails, PullAt
<1>2. pull' \in Pulls /\ pull'.pc = "failed" BY <1>1 DEF PullInv, PullTypeOK, Pulls
<1>3. PullTypeOK' BY <1>1, <1>2 DEF PullInv, PullTypeOK
<1> QED BY <1>1, <1>2, <1>3
        DEF PullInv, TodoListed, NothingInTheWay, WritesAllowed, Conflicts, Gathered, ListingKnown, NodesKnown,
            FilesKnown, FilesComplete, WrittenKnown

LEMMA SearchKeeps == ASSUME PullInv, NEW service \in pull.services, Search(service) PROVE PullInv'
<1> DEFINE new == {Node(i) : i \in {i \in Present : Service[FullPath[i]] = service}}
<1>1. /\ pull.pc = "searching" /\ UNCHANGED <<place, disk, project, edits, quiet, wrote, lost>>
      /\ pull' = [pull EXCEPT !.services = @ \ {service}, !.nodes = @ \union new]
  BY DEF Search, PullAt
<1>2. new \subseteq {Node(i) : i \in Instances} BY DEF Present
<1>3. \A i \in Present : Service[FullPath[i]] = service => Node(i) \in new OBVIOUS
<1>4. \A node \in new : \E i \in Present : node = Node(i) OBVIOUS
<1> HIDE DEF new
<1>5. pull' \in Pulls BY <1>1, <1>2 DEF PullInv, PullTypeOK, Pulls
<1>6. PullTypeOK' BY <1>1, <1>5 DEF PullInv, PullTypeOK
<1>7. /\ pull'.pc = "searching" /\ pull'.services = pull.services \ {service}
      /\ pull'.nodes = pull.nodes \union new /\ pull'.files = pull.files
  BY <1>1 DEF PullInv, PullTypeOK, Pulls
<1>8. Present' = Present BY <1>1, PlaceStays
<1>9. quiet' => ListingKnown'
  BY <1>1, <1>3, <1>4, <1>7, <1>8 DEF PullInv, Gathered, ListingKnown, NodesPresent
<1> QED BY <1>1, <1>6, <1>7, <1>9
        DEF PullInv, TodoListed, NothingInTheWay, WritesAllowed, Conflicts, Gathered, NodesKnown, FilesKnown, FilesComplete,
            WrittenKnown

LEMMA SearchedKeeps == ASSUME PullInv, Searched PROVE PullInv'
<1>1. PICK kept \in Deduplicated(pull.nodes) :
         pull' = [pull EXCEPT !.pc = "reading", !.nodes = kept, !.todo = {node.path : node \in kept}]
  BY DEF Searched
<1>2. pull.pc = "searching" /\ pull.services = {}
      /\ UNCHANGED <<place, disk, project, edits, quiet, wrote, lost>>
  BY DEF Searched, PullAt
<1>3. kept \subseteq pull.nodes BY DEF Deduplicated
<1>4. \A node \in pull.nodes : \E first \in kept : first.path = node.path
  BY DEF Deduplicated
<1>5. pull \in Pulls /\ lost = {} BY DEF PullInv, PullTypeOK
<1>6. {node.path : node \in kept} \subseteq Paths
  BY <1>3, <1>5 DEF Pulls, Paths, Node
<1>7. pull' \in Pulls BY <1>1, <1>3, <1>5, <1>6 DEF Pulls
<1>8. PullTypeOK' BY <1>2, <1>7 DEF PullInv, PullTypeOK
<1>9. pull'.pc = "reading" /\ pull'.nodes = kept /\ pull'.todo = {node.path : node \in kept}
      /\ pull'.files = pull.files
  BY <1>1, <1>5 DEF Pulls
<1>10. TodoListed' BY <1>9 DEF TodoListed
<1>11. ASSUME quiet' PROVE Gathered'
  <2>1. Present' = Present BY <1>2, PlaceStays
  <2>2. NodesPresent BY <1>2, <1>11 DEF PullInv, Gathered, ListingKnown
  <2>3. \A i \in Present : Node(i) \in pull.nodes
    BY <1>2, <1>11 DEF PullInv, Gathered, ListingKnown
  <2>4. \A i \in Present : \E node \in kept : node.path = FullPath[i]
    BY <2>3, <1>4 DEF Node
  <2>5. NodesPresent' BY <2>1, <2>2, <1>3, <1>9 DEF NodesPresent
  <2>6. NodesKnown' BY <2>1, <2>4, <2>5, <1>9 DEF NodesKnown
  <2>7. FilesComplete' BY <2>1, <2>4, <1>9 DEF FilesComplete
  <2>8. FilesKnown' BY <1>2, <1>9, <1>11 DEF PullInv, Gathered, ListingKnown, FilesKnown
  <2> QED BY <2>6, <2>7, <2>8, <1>9 DEF Gathered, ListingKnown, WrittenKnown
<1> QED BY <1>2, <1>8, <1>9, <1>10, <1>11 DEF PullInv, NothingInTheWay, WritesAllowed, Conflicts

LEMMA ReadScriptKeeps == ASSUME PullInv, NEW i \in Instances, ReadScript(i) PROVE PullInv'
<1> DEFINE node == CHOOSE node \in pull.nodes : node.path = FullPath[i]
           paths == {n.path : n \in pull.nodes}
           read == [path |-> node.path, seen |-> Unread, file |-> LocalFile(node, paths),
                    source |-> ScriptSource(i)]
<1>1. /\ pull.pc = "reading" /\ FullPath[i] \in pull.todo /\ place[i] # Gone
      /\ pull' = [pull EXCEPT !.todo = @ \ {node.path}, !.files = @ \union {read}]
      /\ UNCHANGED <<place, disk, project, edits, quiet, wrote, lost>>
  BY DEF ReadScript, PullAt, Turn
<1>2. pull \in Pulls /\ lost = {} BY DEF PullInv, PullTypeOK
<1>3. node \in pull.nodes /\ node.path = FullPath[i]
  BY <1>1 DEF PullInv, TodoListed
<1> HIDE DEF node
<1>4. PICK listed \in Instances : node = Node(listed) BY <1>2, <1>3 DEF Pulls
<1>5. LocalFile(node, paths) \in Files
  BY <1>4, PullAssumption DEF LocalFile, Node, Files
<1>6. read \in PullFiles
  BY <1>1, <1>3, <1>5, SourceType DEF PullFiles, Paths, PullInv
<1>7. pull' \in Pulls BY <1>1, <1>2, <1>6 DEF Pulls
<1>8. PullTypeOK' BY <1>1, <1>7 DEF PullInv, PullTypeOK
<1>9. /\ pull'.pc = "reading" /\ pull'.nodes = pull.nodes
      /\ pull'.todo = pull.todo \ {FullPath[i]} /\ pull'.files = pull.files \union {read}
      /\ read.path = FullPath[i] /\ read.file = LocalFile(node, paths) /\ read.source = ScriptSource(i)
  BY <1>1, <1>2, <1>3 DEF Pulls
<1> HIDE DEF read
<1>10. TodoListed' BY <1>1, <1>9 DEF PullInv, TodoListed
<1>11. ASSUME quiet' PROVE Gathered'
  <2>1. /\ Present' = Present
        /\ \A j \in Instances : /\ FileOf(j)' = FileOf(j) /\ ScriptSource(j)' = ScriptSource(j)
                                /\ Alone(j)' <=> Alone(j)
    BY <1>1, PlaceStays
  <2>2. NodesPresent /\ (\A j \in Present : \E n \in pull.nodes : n.path = FullPath[j])
    BY <1>1, <1>11 DEF PullInv, Gathered, NodesKnown
  <2>3. Present \subseteq Instances BY DEF Present
  <2>4. PICK j \in Present : node = Node(j) BY <1>3, <2>2 DEF NodesPresent
  <2>5. paths = {FullPath[k] : k \in Present}
    BY <2>2 DEF NodesPresent, Node
  <2> HIDE DEF paths
  <2>6. read.file = FileOf(j) BY <1>9, <2>4, <2>5 DEF FileOf
  <2>7. read.path = FullPath[j] BY <1>3, <1>9, <2>4 DEF Node
  <2>8. Alone(j) => read.source = ScriptSource(j)
    BY <1>1, <1>9, <2>7, <2>3 DEF Alone
  <2>9. FilesKnown'
    BY <1>1, <1>9, <1>11, <2>1, <2>3, <2>6, <2>7, <2>8 DEF PullInv, Gathered, FilesKnown
  <2>10. FilesComplete'
    BY <1>1, <1>9, <1>11, <2>1 DEF PullInv, Gathered, FilesComplete
  <2>11. NodesKnown'
    BY <1>9, <2>1, <2>2 DEF NodesKnown, NodesPresent
  <2> QED BY <1>9, <2>9, <2>10, <2>11 DEF Gathered, ListingKnown, WrittenKnown
<1> QED BY <1>1, <1>2, <1>8, <1>9, <1>10, <1>11 DEF PullInv, NothingInTheWay, WritesAllowed, Conflicts

LEMMA AllReadKeeps == ASSUME PullInv, AllRead PROVE PullInv'
<1>1. /\ pull.pc = "reading" /\ pull.todo = {} /\ pull' = [pull EXCEPT !.pc = "comparing"]
      /\ UNCHANGED <<place, disk, project, edits, quiet, wrote, lost>>
  BY DEF AllRead, PullAt
<1>2. pull \in Pulls /\ lost = {} BY DEF PullInv, PullTypeOK
<1>3. pull' \in Pulls BY <1>1, <1>2 DEF Pulls
<1>4. PullTypeOK' BY <1>1, <1>3 DEF PullInv, PullTypeOK
<1>5. pull'.pc = "comparing" /\ pull'.files = pull.files BY <1>1, <1>2 DEF Pulls
<1>6. ASSUME quiet' PROVE Gathered'
  <2>1. /\ Present' = Present
        /\ \A j \in Instances : /\ FileOf(j)' = FileOf(j) /\ ScriptSource(j)' = ScriptSource(j)
                                /\ Alone(j)' <=> Alone(j)
    BY <1>1, PlaceStays
  <2>2. Present \subseteq Instances BY DEF Present
  <2>3. FilesKnown' BY <1>1, <1>5, <1>6, <2>1, <2>2 DEF PullInv, Gathered, FilesKnown
  <2>4. FilesComplete' BY <1>1, <1>5, <1>6, <2>1 DEF PullInv, Gathered, FilesComplete
  <2> QED BY <1>5, <2>3, <2>4 DEF Gathered, ListingKnown, NodesKnown, WrittenKnown
<1> QED BY <1>1, <1>2, <1>4, <1>5, <1>6 DEF PullInv, TodoListed, NothingInTheWay, WritesAllowed, Conflicts

\* A comparison changes what was seen of a file, nothing else of it.
LEMMA CompareFileKeeps == ASSUME PullInv, CompareFile PROVE PullInv'
<1>1. PICK file \in Unseen :
         pull' = [pull EXCEPT !.files = (@ \ {file}) \union {[file EXCEPT !.seen = disk[file.file]]}]
  BY DEF CompareFile
<1>2. pull.pc = "comparing" /\ UNCHANGED <<place, disk, project, edits, quiet, wrote, lost>>
  BY DEF CompareFile, PullAt
<1>3. pull \in Pulls /\ lost = {} BY DEF PullInv, PullTypeOK
<1> DEFINE seen_ == [file EXCEPT !.seen = disk[file.file]]
<1>4. file \in pull.files /\ file \in PullFiles BY <1>3 DEF Unseen, Pulls
<1>5. disk[file.file] \in Contents BY <1>4 DEF PullInv, PullTypeOK, PullFiles
<1>6. /\ seen_ \in PullFiles /\ seen_.path = file.path /\ seen_.file = file.file
      /\ seen_.source = file.source
  BY <1>4, <1>5 DEF PullFiles
<1>7. /\ pull'.pc = "comparing" /\ pull'.files = (pull.files \ {file}) \union {seen_}
  BY <1>1, <1>2, <1>3 DEF Pulls
<1>8. pull' \in Pulls BY <1>1, <1>3, <1>6 DEF Pulls
<1> HIDE DEF seen_
<1>9. PullTypeOK' BY <1>2, <1>8 DEF PullInv, PullTypeOK
<1>10. ASSUME quiet' PROVE Gathered'
  <2>1. /\ Present' = Present
        /\ \A j \in Instances : /\ FileOf(j)' = FileOf(j) /\ ScriptSource(j)' = ScriptSource(j)
                                /\ Alone(j)' <=> Alone(j)
    BY <1>2, PlaceStays
  <2>2. Present \subseteq Instances BY DEF Present
  <2>3. FilesKnown'
    BY <1>2, <1>4, <1>6, <1>7, <1>10, <2>1, <2>2 DEF PullInv, Gathered, FilesKnown
  <2>4. FilesComplete'
    BY <1>2, <1>4, <1>6, <1>7, <1>10, <2>1 DEF PullInv, Gathered, FilesComplete
  <2> QED BY <1>7, <2>3, <2>4 DEF Gathered, ListingKnown, NodesKnown, WrittenKnown
<1> QED BY <1>2, <1>3, <1>7, <1>9, <1>10 DEF PullInv, TodoListed, NothingInTheWay, WritesAllowed, Conflicts

LEMMA ComparedKeeps == ASSUME PullInv, Compared PROVE PullInv'
<1> DEFINE paths == {file.path : file \in pull.files}
<1>1. /\ pull.pc = "comparing" /\ UNCHANGED <<place, disk, project, edits, quiet, wrote, lost>>
      /\ \/ pull' = [pull EXCEPT !.pc = "dry_run"]
         \/ pull' = [pull EXCEPT !.pc = "conflict"]
         \/ ~pull.dry /\ MayWrite /\ pull' = [pull EXCEPT !.pc = "writing", !.todo = paths]
  BY DEF Compared, PullAt
<1>2. pull \in Pulls /\ lost = {} BY DEF PullInv, PullTypeOK
<1>3. paths \subseteq Paths BY <1>2 DEF Pulls, PullFiles
<1>4. \A file \in pull.files : file.path \in paths OBVIOUS
<1> HIDE DEF paths
<1>5. pull' \in Pulls BY <1>1, <1>2, <1>3 DEF Pulls
<1>6. PullTypeOK' BY <1>1, <1>5 DEF PullInv, PullTypeOK
<1>7. CASE pull'.pc \in {"dry_run", "conflict"}
  BY <1>1, <1>2, <1>6, <1>7
     DEF PullInv, TodoListed, NothingInTheWay, WritesAllowed, Conflicts, Gathered, ListingKnown, NodesKnown, FilesKnown,
         FilesComplete, WrittenKnown
<1>8. CASE ~pull.dry /\ MayWrite /\ pull' = [pull EXCEPT !.pc = "writing", !.todo = paths]
  <2>1. /\ pull'.pc = "writing" /\ pull'.todo = paths /\ pull'.files = pull.files
        /\ pull'.force = pull.force /\ pull'.dry = pull.dry
    BY <1>2, <1>8 DEF Pulls
  <2>2. NothingInTheWay' BY <1>1, <1>8, <2>1 DEF MayWrite, NothingInTheWay, Conflicts
  <2>3. ASSUME quiet' PROVE Gathered'
    <3>1. /\ Present' = Present
          /\ \A j \in Instances : /\ FileOf(j)' = FileOf(j) /\ ScriptSource(j)' = ScriptSource(j)
                                  /\ Alone(j)' <=> Alone(j)
      BY <1>1, PlaceStays
    <3>2. Present \subseteq Instances BY DEF Present
    <3>3. FilesKnown' BY <1>1, <2>1, <2>3, <3>1, <3>2 DEF PullInv, Gathered, FilesKnown
    <3>4. \A i \in Present : FullPath[i] \in paths
      BY <1>1, <1>4, <2>3 DEF PullInv, Gathered, FilesComplete
    <3>5. WrittenKnown' BY <2>1, <3>1, <3>4 DEF WrittenKnown
    <3> QED BY <2>1, <3>3, <3>5 DEF Gathered, ListingKnown, NodesKnown, FilesComplete
  <2> QED BY <1>1, <1>2, <1>6, <2>1, <2>2, <2>3 DEF PullInv, TodoListed, WritesAllowed
<1>9. \/ pull'.pc \in {"dry_run", "conflict"}
      \/ ~pull.dry /\ MayWrite /\ pull' = [pull EXCEPT !.pc = "writing", !.todo = paths]
  BY <1>1, <1>2 DEF Pulls
<1> QED BY <1>7, <1>8, <1>9

\* The file written is the one of a script with its path: of a script that is
\* alone in its own file, and of no other that is alone.
LEMMA WriteFileKeeps == ASSUME PullInv, WriteFile PROVE PullInv'
<1>1. PICK file \in pull.files :
         /\ disk' = [disk EXCEPT ![file.file] = file.source]
         /\ pull' = [pull EXCEPT !.todo = @ \ {file.path}]
         /\ wrote' = wrote \union {file.file}
         /\ lost' = IF ~pull.force /\ file.seen = disk[file.file] /\ file \in Conflicts
                    THEN lost \union {file.file} ELSE lost
  BY DEF WriteFile
<1>2. pull.pc = "writing" /\ UNCHANGED <<place, project, edits, quiet>>
  BY DEF WriteFile, PullAt
<1>3. pull \in Pulls /\ disk \in [Files -> Contents] BY DEF PullInv, PullTypeOK
<1>4. file \in PullFiles BY <1>3 DEF Pulls
<1>5. lost' = {} BY <1>1, <1>2 DEF PullInv, NothingInTheWay, WritesAllowed, Conflicts
<1>6. pull' \in Pulls BY <1>1, <1>3 DEF Pulls
<1>7. /\ pull'.pc = "writing" /\ pull'.files = pull.files /\ pull'.force = pull.force
      /\ pull'.dry = pull.dry /\ pull'.todo = pull.todo \ {file.path}
  BY <1>1, <1>2, <1>3 DEF Pulls
<1>8. disk' \in [Files -> Contents] BY <1>1, <1>3, <1>4 DEF PullFiles, Contents
<1>9. PullTypeOK' BY <1>1, <1>2, <1>4, <1>5, <1>6, <1>8 DEF PullInv, PullTypeOK, PullFiles
<1>10. ASSUME quiet' PROVE Gathered'
  <2>1. /\ Present' = Present
        /\ \A j \in Instances : /\ FileOf(j)' = FileOf(j) /\ ScriptSource(j)' = ScriptSource(j)
                                /\ Alone(j)' <=> Alone(j)
    BY <1>2, PlaceStays
  <2>2. \A j \in Present : j \in Instances /\ place[j] # Gone BY DEF Present
  <2>3. FilesKnown' BY <1>2, <1>7, <1>10, <2>1, <2>2 DEF PullInv, Gathered, FilesKnown
  <2>4. PICK j \in Present : /\ file.path = FullPath[j] /\ file.file = FileOf(j)
                             /\ Alone(j) => file.source = ScriptSource(j)
    BY <1>2, <1>10 DEF PullInv, Gathered, FilesKnown
  <2>5. ASSUME NEW i \in Present, Alone(i)
        PROVE  FullPath[i] \in pull'.todo \/ disk'[FileOf(i)] = ScriptSource(i)
    <3>1. FullPath[i] \in pull.todo \/ disk[FileOf(i)] = ScriptSource(i)
      BY <1>2, <1>10, <2>5 DEF PullInv, Gathered, WrittenKnown
    <3>2. FileOf(i) \in Files BY <2>2, FileOfType
    <3>3. CASE i = j
      BY <1>1, <1>3, <2>4, <2>5, <3>2, <3>3
    <3>4. CASE i # j
      <4>1. FullPath[j] # FullPath[i] /\ FileOf(j) # FileOf(i)
        BY <2>2, <2>5, <3>4 DEF Alone
      <4> QED BY <1>1, <1>3, <1>7, <2>4, <3>1, <3>2, <4>1
    <3> QED BY <3>3, <3>4
  <2>6. WrittenKnown' BY <1>7, <2>1, <2>2, <2>5 DEF WrittenKnown
  <2> QED BY <1>7, <2>3, <2>6 DEF Gathered, ListingKnown, NodesKnown, FilesComplete
<1> QED BY <1>2, <1>5, <1>7, <1>9, <1>10 DEF PullInv, TodoListed, NothingInTheWay, WritesAllowed, Conflicts

LEMMA WriteProjectKeeps == ASSUME PullInv, WriteProject PROVE PullInv'
<1>1. /\ pull.pc = "writing" /\ pull.todo = {} /\ pull' = [pull EXCEPT !.pc = "pulled"]
      /\ project' = TRUE /\ wrote' = wrote \union {"place.json"}
      /\ lost' = IF ~pull.force /\ project THEN lost \union {"place.json"} ELSE lost
      /\ UNCHANGED <<place, disk, edits, quiet>>
  BY DEF WriteProject, PullAt
<1>2. pull \in Pulls /\ lost = {} /\ lost' = {}
  BY <1>1 DEF PullInv, PullTypeOK, NothingInTheWay
<1>3. /\ pull' \in Pulls /\ pull'.pc = "pulled" /\ pull'.files = pull.files
      /\ pull'.force = pull.force /\ pull'.dry = pull.dry
  BY <1>1, <1>2 DEF Pulls
<1>4. PullTypeOK' BY <1>1, <1>2, <1>3 DEF PullInv, PullTypeOK
<1>5. ASSUME quiet' PROVE WrittenKnown'
  <2>1. /\ Present' = Present
        /\ \A j \in Instances : /\ FileOf(j)' = FileOf(j) /\ ScriptSource(j)' = ScriptSource(j)
                                /\ Alone(j)' <=> Alone(j)
    BY <1>1, PlaceStays
  <2>2. Present \subseteq Instances BY DEF Present
  <2> QED BY <1>1, <1>5, <2>1, <2>2 DEF PullInv, Gathered, WrittenKnown
<1> QED BY <1>1, <1>2, <1>3, <1>4, <1>5
        DEF PullInv, TodoListed, NothingInTheWay, WritesAllowed, Conflicts, Gathered, ListingKnown, NodesKnown, FilesKnown,
            FilesComplete

LEMMA NextPull == PullInv /\ [PullNext]_pullVars => PullInv'
<1> SUFFICES ASSUME PullInv, [PullNext]_pullVars PROVE PullInv' OBVIOUS
<1>1. ASSUME NEW i \in Instances, ReadScript(i) PROVE PullInv' BY <1>1, ReadScriptKeeps
<1>2. ASSUME NEW i \in Instances, NEW text \in Texts \union {Gone}, StudioEdits(i, text) PROVE PullInv'
  BY <1>2, EditKeeps DEF StudioEdits
<1>3. ASSUME NEW f \in Files, UserEdits(f) PROVE PullInv'
  BY <1>3, EditKeeps DEF UserEdits
<1>4. ASSUME NEW force \in BOOLEAN, NEW dry \in BOOLEAN, StartPull(force, dry) PROVE PullInv'
  BY <1>4, StartPullKeeps
<1>5. ASSUME NEW service \in pull.services, Search(service) PROVE PullInv'
  BY <1>5, SearchKeeps
<1>6. CASE UNCHANGED pullVars
  <2>1. /\ Present' = Present
        /\ \A j \in Instances : /\ FileOf(j)' = FileOf(j) /\ ScriptSource(j)' = ScriptSource(j)
                                /\ Alone(j)' <=> Alone(j)
    BY <1>6, PlaceStays DEF pullVars
  <2>2. Present \subseteq Instances BY DEF Present
  <2> QED BY <1>6, <2>1, <2>2
          DEF pullVars, PullInv, PullTypeOK, TodoListed, NothingInTheWay, WritesAllowed, Conflicts, Gathered,
              ListingKnown, NodesPresent, NodesKnown, FilesKnown, FilesComplete, WrittenKnown
<1> QED BY <1>1, <1>2, <1>3, <1>4, <1>5, <1>6, PullFailsKeeps, SearchedKeeps, AllReadKeeps,
           CompareFileKeeps, ComparedKeeps, WriteFileKeeps, WriteProjectKeeps
        DEF PullNext

\* For every place, every workspace and every order of edits, failures and
\* pulls: a pull that nobody disturbed has written every listed script that
\* shares no path and no file; no pull wrote before its comparison was over,
\* in a dry run or after a conflict; and none without --force replaced content
\* it had found, place.json included.
THEOREM PullTheorem == PullSpec => [](PullTypeOK /\ PullSound)
<1>1. PullInit => PullInv BY InitPull
<1>2. PullInv /\ [PullNext]_pullVars => PullInv' BY NextPull
<1>3. PullInv => PullTypeOK /\ PullSound
  BY DEF PullInv, Gathered, WrittenKnown, PullSound, PullComplete
<1> QED BY <1>1, <1>2, <1>3, PTL DEF PullSpec

----------------------------------------------------------------------------
(* The host side as a whole                                                *)

MonitorSideInv == ResolverTypeOK /\ ResolverInv /\ MonitorInv /\ MonitorTyped

HostInv == /\ MonitorSideInv /\ EndpointInv /\ PairingInv /\ PairingTypeOK
           /\ JobsInv /\ PullInv

\* An inspection that nobody asked for, and one that the monitor made.
LEMMA ResolverPart ==
  ASSUME MonitorSideInv, [HostNext \/ InspectNext]_resolverVars, UNCHANGED monitorVars
  PROVE  MonitorSideInv'
<1>1. MonitorTyped' BY ProviderTyped DEF MonitorSideInv, monitorVars
<1>2. MonitorInv' BY OthersInv DEF MonitorSideInv
<1>3. ResolverInv' BY NextResolver DEF MonitorSideInv
<1>4. ResolverTypeOK' BY ResolverTypesKept DEF MonitorSideInv
<1> QED BY <1>1, <1>2, <1>3, <1>4 DEF MonitorSideInv

LEMMA MonitorPart ==
  ASSUME MonitorSideInv, MonitorNext \/ ProviderNext
  PROVE  MonitorSideInv'
<1>1. ResolverInv' /\ ResolverTypeOK' BY MonitorStepResolverInv DEF MonitorSideInv
<1>2. MonitorInv' BY MonitorStepInv, OthersInv DEF MonitorSideInv
<1>3. MonitorTyped' BY MonitorStepTyped, ProviderTyped DEF MonitorSideInv
<1> QED BY <1>1, <1>2, <1>3 DEF MonitorSideInv

\* The steps of the host that the instance of the monitor takes are the host's.
LEMMA InstanceSteps ==
  /\ ResolverStep => HostNext \/ InspectNext
  /\ MonitorStep => MonitorNext \/ ProviderNext \/ (HostNext /\ UNCHANGED monitorVars)
<1>1. ProcessStarts(1, None, FlatpakStudio) => HostNext
  BY InstanceAssumption DEF HostNext
<1>2. (\E process \in procs : ProcessExits(process)) => HostNext BY DEF HostNext
<1>3. (\E next \in {Flatpak, Empty} : InstallationChanges(next)) => HostNext
  BY InstanceAssumption DEF HostNext
<1> QED BY <1>1, <1>2, <1>3 DEF ResolverStep, MonitorStep

LEMMA InitHost == HostInit => HostInv
  BY InitInv, InitMonitorTyped, InitResolver, InitResolverTypes, InitEndpoint, InitPairing,
     InitPairingTypes, InitJobs, InitPull
  DEF HostInit, MonitorInit, HostInv, MonitorSideInv

LEMMA NextHost == HostInv /\ [HostRunNext]_hostRunVars => HostInv'
<1> SUFFICES ASSUME HostInv, [HostRunNext]_hostRunVars PROVE HostInv' OBVIOUS
<1>1. MonitorSideInv'
  <2>1. \/ [HostNext \/ InspectNext]_resolverVars /\ UNCHANGED monitorVars
        \/ MonitorNext \/ ProviderNext
    BY InstanceSteps DEF HostRunNext, hostRunVars
  <2> QED BY <2>1, ResolverPart, MonitorPart DEF HostInv
<1>2. EndpointInv'
  <2>1. [EndpointNext]_endpointVars BY DEF HostRunNext, hostRunVars
  <2> QED BY <2>1, NextEndpoint DEF HostInv
<1>3. PairingInv' /\ PairingTypeOK'
  <2>1. [PairingNext]_pairingVars BY DEF HostRunNext, hostRunVars
  <2> QED BY <2>1, NextPairing, PairingTyped DEF HostInv
<1>4. JobsInv'
  <2>1. [JobsNext]_jobVars BY DEF HostRunNext, hostRunVars
  <2> QED BY <2>1, NextJobs DEF HostInv
<1>5. PullInv'
  <2>1. [PullNext]_pullVars BY DEF HostRunNext, hostRunVars
  <2> QED BY <2>1, NextPull DEF HostInv
<1> QED BY <1>1, <1>2, <1>3, <1>4, <1>5 DEF HostInv

\* The host side as the run explores it, with any number of everything: every
\* part keeps its types and the properties of the run hold of each.
THEOREM HostTheorem ==
  Spec => [](/\ HostTypeOK
             /\ InspectionSound /\ MonitorTruthful /\ EndpointNamesLiveDaemon
             /\ PairingSound /\ JobsOrderly /\ PullSound)
<1>1. HostInit => HostInv BY InitHost
<1>2. HostInv /\ [HostRunNext]_hostRunVars => HostInv' BY NextHost
<1>3. HostInv => MonitorTypeOK
  BY DEF HostInv, MonitorSideInv, MonitorTyped, MonitorTypeOK, MonitorInv, Shapes, MonitorPlaces
<1>4. HostInv => HostTypeOK
  BY <1>3 DEF HostInv, HostTypeOK, EndpointInv, JobsInv, PullInv
<1>5. HostInv => InspectionSound BY InvImpliesInspection DEF HostInv, MonitorSideInv
<1>6. HostInv => MonitorTruthful BY DEF HostInv, MonitorSideInv, MonitorInv, MonitorTruthful
<1>7. HostInv => EndpointNamesLiveDaemon /\ PairingSound /\ JobsOrderly
  BY InvImpliesNamed, InvImpliesSound, InvImpliesOrderly DEF HostInv
<1>8. HostInv => PullSound BY DEF HostInv, PullInv, Gathered, WrittenKnown, PullSound, PullComplete
<1> QED BY <1>1, <1>2, <1>4, <1>5, <1>6, <1>7, <1>8, PTL DEF Spec

=============================================================================
