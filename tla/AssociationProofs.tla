------------------------- MODULE AssociationProofs -------------------------
(***************************************************************************)
(* Proofs about Association: the association of a device with its owner    *)
(* ends, is earned anew after a restart, and gives way to the identified   *)
(* body, for any rooms, targets, scenes and windows.                       *)
(***************************************************************************)
EXTENDS Association, TLAPS

-----------------------------------------------------------------------------
(***************************************************************************)
(* The inductive invariant.                                                *)
(***************************************************************************)

\* Resolutions and restarts are of the past.
InThePast ==
    /\ evaluated <= clock
    /\ captureAfter # Nothing => captureAfter <= clock

\* An anchor is older than the arrival it was latched with.
AnchorIsOrdered ==
    anchor # Nothing =>
        /\ anchor.at <= evaluated
        /\ anchor.accepted = Nothing <=> anchor.acceptedArea = Nothing
        /\ anchor.accepted # Nothing =>
              anchor.at <= anchor.accepted /\ anchor.accepted <= evaluated

\* A visual link follows somebody anonymous, and the anchor it broke away from
\* is still there.
VisualIsAnonymous ==
    link # Nothing =>
        /\ link.track = Nothing <=> link.bodyAt = Nothing
        /\ IsVisual(link) => link.clears /\ anchor # Nothing /\ anchor.by # "body"

\* A latched arrival places the owner, is not older than the anchor, and is
\* the one the anchor remembers if they belong together.
LatchIsRemembered ==
    link # Nothing /\ link.accepted # Nothing =>
        /\ carried /\ link.accepted <= evaluated
        /\ anchor # Nothing => anchor.at <= link.accepted
        /\ anchor # Nothing /\ anchor.at = link.anchored =>
              anchor.accepted = link.accepted /\ anchor.acceptedArea = link.to

\* An arrival that is not latched yet still has its anchor.
UnlatchedIsAnchored ==
    link # Nothing /\ ~IsVisual(link) /\ link.accepted = Nothing =>
        anchor # Nothing /\ anchor.at = link.anchored

\* A chain of frames is not older than the anchor it began with.
FramesAreOrdered ==
    IsVisual(link) => link.anchored <= link.bodyAt /\ link.bodyAt <= evaluated

IInv ==
    /\ TypeOK /\ InThePast /\ AnchorIsOrdered /\ VisualIsAnonymous
    /\ LatchIsRemembered /\ UnlatchedIsAnchored /\ FramesAreOrdered
    /\ LinksEnd /\ AnchorsAreNew /\ BodiesDecide

-----------------------------------------------------------------------------
(***************************************************************************)
(* What a scene and an anchor are.                                         *)
(***************************************************************************)

\* The instants a scene speaks of are of the past.
IsPast(age) == At(age) \in Instant /\ At(age) <= clock

SceneIsPast(s) ==
    /\ s.phone \in Area \cup {Nothing}
    /\ s.near # Nothing => s.near \in s.heard
    /\ s.heard # {} => captureAfter # clock
    /\ IsPast(s.last)
    /\ s.body # Nothing => s.body.area \in Area /\ IsPast(s.body.age)
    /\ s.position # Nothing => IsPast(s.position)
    /\ \A f \in s.frames : /\ f.track \in Track /\ f.area \in Area /\ f.age \in Nat
                           /\ f.begun \in Nat /\ IsPast(f.age) /\ At(f.begun) <= At(f.age)

LEMMA SceneFacts ==
    ASSUME TypeOK, NEW s \in Scenes, Possible(s)
    PROVE  SceneIsPast(s)
<1>1. /\ s \in SceneType
      /\ s.near = Nothing \/ s.near \in s.heard
      /\ \A f \in s.frames : f.begun >= f.age
  BY SceneAssumption
<1>2. clock \in Instant /\ clock \in Nat
  BY DEF TypeOK, Instant
<1>3. \A x \in AgesOf(s) : x <= clock
  BY DEF Possible
<1>4. s.last \in Nat /\ s.last <= clock
  <2>1. s.last \in AgesOf(s)
    BY DEF AgesOf
  <2> QED
    BY <1>1, <1>3, <2>1 DEF SceneType, Age
<1>5. s.body # Nothing => /\ s.body.area \in Area /\ s.body.age \in Nat /\ s.body.age <= clock
  <2>1. s.body # Nothing => s.body.age \in AgesOf(s)
    BY DEF AgesOf
  <2> QED
    BY <1>1, <1>3, <2>1 DEF SceneType, Age
<1>6. s.position # Nothing => s.position \in Nat /\ s.position <= clock
  <2>1. s.position # Nothing => s.position \in AgesOf(s)
    BY DEF AgesOf
  <2> QED
    BY <1>1, <1>3, <2>1 DEF SceneType, Age
<1>7. \A f \in s.frames : /\ f.track \in Track /\ f.area \in Area
                          /\ f.age \in Nat /\ f.begun \in Nat
                          /\ f.age <= f.begun /\ f.begun <= clock
  <2> SUFFICES ASSUME NEW f \in s.frames
               PROVE  /\ f.track \in Track /\ f.area \in Area
                      /\ f.age \in Nat /\ f.begun \in Nat
                      /\ f.age <= f.begun /\ f.begun <= clock
    OBVIOUS
  <2>1. f.begun \in AgesOf(s)
    BY DEF AgesOf
  <2>2. f \in Frame
    BY <1>1 DEF SceneType
  <2>3. f.begun <= clock
    BY <1>3, <2>1
  <2> QED
    BY <1>1, <2>2, <2>3 DEF Frame, Age
<1>8. \A x \in Nat : x <= clock => IsPast(x)
  BY <1>2, WindowAssumption DEF At, Instant, IsPast
<1>9. \A f \in s.frames : IsPast(f.age) /\ At(f.begun) <= At(f.age)
  <2> SUFFICES ASSUME NEW f \in s.frames
               PROVE  IsPast(f.age) /\ At(f.begun) <= At(f.age)
    OBVIOUS
  <2>1. IsPast(f.age)
    BY <1>2, <1>7, <1>8
  <2>2. At(f.begun) <= At(f.age)
    BY <1>2, <1>7 DEF At
  <2> QED
    BY <2>1, <2>2
<1>10. s.phone \in Area \cup {Nothing}
  BY <1>1 DEF SceneType
<1>11. s.heard # {} => captureAfter # clock
  BY DEF Possible
<1> QED
  BY <1>1, <1>4, <1>5, <1>6, <1>7, <1>8, <1>9, <1>10, <1>11 DEF SceneIsPast

\* An anchor that was there before and has not come of age.
Survivor(a) ==
    /\ anchor # Nothing /\ a = anchor
    /\ clock - (IF IsVisual(link) THEN LaterOf(anchor.at, link.bodyAt) ELSE anchor.at)
          < Lifetime

\* An anchor that was earned now.
Fresh(a, s) ==
    /\ a \in Anchor /\ a.area = s.phone
    /\ a.accepted = Nothing /\ a.acceptedArea = Nothing
    /\ a.at <= clock /\ clock - a.at < Window
    /\ captureAfter # Nothing => a.at > captureAfter
    /\ IF a.by = "body" THEN s.body # Nothing ELSE ~Placed

\* What capturing yields.
LEMMA CapturedAnchor ==
    ASSUME TypeOK, InThePast, NEW s \in Scenes, Possible(s)
    PROVE  LET a == Captured(Pruned(s), s)
           IN  a = Nothing \/ Survivor(a) \/ Fresh(a, s)
<1>0. SceneIsPast(s)
  BY SceneFacts
<1> DEFINE p == Pruned(s)
           a == Captured(p, s)
<1>1. p = Nothing \/ Survivor(p)
  BY DEF Pruned, Survives, Survivor
<1>2. CASE s.phone = Nothing
  BY <1>1, <1>2 DEF Captured
<1>3. CASE s.phone # Nothing /\ Earned(p, s) # {}
  <2> DEFINE r == CHOOSE r \in Earned(p, s) : TRUE
  <2>1. r \in Earned(p, s)
    BY <1>3
  <2> HIDE DEF r
  <2>2. /\ r \in References(s) /\ clock - r.at < Window /\ NewSinceStart(r.at)
    BY <2>1 DEF Earned
  <2>3. a = NewAnchor(s, r.at, r.by)
    BY <1>3 DEF Captured, r
  <2>4. /\ r.at \in Instant /\ r.at <= clock /\ r.by \in {"body", "position"}
        /\ IF r.by = "body" THEN s.body # Nothing ELSE ~Placed
    <3>1. CASE s.body # Nothing
      <4>1. r = [at |-> At(s.body.age), by |-> "body"]
        BY <2>2, <3>1 DEF References
      <4> QED
        BY <1>0, <3>1, <4>1 DEF SceneIsPast, IsPast
    <3>2. CASE s.body = Nothing
      <4>1. /\ r = [at |-> At(s.position), by |-> "position"]
            /\ s.position # Nothing /\ ~Placed
        BY <2>2, <3>2 DEF References
      <4> QED
        BY <1>0, <4>1 DEF SceneIsPast, IsPast
    <3> QED
      BY <3>1, <3>2
  <2>5. a \in Anchor
    BY <1>0, <1>3, <2>3, <2>4 DEF SceneIsPast, NewAnchor, Anchor
  <2>6. captureAfter # Nothing => a.at > captureAfter
    BY <2>2, <2>3 DEF NewSinceStart, NewAnchor
  <2>7. Fresh(a, s)
    BY <2>2, <2>3, <2>4, <2>5, <2>6 DEF Fresh, NewAnchor
  <2> QED
    BY <2>7
<1>4. CASE s.phone # Nothing /\ Earned(p, s) = {} /\ p = Nothing /\ Provisional(s)
  <2>1. a = NewAnchor(s, clock, "counter")
    BY <1>4 DEF Captured
  <2>2. ~Placed /\ captureAfter # clock
    BY <1>0, <1>4 DEF SceneIsPast, Provisional
  <2>3. clock \in Instant /\ clock \in Nat
    BY DEF TypeOK, Instant
  <2>4. a \in Anchor
    BY <1>0, <1>4, <2>1, <2>3 DEF SceneIsPast, NewAnchor, Anchor
  <2>5. captureAfter # Nothing => clock > captureAfter
    BY <2>2, <2>3 DEF InThePast, TypeOK, Instant
  <2>6. clock - clock < Window
    BY <2>3, WindowAssumption
  <2>7. Fresh(a, s)
    BY <2>1, <2>2, <2>3, <2>4, <2>5, <2>6 DEF Fresh, NewAnchor
  <2> QED
    BY <2>7
<1>5. CASE s.phone # Nothing /\ Earned(p, s) = {} /\ ~(p = Nothing /\ Provisional(s))
  BY <1>1, <1>5 DEF Captured
<1> QED
  BY <1>2, <1>3, <1>4, <1>5

-----------------------------------------------------------------------------
(***************************************************************************)
(* The ways to earn a link.                                                *)
(***************************************************************************)

LEMMA NewLinkFacts ==
    ASSUME TypeOK, NEW s \in Scenes, SceneIsPast(s),
           NEW a \in Anchor, NEW to \in Area
    PROVE  /\ NewLink(a, s, to) \in Link
           /\ NewLink(a, s, to).anchored = a.at
           /\ NewLink(a, s, to).to = to
           /\ NewLink(a, s, to).clears <=> a.by # "body"
           /\ NewLink(a, s, to).accepted = IF a.acceptedArea = to THEN a.accepted ELSE Nothing
           /\ NewLink(a, s, to).track = Nothing /\ NewLink(a, s, to).bodyAt = Nothing
<1>1. a.at \in Instant /\ At(s.last) \in Instant
  BY DEF Anchor, SceneIsPast, IsPast
<1>2. LaterOf(At(s.last), a.at) \in Instant
  BY <1>1 DEF LaterOf
<1> QED
  BY <1>1, <1>2 DEF NewLink, Link, Anchor

\* A completed arrival goes on.
IsCompleted(l, s) ==
    /\ link # Nothing /\ l = link /\ ~link.clears /\ link.accepted # Nothing
    /\ clock < link.accepted + Lifetime
    /\ s.body = Nothing

\* A chain of frames goes on or begins.
IsChain(l, a, s) ==
    /\ a # Nothing /\ a.by # "body" /\ s.body = Nothing
    /\ l \in Link /\ l.track # Nothing /\ l.bodyAt # Nothing /\ l.clears
    /\ l.bodyAt <= clock /\ clock - l.bodyAt < Lifetime
    /\ \/ /\ IsVisual(link) /\ link.bodyAt <= l.bodyAt
          /\ l.anchored = link.anchored /\ l.accepted = link.accepted /\ l.to = link.to
       \/ /\ ~IsVisual(link)
          /\ l.anchored = a.at /\ l.accepted = Nothing /\ a.at <= l.bodyAt

\* The device of an identified body moved.
IsTransfer(l, a, s) ==
    /\ a # Nothing /\ a.by = "body" /\ s.phone \in Area /\ s.phone # a.area
    /\ s.body = Nothing \/ s.body.area = s.phone
    /\ \/ /\ link # Nothing /\ l = link /\ ~link.clears /\ link.to = s.phone
          /\ link.accepted # Nothing =>
                s.body # Nothing \/ ~(clock < link.accepted + Lifetime)
       \/ l = NewLink(a, s, s.phone)

\* A device moved from one anonymous body to another.
IsCorrelation(l, a, s) ==
    /\ a # Nothing /\ a.by = "position" /\ ~IsVisual(link) /\ s.body = Nothing
    /\ \/ link # Nothing /\ l = link /\ link.accepted # Nothing
       \/ \E d \in Area : l = NewLink(a, s, d)

LEMMA ChainFacts ==
    ASSUME TypeOK, InThePast, VisualIsAnonymous, FramesAreOrdered,
           NEW s \in Scenes, SceneIsPast(s),
           NEW a \in Anchor \cup {Nothing}, NEW l \in Followed(a, s)
    PROVE  IsChain(l, a, s)
<1>1. a # Nothing /\ a.by # "body" /\ s.body = Nothing /\ a \in Anchor
  BY DEF Followed
<1>2. clock \in Nat /\ Lifetime \in Nat /\ Window \in 1 .. Lifetime
  BY WindowAssumption DEF TypeOK, Instant
<1>3. \A f \in s.frames : /\ f.track \in Track /\ f.area \in Area /\ f.age \in Nat
                          /\ At(f.age) \in Instant /\ At(f.age) <= clock
                          /\ At(f.begun) \in Int /\ At(f.begun) <= At(f.age)
                          /\ f.age < Window => clock - At(f.age) < Lifetime
  BY <1>2 DEF SceneIsPast, IsPast, At
<1>4. \A t \in Track : t # Nothing
  BY NothingAssumption
<1>5. \A t \in Instant : t # Nothing
  BY NothingAssumption
<1>6. CASE IsVisual(link)
  <2>1. /\ link \in Link /\ link # Nothing /\ link.track # Nothing
        /\ link.bodyAt # Nothing /\ link.bodyAt \in Instant /\ link.clears
    BY <1>6 DEF TypeOK, VisualIsAnonymous, IsVisual, Link
  <2>2. l \in Renewals(a, s, link) \/ (l = link /\ Bridged(s, link, link.to))
    BY <1>1, <1>6, <2>1 DEF Followed, VisualLinks
  <2>3. CASE l \in Renewals(a, s, link)
    <3>1. PICK f \in Followable(a, s, link) :
             /\ l = [link EXCEPT !.track = f.track, !.bodyAt = At(f.age), !.frameIn = f.area]
             /\ At(f.age) >= link.bodyAt
      BY <2>3 DEF Renewals
    <3>2. f \in s.frames /\ f.age < Window
      BY <2>1, <3>1 DEF Followable, Current
    <3>3. /\ f.track \in Track /\ f.area \in Area
          /\ At(f.age) \in Instant /\ At(f.age) <= clock
          /\ clock - At(f.age) < Lifetime
      BY <1>3, <3>2
    <3>4. l \in Link
      BY <2>1, <3>1, <3>3 DEF Link
    <3>5. /\ l.track = f.track /\ l.bodyAt = At(f.age) /\ l.clears
          /\ l.anchored = link.anchored /\ l.accepted = link.accepted /\ l.to = link.to
      BY <2>1, <3>1 DEF Link
    <3>6. link.bodyAt <= At(f.age)
      BY <2>1, <3>1, <3>3 DEF Instant
    <3> QED
      BY <1>1, <1>4, <1>5, <1>6, <3>3, <3>4, <3>5, <3>6 DEF IsChain
  <2>4. CASE l = link /\ Bridged(s, link, link.to)
    <3>1. clock - link.bodyAt < Lifetime
      BY <2>4 DEF Bridged
    <3>2. link.bodyAt <= clock
      BY <1>2, <1>6, <2>1 DEF InThePast, FramesAreOrdered, TypeOK, Instant
    <3>3. link.bodyAt <= link.bodyAt
      BY <2>1 DEF Instant
    <3> QED
      BY <1>1, <1>6, <2>1, <2>4, <3>1, <3>2, <3>3 DEF IsChain
  <2> QED
    BY <2>2, <2>3, <2>4
<1>7. CASE ~IsVisual(link)
  <2>1. l \in Arrivals(a, s)
    BY <1>1, <1>7 DEF Followed, VisualLinks
  <2>2. PICK f \in Current(a, s) :
           /\ l = [NewLink(a, s, f.area) EXCEPT
                     !.track = f.track, !.bodyAt = At(f.age), !.frameIn = f.area,
                     !.accepted = Nothing, !.after = Nothing]
           /\ At(f.begun) >= a.at
    BY <2>1 DEF Arrivals
  <2>3. f \in s.frames /\ f.age < Window
    BY <2>2 DEF Current
  <2>4. /\ f.track \in Track /\ f.area \in Area
        /\ At(f.age) \in Instant /\ At(f.age) <= clock
        /\ At(f.begun) \in Int /\ At(f.begun) <= At(f.age)
        /\ clock - At(f.age) < Lifetime
    BY <1>3, <2>3
  <2> DEFINE n == NewLink(a, s, f.area)
  <2>5. n \in Link /\ n.anchored = a.at /\ (n.clears <=> a.by # "body")
    BY <1>1, <2>4, NewLinkFacts
  <2> HIDE DEF n
  <2>6. l = [n EXCEPT !.track = f.track, !.bodyAt = At(f.age), !.frameIn = f.area,
                      !.accepted = Nothing, !.after = Nothing]
    BY <2>2 DEF n
  <2>7. l \in Link
    BY <2>4, <2>5, <2>6 DEF Link
  <2>8. /\ l.track = f.track /\ l.bodyAt = At(f.age) /\ l.clears
        /\ l.anchored = a.at /\ l.accepted = Nothing
    BY <1>1, <2>5, <2>6 DEF Link, Anchor
  <2>9. a.at <= At(f.age)
    <3>1. a.at \in Instant /\ At(f.begun) >= a.at
      BY <1>1, <2>2 DEF Anchor
    <3>2. a.at \in Int /\ At(f.age) \in Int
      BY <3>1, <2>4 DEF Instant
    <3> QED
      BY <2>4, <3>1, <3>2
  <2> QED
    BY <1>1, <1>4, <1>5, <1>7, <2>4, <2>7, <2>8, <2>9 DEF IsChain
<1> QED
  BY <1>6, <1>7

LEMMA ConfirmedFacts ==
    ASSUME TypeOK, InThePast, VisualIsAnonymous, FramesAreOrdered,
           NEW s \in Scenes, SceneIsPast(s),
           NEW a \in Anchor \cup {Nothing}, NEW l \in Confirmed(a, s)
    PROVE  /\ IsCompleted(l, s) \/ IsChain(l, a, s) \/ IsTransfer(l, a, s) \/ IsCorrelation(l, a, s)
           /\ ChainBreaks(a, s) => IsCompleted(l, s)
<1>1. CASE Completed(s) # {}
  <2>1. l \in Completed(s)
    BY <1>1 DEF Confirmed
  <2> QED
    BY <2>1 DEF Completed, IsCompleted
<1>2. CASE Completed(s) = {} /\ Followed(a, s) # {}
  <2>1. ~ChainBreaks(a, s) /\ a # Nothing
    BY <1>2 DEF ChainBreaks, Followed
  <2>2. l \in Followed(a, s)
    BY <1>2, <2>1 DEF Confirmed
  <2> QED
    BY <2>1, <2>2, ChainFacts
<1>3. CASE Completed(s) = {} /\ Followed(a, s) = {}
  <2>1. a # Nothing /\ ~ChainBreaks(a, s)
    BY <1>3 DEF Confirmed
  <2>2. a \in Anchor /\ a.by \in {"body", "position", "counter"}
    BY <2>1 DEF Anchor
  <2>3. CASE a.by = "body"
    <3>1. l \in Transferred(a, s)
      BY <1>3, <2>1, <2>3 DEF Confirmed
    <3>2. /\ s.phone # Nothing /\ s.phone # a.area /\ s.near = s.phone
          /\ s.body = Nothing \/ s.body.area = s.phone
          /\ l = NewLink(a, s, s.phone)
             \/ (link # Nothing /\ link.to = s.phone /\ ~link.clears /\ l = link)
      BY <3>1 DEF Transferred
    <3>3. s.phone \in Area /\ s.phone \in s.heard
      BY <3>2 DEF SceneIsPast
    <3>4. (link # Nothing /\ link.to = s.phone /\ ~link.clears /\ link.accepted # Nothing) =>
             s.body # Nothing \/ ~(clock < link.accepted + Lifetime)
      BY <1>3, <3>3 DEF Completed
    <3> QED
      BY <2>1, <2>3, <3>2, <3>3, <3>4 DEF IsTransfer
  <2>4. CASE a.by = "position"
    <3>1. l \in Correlated(a, s)
      BY <1>3, <2>1, <2>4 DEF Confirmed
    <3>2. ~IsVisual(link)
      BY <1>3, <2>1, <2>4 DEF ChainBreaks
    <3>3. /\ s.body = Nothing
          /\ \E d \in Destinations(a, s) :
                \/ l = link /\ link # Nothing /\ link.accepted # Nothing
                \/ l = NewLink(a, s, d)
      BY <3>1 DEF Correlated
    <3>4. Destinations(a, s) \subseteq Area
      BY DEF Destinations, Bodies, SceneIsPast
    <3> QED
      BY <2>1, <2>4, <3>2, <3>3, <3>4 DEF IsCorrelation
  <2>5. CASE a.by = "counter"
    BY <1>3, <2>1, <2>5 DEF Confirmed
  <2> QED
    BY <2>1, <2>2, <2>3, <2>4, <2>5
<1> QED
  BY <1>1, <1>2, <1>3

\* A resolution: the anchor it is left with before the resolver answers, the
\* link it offers, and the answer.
Resolved(b, l, supported, s) ==
    /\ b = Nothing \/ Survivor(b) \/ Fresh(b, s)
    /\ \/ l = Nothing
       \/ IsCompleted(l, s) \/ IsChain(l, b, s) \/ IsTransfer(l, b, s) \/ IsCorrelation(l, b, s)
    /\ supported => l # Nothing /\ s.body = Nothing
    /\ Accept(b, l, supported) /\ carried' = supported
    /\ seen' = IF s.body = Nothing THEN Nothing ELSE s.body.area
    /\ evaluated' = clock /\ clock' = clock /\ captureAfter' = captureAfter

LEMMA ResolveFacts ==
    ASSUME TypeOK, InThePast, VisualIsAnonymous, FramesAreOrdered,
           NEW s \in Scenes, Resolve(s)
    PROVE  /\ SceneIsPast(s)
           /\ \E b, l : \E supported \in BOOLEAN : Resolved(b, l, supported, s)
<1> DEFINE a == Captured(Pruned(s), s)
           links == Unshared(Confirmed(a, s), s)
           l == IF links = {} THEN Nothing ELSE CHOOSE x \in links : TRUE
           b == IF ChainBreaks(a, s) THEN Nothing ELSE a
<1>1. Possible(s)
  BY DEF Resolve
<1>2. SceneIsPast(s)
  BY <1>1, SceneFacts
<1>3. a = Nothing \/ Survivor(a) \/ Fresh(a, s)
  BY <1>1, CapturedAnchor
<1>4. a \in Anchor \cup {Nothing}
  BY <1>3 DEF Survivor, Fresh, TypeOK
<1>5. PICK supported \in BOOLEAN :
        /\ supported => l # Nothing /\ Acceptable(l, s)
        /\ Accept(b, l, supported) /\ carried' = supported
  BY DEF Resolve
<1>6. l = Nothing \/ l \in Confirmed(a, s)
  BY DEF Unshared
<1> HIDE DEF l, links, a
<1>7. \/ l = Nothing
      \/ IsCompleted(l, s) \/ IsChain(l, b, s) \/ IsTransfer(l, b, s) \/ IsCorrelation(l, b, s)
  BY <1>2, <1>4, <1>6, ConfirmedFacts
<1>8. b = Nothing \/ Survivor(b) \/ Fresh(b, s)
  BY <1>3
<1>9. supported => s.body = Nothing
  BY <1>5 DEF Acceptable
<1>10. /\ seen' = IF s.body = Nothing THEN Nothing ELSE s.body.area
       /\ evaluated' = clock /\ clock' = clock /\ captureAfter' = captureAfter
  BY DEF Resolve
<1> HIDE DEF b
<1>11. Resolved(b, l, supported, s)
  BY <1>5, <1>7, <1>8, <1>9, <1>10 DEF Resolved
<1> QED
  BY <1>2, <1>11

-----------------------------------------------------------------------------
(***************************************************************************)
(* What a resolution leaves.                                               *)
(***************************************************************************)

\* The anchor before the answer of the resolver.
AnchorHolds(b, s) ==
    b # Nothing =>
        /\ b \in Anchor
        /\ b.at <= clock
        /\ b.accepted = Nothing <=> b.acceptedArea = Nothing
        /\ b.accepted # Nothing => b.at <= b.accepted /\ b.accepted <= clock
        /\ captureAfter # Nothing => b.at > captureAfter
        /\ b.by = "body" \/ ~IsVisual(link) => clock - b.at < Lifetime
        /\ carried /\ s.body = Nothing => b = anchor
        /\ b.by = "body" /\ b.area # s.phone => b = anchor

LEMMA AnchorFacts ==
    ASSUME IInv, NEW s \in Scenes, SceneIsPast(s), NEW b,
           b = Nothing \/ Survivor(b) \/ Fresh(b, s)
    PROVE  AnchorHolds(b, s)
<1>1. clock \in Nat /\ Lifetime \in Nat /\ Window \in 1 .. Lifetime /\ evaluated \in Nat
  BY WindowAssumption DEF IInv, TypeOK, Instant
<1>2. CASE Survivor(b)
  <2>1. b = anchor /\ b # Nothing /\ b \in Anchor
    BY <1>2 DEF Survivor, IInv, TypeOK
  <2>2. /\ b.at \in Nat
        /\ b.accepted # Nothing => b.accepted \in Nat
    BY <2>1 DEF Anchor, Instant
  <2>3. /\ b.at <= evaluated
        /\ b.accepted = Nothing <=> b.acceptedArea = Nothing
        /\ b.accepted # Nothing => b.at <= b.accepted /\ b.accepted <= evaluated
    BY <2>1 DEF IInv, AnchorIsOrdered
  <2>4. evaluated <= clock
    BY DEF IInv, InThePast
  <2>5. captureAfter # Nothing => b.at > captureAfter
    BY <2>1 DEF IInv, AnchorsAreNew
  <2>6. b.by = "body" => ~IsVisual(link)
    BY <2>1 DEF IInv, VisualIsAnonymous, IsVisual
  <2>7. ~IsVisual(link) => clock - b.at < Lifetime
    BY <1>2, <2>1 DEF Survivor
  <2> QED
    BY <1>1, <2>1, <2>2, <2>3, <2>4, <2>5, <2>6, <2>7 DEF AnchorHolds
<1>3. CASE Fresh(b, s)
  <2>1. b \in Anchor /\ b.at \in Nat
    BY <1>3 DEF Fresh, Anchor, Instant
  <2>2. clock - b.at < Lifetime
    BY <1>1, <1>3, <2>1 DEF Fresh
  <2>3. carried => Placed
    BY DEF Placed
  <2> QED
    BY <1>3, <2>1, <2>2, <2>3 DEF Fresh, AnchorHolds
<1> QED
  BY <1>2, <1>3 DEF AnchorHolds

\* The link offered to the resolver.
LinkHolds(l, b, s) ==
    /\ l \in Link
    /\ s.body = Nothing \/ l.accepted = Nothing => clock - ClockOf(l) < Lifetime
    /\ l.track = Nothing <=> l.bodyAt = Nothing
    /\ l.track # Nothing =>
          /\ l.clears /\ b # Nothing /\ b.by # "body"
          /\ l.anchored <= l.bodyAt /\ l.bodyAt <= clock
    /\ l.track = Nothing /\ l.accepted # Nothing => l.accepted - l.anchored < Lifetime
    /\ l.track = Nothing /\ l.accepted = Nothing =>
          b # Nothing /\ b.at = l.anchored /\ clock - l.anchored < Lifetime
    /\ l.accepted # Nothing /\ s.body = Nothing =>
          /\ l.accepted <= clock
          /\ b # Nothing => b.at <= l.accepted
          /\ b # Nothing /\ b.at = l.anchored =>
                b.accepted = l.accepted /\ b.acceptedArea = l.to
    /\ captureAfter # Nothing => l.anchored > captureAfter
    /\ s.body # Nothing => l.to = s.body.area /\ ~l.clears

\* A link that stays as it is, and is not visual.
LEMMA KeptFacts ==
    ASSUME IInv, NEW s \in Scenes, NEW b, AnchorHolds(b, s),
           link # Nothing, ~IsVisual(link),
           link.accepted # Nothing /\ s.body = Nothing =>
              \/ clock < link.accepted + Lifetime
              \/ b # Nothing,
           link.accepted = Nothing => b # Nothing /\ b = anchor /\ b.by = "body",
           s.body # Nothing => link.to = s.body.area /\ ~link.clears
    PROVE  LinkHolds(link, b, s)
<1>1. clock \in Nat /\ Lifetime \in Nat /\ evaluated \in Nat /\ evaluated <= clock
  BY WindowAssumption DEF IInv, TypeOK, Instant, InThePast
<1>2. /\ link \in Link /\ link.anchored \in Nat
      /\ link.accepted # Nothing => link.accepted \in Nat
  BY DEF IInv, TypeOK, Link, Instant
<1>3. link.track = Nothing /\ link.bodyAt = Nothing
  BY DEF IInv, VisualIsAnonymous, IsVisual
<1>4. captureAfter # Nothing => link.anchored > captureAfter
  BY DEF IInv, AnchorsAreNew
<1>5. CASE link.accepted = Nothing
  <2>1. b.at = link.anchored /\ clock - b.at < Lifetime
    BY <1>5 DEF IInv, UnlatchedIsAnchored, AnchorHolds
  <2> QED
    BY <1>2, <1>3, <1>4, <1>5, <2>1 DEF LinkHolds, ClockOf
<1>6. CASE link.accepted # Nothing
  <2>1. link.accepted - link.anchored < Lifetime
    BY <1>6 DEF IInv, LinksEnd
  <2>2. /\ carried /\ link.accepted <= evaluated
        /\ anchor # Nothing => anchor.at <= link.accepted
        /\ anchor # Nothing /\ anchor.at = link.anchored =>
              anchor.accepted = link.accepted /\ anchor.acceptedArea = link.to
    BY <1>6 DEF IInv, LatchIsRemembered
  <2>3. link.accepted <= clock
    BY <1>1, <1>2, <1>6, <2>2
  <2>4. s.body = Nothing /\ b # Nothing =>
           b = anchor /\ b \in Anchor /\ b.at \in Nat /\ clock - b.at < Lifetime
    BY <2>2 DEF AnchorHolds, Anchor, Instant
  <2>5. s.body = Nothing => clock - link.accepted < Lifetime
    <3>1. CASE s.body = Nothing /\ b # Nothing
      BY <1>1, <1>2, <1>6, <2>2, <2>4, <3>1
    <3>2. CASE s.body = Nothing /\ b = Nothing
      BY <1>1, <1>2, <1>6, <3>2
    <3> QED
      BY <3>1, <3>2
  <2>6. ClockOf(link) = link.accepted
    BY <1>3, <1>6 DEF ClockOf
  <2> QED
    BY <1>2, <1>3, <1>4, <1>6, <2>1, <2>2, <2>3, <2>4, <2>5, <2>6 DEF LinkHolds
<1> QED
  BY <1>5, <1>6

\* A new link of an anchor that has not come of age.
LEMMA EarnedFacts ==
    ASSUME IInv, NEW s \in Scenes, SceneIsPast(s), NEW b, AnchorHolds(b, s), b # Nothing,
           b.by = "body" \/ ~IsVisual(link), NEW to \in Area,
           s.body # Nothing => to = s.body.area /\ b.by = "body"
    PROVE  LinkHolds(NewLink(b, s, to), b, s)
<1> DEFINE l == NewLink(b, s, to)
<1>1. clock \in Nat /\ Lifetime \in Nat
  BY WindowAssumption DEF IInv, TypeOK, Instant
<1>2. /\ b \in Anchor /\ b.at \in Nat /\ clock - b.at < Lifetime /\ b.at <= clock
      /\ b.accepted # Nothing =>
            b.accepted \in Nat /\ b.at <= b.accepted /\ b.accepted <= clock
  BY DEF AnchorHolds, Anchor, Instant
<1>3. /\ l \in Link /\ l.anchored = b.at /\ l.to = to
      /\ l.clears <=> b.by # "body"
      /\ l.accepted = IF b.acceptedArea = to THEN b.accepted ELSE Nothing
      /\ l.track = Nothing /\ l.bodyAt = Nothing
  BY <1>2, NewLinkFacts DEF IInv
<1> SUFFICES LinkHolds(l, b, s)
  OBVIOUS
<1> HIDE DEF l
<1>4. captureAfter # Nothing => b.at > captureAfter
  BY DEF AnchorHolds
<1>5. CASE l.accepted = Nothing
  BY <1>2, <1>3, <1>4, <1>5 DEF LinkHolds, ClockOf
<1>6. CASE l.accepted # Nothing
  <2>1. /\ l.accepted = b.accepted /\ b.acceptedArea = l.to /\ b.accepted \in Nat
        /\ b.at <= b.accepted /\ b.accepted <= clock
    BY <1>2, <1>3, <1>6
  <2>2. clock - b.accepted < Lifetime /\ b.accepted - b.at < Lifetime
    BY <1>1, <1>2, <2>1
  <2>3. ClockOf(l) = b.accepted
    BY <1>3, <1>6, <2>1 DEF ClockOf
  <2> QED
    BY <1>2, <1>3, <1>4, <1>6, <2>1, <2>2, <2>3 DEF LinkHolds
<1> QED
  BY <1>5, <1>6

LEMMA LinkFacts ==
    ASSUME IInv, NEW s \in Scenes, SceneIsPast(s), NEW b, AnchorHolds(b, s), NEW l,
           IsCompleted(l, s) \/ IsChain(l, b, s) \/ IsTransfer(l, b, s) \/ IsCorrelation(l, b, s)
    PROVE  LinkHolds(l, b, s)
<1>1. link # Nothing /\ ~link.clears => ~IsVisual(link)
  BY DEF IInv, VisualIsAnonymous
<1>2. CASE IsCompleted(l, s)
  BY <1>1, <1>2, KeptFacts DEF IsCompleted
<1>3. CASE IsChain(l, b, s)
  <2>1. /\ b # Nothing /\ b.by # "body" /\ s.body = Nothing
        /\ l \in Link /\ l.track # Nothing /\ l.bodyAt # Nothing /\ l.clears
        /\ l.bodyAt <= clock /\ clock - l.bodyAt < Lifetime
    BY <1>3 DEF IsChain
  <2>2. ClockOf(l) = l.bodyAt
    BY <2>1 DEF ClockOf
  <2>3. CASE /\ IsVisual(link) /\ link.bodyAt <= l.bodyAt
             /\ l.anchored = link.anchored /\ l.accepted = link.accepted /\ l.to = link.to
    <3>1. link # Nothing /\ link \in Link /\ link.bodyAt # Nothing
      BY <2>3 DEF IsVisual, IInv, TypeOK, VisualIsAnonymous
    <3>2. l.anchored <= l.bodyAt
      <4>1. link.anchored <= link.bodyAt
        BY <2>3 DEF IInv, FramesAreOrdered
      <4>2. link.anchored \in Nat /\ link.bodyAt \in Nat /\ l.bodyAt \in Nat
        BY <2>1, <3>1 DEF Link, Instant
      <4> QED
        BY <2>3, <4>1, <4>2
    <3>3. captureAfter # Nothing => l.anchored > captureAfter
      BY <2>3, <3>1 DEF IInv, AnchorsAreNew
    <3>4. l.accepted # Nothing =>
             /\ l.accepted <= clock /\ b.at <= l.accepted
             /\ b.at = l.anchored => b.accepted = l.accepted /\ b.acceptedArea = l.to
      <4> SUFFICES ASSUME l.accepted # Nothing
                   PROVE  /\ l.accepted <= clock /\ b.at <= l.accepted
                          /\ b.at = l.anchored =>
                                b.accepted = l.accepted /\ b.acceptedArea = l.to
        OBVIOUS
      <4>1. carried /\ link.accepted <= evaluated
        BY <2>3, <3>1 DEF IInv, LatchIsRemembered
      <4>2. b = anchor
        BY <2>1, <4>1 DEF AnchorHolds
      <4>3. link.accepted <= clock
        BY <2>3, <3>1, <4>1 DEF IInv, InThePast, TypeOK, Link, Instant
      <4> QED
        BY <2>1, <2>3, <3>1, <4>2, <4>3 DEF IInv, LatchIsRemembered
    <3> QED
      BY <2>1, <2>2, <3>2, <3>3, <3>4 DEF LinkHolds
  <2>4. CASE ~IsVisual(link) /\ l.anchored = b.at /\ l.accepted = Nothing /\ b.at <= l.bodyAt
    <3>1. captureAfter # Nothing => l.anchored > captureAfter
      BY <2>1, <2>4 DEF AnchorHolds
    <3> QED
      BY <2>1, <2>2, <2>4, <3>1 DEF LinkHolds
  <2> QED
    BY <1>3, <2>3, <2>4 DEF IsChain
<1>4. CASE IsTransfer(l, b, s)
  <2>1. /\ b # Nothing /\ b.by = "body" /\ s.phone \in Area /\ s.phone # b.area
        /\ s.body = Nothing \/ s.body.area = s.phone
    BY <1>4 DEF IsTransfer
  <2>2. b = anchor
    BY <2>1 DEF AnchorHolds
  <2>3. CASE link # Nothing /\ l = link /\ ~link.clears /\ link.to = s.phone
    BY <1>1, <2>1, <2>2, <2>3, KeptFacts
  <2>4. CASE l = NewLink(b, s, s.phone)
    BY <2>1, <2>4, EarnedFacts
  <2> QED
    BY <1>4, <2>3, <2>4 DEF IsTransfer
<1>5. CASE IsCorrelation(l, b, s)
  <2>1. b # Nothing /\ ~IsVisual(link) /\ s.body = Nothing
    BY <1>5 DEF IsCorrelation
  <2>2. CASE link # Nothing /\ l = link /\ link.accepted # Nothing
    BY <2>1, <2>2, KeptFacts
  <2>3. CASE \E d \in Area : l = NewLink(b, s, d)
    BY <2>1, <2>3, EarnedFacts
  <2> QED
    BY <1>5, <2>2, <2>3 DEF IsCorrelation
<1> QED
  BY <1>2, <1>3, <1>4, <1>5

-----------------------------------------------------------------------------
(***************************************************************************)
(* The invariant is inductive.                                             *)
(***************************************************************************)

LEMMA ResolveKeepsIInv ==
    ASSUME IInv, NEW s \in Scenes, Resolve(s)
    PROVE  IInv'
<1>1. TypeOK /\ InThePast /\ VisualIsAnonymous /\ FramesAreOrdered
  BY DEF IInv
<1>2. SceneIsPast(s)
  BY <1>1, ResolveFacts
<1>3. PICK b, l : \E supported \in BOOLEAN : Resolved(b, l, supported, s)
  BY <1>1, ResolveFacts
<1>4. PICK supported \in BOOLEAN : Resolved(b, l, supported, s)
  BY <1>3
<1>5. AnchorHolds(b, s)
  BY <1>2, <1>4, AnchorFacts DEF Resolved
<1>6. l # Nothing => LinkHolds(l, b, s)
  BY <1>2, <1>4, <1>5, LinkFacts DEF Resolved
<1>7. /\ evaluated' = clock /\ clock' = clock /\ captureAfter' = captureAfter
      /\ carried' = supported
      /\ seen' = IF s.body = Nothing THEN Nothing ELSE s.body.area
      /\ supported => l # Nothing /\ s.body = Nothing
      /\ Accept(b, l, supported)
  BY <1>4 DEF Resolved
<1>8. /\ clock \in Nat /\ clock \in Instant /\ clock # Nothing /\ Lifetime \in Nat
      /\ captureAfter \in Instant \cup {Nothing}
  BY NothingAssumption, WindowAssumption DEF IInv, TypeOK, Instant
<1>9. anchor' # Nothing =>
         /\ b # Nothing /\ anchor' \in Anchor
         /\ anchor'.at = b.at /\ anchor'.by = b.by
         /\ \/ anchor'.accepted = b.accepted /\ anchor'.acceptedArea = b.acceptedArea
            \/ /\ supported /\ l.accepted = Nothing /\ b.at = l.anchored
               /\ anchor'.accepted = clock /\ anchor'.acceptedArea = l.to
  <2>1. CASE supported /\ l.accepted = Nothing /\ b # Nothing /\ b.at = l.anchored
    <3>1. anchor' = [b EXCEPT !.accepted = clock, !.acceptedArea = l.to]
      BY <1>7, <2>1 DEF Accept
    <3>2. b \in Anchor /\ l.to \in Area
      BY <1>5, <1>6, <1>7, <2>1 DEF AnchorHolds, LinkHolds, Link
    <3>3. anchor' \in Anchor
      BY <1>8, <3>1, <3>2 DEF Anchor
    <3> QED
      BY <2>1, <3>1, <3>2, <3>3 DEF Anchor
  <2>2. CASE ~(supported /\ l.accepted = Nothing /\ b # Nothing /\ b.at = l.anchored)
    <3>1. anchor' = b
      BY <1>7, <2>2 DEF Accept
    <3> QED
      BY <1>5, <3>1 DEF AnchorHolds
  <2> QED
    BY <2>1, <2>2
<1>10. link' # Nothing /\ b # Nothing =>
          /\ anchor' # Nothing
          /\ supported /\ l.accepted = Nothing /\ b.at = l.anchored =>
                anchor'.accepted = clock /\ anchor'.acceptedArea = l.to
          /\ l.accepted # Nothing =>
                anchor'.accepted = b.accepted /\ anchor'.acceptedArea = b.acceptedArea
  <2>1. b # Nothing => b \in Anchor
    BY <1>5 DEF AnchorHolds
  <2>2. \A a \in Anchor : a # Nothing
    BY RecordAssumption
  <2>3. [b EXCEPT !.accepted = clock, !.acceptedArea = l.to] \in Anchor
           \/ ~(link' # Nothing /\ b # Nothing)
    <3>1. link' # Nothing => l.to \in Area
      BY <1>6, <1>7 DEF LinkHolds, Link, Accept
    <3> QED
      BY <1>8, <2>1, <3>1 DEF Anchor
  <2> QED
    BY <1>7, <2>1, <2>2, <2>3 DEF Accept, Anchor
<1>11. link' # Nothing =>
          /\ LinkHolds(l, b, s) /\ link' \in Link
          /\ link'.anchored = l.anchored /\ link'.to = l.to /\ link'.clears = l.clears
          /\ link'.track = l.track /\ link'.bodyAt = l.bodyAt
          /\ \/ supported /\ l.accepted = Nothing /\ link'.accepted = clock
             \/ supported /\ l.accepted # Nothing /\ link'.accepted = l.accepted
             \/ ~supported /\ l.accepted = Nothing /\ link'.accepted = Nothing
  <2> SUFFICES ASSUME link' # Nothing
               PROVE  /\ LinkHolds(l, b, s) /\ link' \in Link
                      /\ link'.anchored = l.anchored /\ link'.to = l.to
                      /\ link'.clears = l.clears
                      /\ link'.track = l.track /\ link'.bodyAt = l.bodyAt
                      /\ \/ supported /\ l.accepted = Nothing /\ link'.accepted = clock
                         \/ supported /\ l.accepted # Nothing /\ link'.accepted = l.accepted
                         \/ ~supported /\ l.accepted = Nothing /\ link'.accepted = Nothing
    OBVIOUS
  <2>1. l # Nothing /\ LinkHolds(l, b, s) /\ l \in Link
    BY <1>6, <1>7 DEF Accept, LinkHolds
  <2>2. CASE supported /\ l.accepted = Nothing
    <3>1. link' = [l EXCEPT !.accepted = clock]
      BY <1>7, <2>1, <2>2 DEF Accept
    <3> QED
      BY <1>8, <2>1, <2>2, <3>1 DEF Link
  <2>3. CASE ~(supported /\ l.accepted = Nothing)
    <3>1. link' = l /\ (l.accepted # Nothing => supported)
      BY <1>7, <2>1, <2>3 DEF Accept
    <3> QED
      BY <2>1, <2>3, <3>1
  <2> QED
    BY <2>2, <2>3
<1>12. link' # Nothing => (IsVisual(link') <=> l.track # Nothing)
  BY <1>11 DEF IsVisual
<1>13. link' # Nothing /\ s.body # Nothing => link'.accepted = Nothing /\ l.accepted = Nothing
  BY <1>7, <1>11
<1>14. TypeOK'
  <2>1. clock' \in Instant /\ evaluated' \in Instant /\ captureAfter' \in Instant \cup {Nothing}
    BY <1>7, <1>8
  <2>2. anchor' \in Anchor \cup {Nothing} /\ link' \in Link \cup {Nothing}
    BY <1>9, <1>11
  <2>3. seen' \in Area \cup {Nothing} /\ carried' \in BOOLEAN
    BY <1>2, <1>7 DEF SceneIsPast
  <2>4. hint' \in Area \cup {Nothing}
    BY <1>2 DEF Resolve, Suggested, SceneIsPast, IInv, TypeOK
  <2>5. spent' \in Track \cup {Nothing}
    <3>1. IsVisual(link) => link.track \in Track
      BY DEF IInv, TypeOK, IsVisual, Link
    <3> QED
      BY <3>1 DEF Resolve, IInv, TypeOK
  <2> QED
    BY <2>1, <2>2, <2>3, <2>4, <2>5 DEF TypeOK
<1>15. InThePast'
  BY <1>7, <1>8 DEF InThePast, IInv, Instant
<1>16. AnchorIsOrdered'
  <2> SUFFICES ASSUME anchor' # Nothing
               PROVE  /\ anchor'.at <= clock
                      /\ anchor'.accepted = Nothing <=> anchor'.acceptedArea = Nothing
                      /\ anchor'.accepted # Nothing =>
                            anchor'.at <= anchor'.accepted /\ anchor'.accepted <= clock
    BY <1>7 DEF AnchorIsOrdered
  <2>1. /\ b.at <= clock
        /\ b.accepted = Nothing <=> b.acceptedArea = Nothing
        /\ b.accepted # Nothing => b.at <= b.accepted /\ b.accepted <= clock
    BY <1>5, <1>9 DEF AnchorHolds
  <2>2. supported => l.to # Nothing
    BY <1>6, <1>7, NothingAssumption DEF LinkHolds, Link
  <2> QED
    BY <1>8, <1>9, <2>1, <2>2
<1>17. VisualIsAnonymous'
  <2>1. CASE link' = Nothing
    BY <2>1 DEF VisualIsAnonymous
  <2>2. CASE link' # Nothing
    <3>1. /\ l.track = Nothing <=> l.bodyAt = Nothing
          /\ l.track # Nothing => l.clears /\ b # Nothing /\ b.by # "body"
      BY <1>11, <2>2 DEF LinkHolds
    <3> QED
      BY <1>9, <1>10, <1>11, <1>12, <2>2, <3>1 DEF VisualIsAnonymous
  <2> QED
    BY <2>1, <2>2
<1>18. LatchIsRemembered'
  <2>1. CASE link' = Nothing \/ link'.accepted = Nothing
    BY <2>1 DEF LatchIsRemembered
  <2>2. CASE link' # Nothing /\ link'.accepted # Nothing
    <3>1. supported /\ s.body = Nothing
      BY <1>7, <1>11, <2>2
    <3>2. anchor' # Nothing => b # Nothing /\ anchor'.at = b.at /\ b.at <= clock
      BY <1>5, <1>9 DEF AnchorHolds
    <3>3. CASE l.accepted = Nothing
      BY <1>7, <1>8, <1>10, <1>11, <2>2, <3>1, <3>2, <3>3 DEF LatchIsRemembered
    <3>4. CASE l.accepted # Nothing
      <4>1. /\ l.accepted <= clock
            /\ b # Nothing => b.at <= l.accepted
            /\ b # Nothing /\ b.at = l.anchored =>
                  b.accepted = l.accepted /\ b.acceptedArea = l.to
        BY <1>11, <2>2, <3>1, <3>4 DEF LinkHolds
      <4> QED
        BY <1>7, <1>10, <1>11, <2>2, <3>1, <3>2, <3>4, <4>1 DEF LatchIsRemembered
    <3> QED
      BY <3>3, <3>4
  <2> QED
    BY <2>1, <2>2
<1>19. UnlatchedIsAnchored'
  <2> SUFFICES ASSUME link' # Nothing, ~IsVisual(link'), link'.accepted = Nothing
               PROVE  anchor' # Nothing /\ anchor'.at = link'.anchored
    BY DEF UnlatchedIsAnchored, IsVisual
  <2>1. l.track = Nothing /\ l.accepted = Nothing
    BY <1>8, <1>11, <1>12
  <2>2. b # Nothing /\ b.at = l.anchored
    BY <1>11, <2>1 DEF LinkHolds
  <2> QED
    BY <1>9, <1>10, <1>11, <2>2
<1>20. FramesAreOrdered'
  <2> SUFFICES ASSUME link' # Nothing, IsVisual(link')
               PROVE  link'.anchored <= link'.bodyAt /\ link'.bodyAt <= clock
    BY <1>7 DEF FramesAreOrdered, IsVisual
  <2> QED
    BY <1>11, <1>12 DEF LinkHolds
<1>21. LinksEnd'
  <2>1. CASE link' = Nothing
    BY <2>1 DEF LinksEnd
  <2>2. CASE link' # Nothing
    <3>1. clock - ClockOf(l) < Lifetime
      BY <1>11, <1>13, <2>2 DEF LinkHolds
    <3>2. CASE l.track # Nothing
      <4>1. IsVisual(link') /\ l.bodyAt # Nothing /\ link'.bodyAt = l.bodyAt
        BY <1>11, <1>12, <2>2, <3>2 DEF LinkHolds
      <4>2. ClockOf(link') = ClockOf(l)
        BY <4>1 DEF ClockOf
      <4>3. ClockOf(link)' = ClockOf(link')
        BY DEF ClockOf
      <4> QED
        BY <1>7, <3>1, <4>1, <4>2, <4>3 DEF LinksEnd, IsVisual
    <3>3. CASE l.track = Nothing
      <4>1. l.bodyAt = Nothing /\ link'.bodyAt = Nothing
        BY <1>11, <2>2, <3>3 DEF LinkHolds
      <4>2. CASE l.accepted = Nothing /\ supported
        <5>1. link'.accepted = clock /\ link'.anchored = l.anchored /\ clock - l.anchored < Lifetime
          BY <1>11, <2>2, <3>3, <4>2 DEF LinkHolds
        <5>2. clock - clock < Lifetime
          <6>1. l.anchored \in Nat /\ l.anchored <= clock
            <7>1. b # Nothing /\ b.at = l.anchored
              BY <1>11, <2>2, <3>3, <4>2 DEF LinkHolds
            <7> QED
              BY <1>5, <7>1 DEF AnchorHolds, Anchor, Instant
          <6> QED
            BY <1>8, <5>1, <6>1
        <5> QED
          BY <1>7, <1>8, <4>1, <5>1, <5>2 DEF LinksEnd, ClockOf
      <4>3. CASE ~(l.accepted = Nothing /\ supported)
        <5>1. link'.accepted = l.accepted /\ link'.anchored = l.anchored
          BY <1>11, <2>2, <4>3
        <5>2. l.accepted # Nothing => l.accepted - l.anchored < Lifetime
          BY <1>11, <2>2, <3>3 DEF LinkHolds
        <5> QED
          BY <1>7, <3>1, <4>1, <5>1, <5>2 DEF LinksEnd, ClockOf
      <4> QED
        BY <4>2, <4>3
    <3> QED
      BY <3>2, <3>3
  <2> QED
    BY <2>1, <2>2
<1>22. AnchorsAreNew'
  <2> SUFFICES ASSUME captureAfter # Nothing
               PROVE  /\ anchor' # Nothing => anchor'.at > captureAfter
                      /\ link' # Nothing => link'.anchored > captureAfter
    BY <1>7 DEF AnchorsAreNew
  <2> QED
    BY <1>5, <1>9, <1>11 DEF AnchorHolds, LinkHolds
<1>23. BodiesDecide'
  <2> SUFFICES ASSUME seen' # Nothing, link' # Nothing
               PROVE  link'.to = seen' /\ ~link'.clears /\ link'.accepted = Nothing
    BY DEF BodiesDecide
  <2>1. s.body # Nothing /\ seen' = s.body.area
    BY <1>7
  <2> QED
    BY <1>11, <1>13, <2>1 DEF LinkHolds
<1> QED
  BY <1>14, <1>15, <1>16, <1>17, <1>18, <1>19, <1>20, <1>21, <1>22, <1>23 DEF IInv

LEMMA TickKeepsIInv ==
    ASSUME IInv, Tick
    PROVE  IInv'
<1>1. /\ clock' = clock + 1 /\ clock < MaxClock
      /\ UNCHANGED <<captureAfter, anchor, link, hint, seen, carried, evaluated, spent>>
  BY DEF Tick
<1>2. clock \in Nat /\ clock' \in Instant
  BY <1>1, WindowAssumption DEF IInv, TypeOK, Instant
<1>3. TypeOK'
  BY <1>1, <1>2 DEF IInv, TypeOK
<1>4. InThePast'
  BY <1>1, <1>2 DEF IInv, TypeOK, InThePast, Instant
<1>5. /\ AnchorIsOrdered' /\ VisualIsAnonymous' /\ LatchIsRemembered'
      /\ UnlatchedIsAnchored' /\ FramesAreOrdered'
  BY <1>1 DEF IInv, AnchorIsOrdered, VisualIsAnonymous, LatchIsRemembered,
              UnlatchedIsAnchored, FramesAreOrdered, IsVisual
<1>6. LinksEnd' /\ AnchorsAreNew' /\ BodiesDecide'
  BY <1>1 DEF IInv, LinksEnd, AnchorsAreNew, BodiesDecide, IsVisual, ClockOf
<1> QED
  BY <1>3, <1>4, <1>5, <1>6 DEF IInv

\* Without an anchor and a link most of the invariant says nothing.
LEMMA RestartKeepsIInv ==
    ASSUME IInv, Restart
    PROVE  IInv'
<1>1. /\ anchor' = Nothing /\ link' = Nothing /\ hint' = Nothing /\ seen' = Nothing
      /\ carried' = FALSE /\ spent' = Nothing
      /\ captureAfter' = clock /\ evaluated' = clock /\ clock' = clock
  BY DEF Restart
<1>2. clock \in Instant /\ clock <= clock
  BY DEF IInv, TypeOK, Instant
<1>3. TypeOK' /\ InThePast'
  BY <1>1, <1>2 DEF TypeOK, InThePast
<1>4. /\ AnchorIsOrdered' /\ VisualIsAnonymous' /\ LatchIsRemembered'
      /\ UnlatchedIsAnchored' /\ FramesAreOrdered'
  BY <1>1 DEF AnchorIsOrdered, VisualIsAnonymous, LatchIsRemembered,
              UnlatchedIsAnchored, FramesAreOrdered, IsVisual
<1>5. LinksEnd' /\ AnchorsAreNew' /\ BodiesDecide'
  BY <1>1 DEF LinksEnd, AnchorsAreNew, BodiesDecide
<1> QED
  BY <1>3, <1>4, <1>5 DEF IInv

LEMMA InitIInv == Init => IInv
<1> SUFFICES ASSUME Init PROVE IInv
  OBVIOUS
<1>1. 0 \in Instant /\ 0 <= 0
  BY WindowAssumption DEF Instant
<1>2. TypeOK /\ InThePast
  BY <1>1 DEF Init, TypeOK, InThePast
<1>3. /\ AnchorIsOrdered /\ VisualIsAnonymous /\ LatchIsRemembered
      /\ UnlatchedIsAnchored /\ FramesAreOrdered
  BY DEF Init, AnchorIsOrdered, VisualIsAnonymous, LatchIsRemembered,
         UnlatchedIsAnchored, FramesAreOrdered, IsVisual
<1>4. LinksEnd /\ AnchorsAreNew /\ BodiesDecide
  BY DEF Init, LinksEnd, AnchorsAreNew, BodiesDecide
<1> QED
  BY <1>2, <1>3, <1>4 DEF IInv

LEMMA NextIInv == IInv /\ [Next]_vars => IInv'
<1> SUFFICES ASSUME IInv, [Next]_vars PROVE IInv'
  OBVIOUS
<1>1. CASE Tick
  BY <1>1, TickKeepsIInv
<1>2. CASE Restart
  BY <1>2, RestartKeepsIInv
<1>3. CASE \E s \in Scenes : Resolve(s)
  BY <1>3, ResolveKeepsIInv
<1>4. CASE UNCHANGED vars
  BY <1>4 DEF vars, IInv, TypeOK, InThePast, AnchorIsOrdered, VisualIsAnonymous,
              LatchIsRemembered, UnlatchedIsAnchored, FramesAreOrdered, IsVisual,
              LinksEnd, ClockOf, AnchorsAreNew, BodiesDecide
<1> QED
  BY <1>1, <1>2, <1>3, <1>4 DEF Next

LEMMA Invariance == Spec => []IInv
<1>1. Init => IInv
  BY InitIInv
<1>2. IInv /\ [Next]_vars => IInv'
  BY NextIInv
<1> QED
  BY <1>1, <1>2, PTL DEF Spec

-----------------------------------------------------------------------------
(***************************************************************************)
(* The theorems.                                                           *)
(***************************************************************************)

\* The state is well formed (_Anchor, DeviceHandoff).
THEOREM TypeCorrect == Spec => []TypeOK
<1>1. IInv => TypeOK
  BY DEF IInv
<1> QED
  BY <1>1, Invariance, PTL

\* Every link ends a lifetime after its last body, whatever the signals say
\* since (update, _visual_handoff, accept).
THEOREM EveryLinkEnds == Spec => []LinksEnd
<1>1. IInv => LinksEnd
  BY DEF IInv
<1> QED
  BY <1>1, Invariance, PTL

\* Nothing from before a restart makes an anchor or a link (capture_after).
THEOREM RestartsNeedANewBody == Spec => []AnchorsAreNew
<1>1. IInv => AnchorsAreNew
  BY DEF IInv
<1> QED
  BY <1>1, Invariance, PTL

\* The identified body of the owner ends every link that contradicts it or
\* rests on somebody anonymous (update).
THEOREM IdentifiedBodiesDecide == Spec => []BodiesDecide
<1>1. IInv => BodiesDecide
  BY DEF IInv
<1> QED
  BY <1>1, Invariance, PTL

\* Whenever there is a link, next_expiration names a later instant by which the
\* lifetime of the link is over.
THEOREM EveryEndIsArmed == Spec => []EndsAreArmed
<1>1. IInv => EndsAreArmed
  <2> SUFFICES ASSUME IInv, link # Nothing
               PROVE  \E d \in Deadlines : evaluated < d /\ d <= ClockOf(link) + Lifetime
    BY DEF EndsAreArmed
  <2>1. /\ link \in Link /\ evaluated - ClockOf(link) < Lifetime
        /\ evaluated \in Nat /\ Lifetime \in Nat
    BY WindowAssumption DEF IInv, TypeOK, LinksEnd, Instant
  <2> DEFINE d == ClockOf(link) + Lifetime
  <2>2. d \in Deadlines
    <3>1. CASE link.bodyAt # Nothing
      <4>1. IsVisual(link) /\ d = link.bodyAt + Lifetime
        BY <3>1 DEF IInv, VisualIsAnonymous, IsVisual, ClockOf
      <4> QED
        BY <4>1 DEF Deadlines
    <3>2. CASE link.bodyAt = Nothing /\ link.accepted # Nothing
      <4>1. d = link.accepted + Lifetime
        BY <3>2 DEF ClockOf
      <4> QED
        BY <3>2, <4>1 DEF Deadlines
    <3>3. CASE link.bodyAt = Nothing /\ link.accepted = Nothing
      <4>1. ~IsVisual(link) /\ d = link.anchored + Lifetime
        BY <3>3 DEF IInv, VisualIsAnonymous, IsVisual, ClockOf
      <4>2. anchor # Nothing /\ anchor.at = link.anchored
        BY <3>3, <4>1 DEF IInv, UnlatchedIsAnchored
      <4> QED
        BY <4>1, <4>2 DEF Deadlines
    <3> QED
      BY <3>1, <3>2, <3>3
  <2>3. ClockOf(link) \in Nat
    BY <2>1 DEF ClockOf, Link, Instant
  <2>4. evaluated < d /\ d <= ClockOf(link) + Lifetime
    BY <2>1, <2>3
  <2> QED
    BY <2>2, <2>4
<1> QED
  BY <1>1, Invariance, PTL

\* What a resolution may do to a link whose anchor stands.
LEMMA ResolveEarnsClocks ==
    ASSUME IInv, NEW s \in Scenes, Resolve(s),
           link # Nothing, link' # Nothing, link'.anchored = link.anchored,
           anchor' # Nothing, anchor'.at = link.anchored
    PROVE  /\ IsVisual(link) /\ IsVisual(link') =>
                 link'.bodyAt - link.bodyAt \in 0 .. Lifetime - 1
           /\ ~IsVisual(link') /\ link.accepted # Nothing /\ link'.to = link.to =>
                 link'.accepted = link.accepted
<1>1. TypeOK /\ InThePast /\ VisualIsAnonymous /\ FramesAreOrdered
  BY DEF IInv
<1>2. SceneIsPast(s)
  BY <1>1, ResolveFacts
<1>3. PICK b, l : \E supported \in BOOLEAN : Resolved(b, l, supported, s)
  BY <1>1, ResolveFacts
<1>4. PICK supported \in BOOLEAN : Resolved(b, l, supported, s)
  BY <1>3
<1>5. AnchorHolds(b, s)
  BY <1>2, <1>4, AnchorFacts DEF Resolved
<1>6. /\ b # Nothing /\ b \in Anchor /\ b.at = link.anchored
  BY <1>4, <1>5 DEF Resolved, Accept, AnchorHolds, Anchor
<1>7. /\ l # Nothing /\ LinkHolds(l, b, s) /\ l \in Link
      /\ IsCompleted(l, s) \/ IsChain(l, b, s) \/ IsTransfer(l, b, s) \/ IsCorrelation(l, b, s)
  <2>1. l # Nothing
    BY <1>4 DEF Resolved, Accept
  <2> QED
    BY <1>2, <1>4, <1>5, <2>1, LinkFacts DEF Resolved, LinkHolds
<1>8. /\ link'.track = l.track /\ link'.bodyAt = l.bodyAt /\ link'.to = l.to
      /\ l.accepted # Nothing => link'.accepted = l.accepted /\ supported /\ s.body = Nothing
  BY <1>4, <1>7 DEF Resolved, Accept, Link
<1>9. clock \in Nat /\ Lifetime \in Nat /\ Window \in 1 .. Lifetime
  BY WindowAssumption DEF IInv, TypeOK, Instant
<1>10. link \in Link /\ (link.bodyAt # Nothing => link.bodyAt \in Nat) /\ link.anchored \in Nat
  BY DEF IInv, TypeOK, Link, Instant
<1>11. ASSUME IsVisual(link), IsVisual(link')
       PROVE  link'.bodyAt - link.bodyAt \in 0 .. Lifetime - 1
  <2>1. l.track # Nothing /\ link.bodyAt \in Nat /\ link.clears /\ link.anchored <= link.bodyAt
    BY <1>8, <1>10, <1>11 DEF IInv, VisualIsAnonymous, FramesAreOrdered, IsVisual
  <2>2. IsChain(l, b, s)
    <3>1. ~IsCompleted(l, s)
      BY <2>1 DEF IsCompleted
    <3>2. ~IsCorrelation(l, b, s)
      BY <1>11 DEF IsCorrelation
    <3>3. ~IsTransfer(l, b, s)
      BY <1>2, <1>6, <2>1, NewLinkFacts, <1>1 DEF IsTransfer
    <3> QED
      BY <1>7, <3>1, <3>2, <3>3
  <2>3. /\ link.bodyAt <= l.bodyAt /\ l.bodyAt <= clock /\ l.bodyAt \in Nat
    BY <1>7, <1>11, <2>2 DEF IsChain, Link, Instant
  <2>4. clock - link.bodyAt < Lifetime
    <3>1. CASE Survivor(b)
      <4>1. clock - LaterOf(b.at, link.bodyAt) < Lifetime
        BY <1>11, <3>1 DEF Survivor
      <4>2. LaterOf(b.at, link.bodyAt) = link.bodyAt
        BY <1>6, <1>10, <2>1 DEF LaterOf
      <4> QED
        BY <4>1, <4>2
    <3>2. CASE Fresh(b, s)
      BY <1>6, <1>9, <1>10, <2>1, <3>2 DEF Fresh
    <3> QED
      BY <1>4, <1>6, <3>1, <3>2 DEF Resolved
  <2> QED
    BY <1>8, <1>9, <2>1, <2>3, <2>4
<1>12. ASSUME ~IsVisual(link'), link.accepted # Nothing, link'.to = link.to
       PROVE  link'.accepted = link.accepted
  <2>1. l.track = Nothing
    BY <1>8, <1>12 DEF IsVisual
  <2>2. carried
    BY <1>12 DEF IInv, LatchIsRemembered
  <2>3. b = anchor
    <3>1. CASE s.body = Nothing
      BY <1>5, <1>6, <2>2, <3>1 DEF AnchorHolds
    <3>2. CASE s.body # Nothing
      <4>1. IsTransfer(l, b, s)
        BY <1>7, <3>2 DEF IsCompleted, IsChain, IsCorrelation
      <4> QED
        BY <1>5, <1>6, <4>1 DEF AnchorHolds, IsTransfer
    <3> QED
      BY <3>1, <3>2
  <2>4. b.accepted = link.accepted /\ b.acceptedArea = link.to
    BY <1>6, <1>12, <2>3 DEF IInv, LatchIsRemembered
  <2>5. l = link \/ \E d \in Area : l = NewLink(b, s, d)
    BY <1>7, <2>1 DEF IsCompleted, IsChain, IsTransfer, IsCorrelation
  <2>6. l.accepted = link.accepted
    <3>1. CASE l = link
      BY <3>1
    <3>2. CASE \E d \in Area : l = NewLink(b, s, d)
      <4>1. PICK d \in Area : l = NewLink(b, s, d)
        BY <3>2
      <4>2. l.to = d /\ l.accepted = IF b.acceptedArea = d THEN b.accepted ELSE Nothing
        BY <1>1, <1>2, <1>6, <4>1, NewLinkFacts
      <4> QED
        BY <1>8, <1>12, <2>4, <4>2
    <3> QED
      BY <2>5, <3>1, <3>2
  <2> QED
    BY <1>8, <1>12, <2>6
<1> QED
  BY <1>11, <1>12

\* The clock of a chain only goes forward, over no gap of a lifetime, and a
\* latched arrival keeps its deadline, while the anchor stands (accept,
\* _visual_handoff).
THEOREM NoClockIsRenewed == Spec => ClocksAreEarned
<1> DEFINE Earns ==
        (/\ link # Nothing /\ link' # Nothing /\ link'.anchored = link.anchored
         /\ anchor' # Nothing /\ anchor'.at = link.anchored) =>
        /\ IsVisual(link) /\ IsVisual(link') =>
              link'.bodyAt - link.bodyAt \in 0 .. Lifetime - 1
        /\ ~IsVisual(link') /\ link.accepted # Nothing /\ link'.to = link.to =>
              link'.accepted = link.accepted
<1>1. IInv /\ [Next]_vars => [Earns]_vars
  <2> SUFFICES ASSUME IInv, Next PROVE Earns \/ UNCHANGED vars
    OBVIOUS
  <2>1. CASE Tick
    <3>1. link' = link
      BY <2>1 DEF Tick
    <3>2. IsVisual(link) => link.bodyAt - link.bodyAt \in 0 .. Lifetime - 1
      <4>1. IsVisual(link) => link.bodyAt \in Nat
        BY DEF IInv, TypeOK, VisualIsAnonymous, IsVisual, Link, Instant
      <4>2. Lifetime \in Nat /\ Lifetime > 0
        BY WindowAssumption
      <4> QED
        BY <4>1, <4>2
    <3> QED
      BY <3>1, <3>2
  <2>2. CASE Restart
    BY <2>2 DEF Restart
  <2>3. CASE \E s \in Scenes : Resolve(s)
    BY <2>3, ResolveEarnsClocks
  <2> QED
    BY <2>1, <2>2, <2>3 DEF Next
<1> QED
  BY <1>1, Invariance, PTL DEF Spec, ClocksAreEarned

=============================================================================
