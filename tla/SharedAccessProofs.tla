------------------------ MODULE SharedAccessProofs -------------------------
(***************************************************************************)
(* No access an event took comes back by a listing, a retry or a restart,  *)
(* for any number of shares, listers, events, faults and crashes: Inv of   *)
(* SharedAccess is inductive, and FailClosed and DeniedAtOnce follow.      *)
(***************************************************************************)
EXTENDS SharedAccess, TLAPS

(* Whom an event denies is a set of roots; an event that denies somebody    *)
(* starts a generation.                                                     *)
LEMMA DeniesType ==
  ASSUME NEW e \in Events
  PROVE  Denies(e) \subseteq Roots
BY DEF Events, Denies

(* Seeing later, or looking at fewer events, keeps SeenSince.               *)
LEMMA SeenFewer ==
  ASSUME NEW r, NEW asOf \in Nat, NEW n \in Nat, NEW m \in Nat, m <= n, SeenSince(r, asOf, n)
  PROVE  SeenSince(r, asOf, m)
BY DEF SeenSince

(* What is seen at the end of the feed is newer than all of it.             *)
LEMMA SeenNow ==
  ASSUME NEW r, NEW n \in Nat, n <= Now, feed \in Seq(Events)
  PROVE  SeenSince(r, Now, n)
BY DEF SeenSince, Now

(* One event more, which does not deny r.                                   *)
LEMMA SeenMore ==
  ASSUME NEW r, NEW asOf \in Nat, NEW n \in Nat, SeenSince(r, asOf, n), r \notin Denies(feed[n + 1])
  PROVE  SeenSince(r, asOf, n + 1)
<1> SUFFICES ASSUME NEW i \in 1..n + 1, r \in Denies(feed[i]) PROVE i <= asOf
  BY DEF SeenSince
<1> QED
  BY DEF SeenSince

(* Events are only ever added to the feed: what the daemon has read of it    *)
(* stays.                                                                   *)
LEMMA SeenStays ==
  ASSUME TypeOK, FeedInStep, NEW e \in Events, feed' = Append(feed, e),
         NEW r \in Roots, NEW asOf \in Nat, NEW n \in Nat, n <= Now, SeenSince(r, asOf, n)
  PROVE  SeenSince(r, asOf, n)'
<1>1. \A i \in 1..n : feed'[i] = feed[i]
  BY DEF TypeOK, Now
<1>2. \A i \in 1..n : (r \in Denies(feed[i]))' <=> r \in Denies(feed[i])
  BY <1>1 DEF Denies
<1> QED
  BY <1>2 DEF SeenSince

LEMMA InitInv == Init => Inv
<1> SUFFICES ASSUME Init PROVE Inv
  OBVIOUS
<1>1. TypeOK
  <2>1. feed \in Seq(Events) /\ Now = 0
    BY DEF Init, Now
  <2>2. access \in [Roots -> Seen] /\ live \in [Roots -> Seen]
    BY SharedAssumption DEF Init, Seen, Level
  <2>3. answer \in [Roots -> Answer] /\ listing \in [Listers -> Listing]
    BY SharedAssumption DEF Init, Answer, Level, Unread, Listing
  <2>4. /\ role \in [Roots -> Roles] /\ rows \in [Roots -> Spots]
        /\ op \in [Roots -> {"none", "queued", "sent", "landed", "read", "done"}]
        /\ window \in [Roots -> {"none", "open", "over"}] /\ reported \in [Roots -> BOOLEAN]
    BY DEF Init, Roles, Spots
  <2>5. acking \in BOOLEAN /\ fresh \in BOOLEAN
    BY DEF Init
  <2> QED
    BY <2>1, <2>2, <2>3, <2>4, <2>5, SharedAssumption DEF Init, TypeOK
<1>2. FeedInStep /\ ListingsCurrent /\ AnswersCurrent /\ TreeCurrent /\ TableCurrent
  BY DEF Init, FeedInStep, ListingsCurrent, AnswersCurrent, TreeCurrent, TableCurrent, SeenSince, Idle, Now
<1> QED
  BY <1>1, <1>2 DEF Inv

-----------------------------------------------------------------------------
(* What a listing that has its nodes holds.                                 *)
LEMMA ListingShape ==
  ASSUME TypeOK, NEW l \in Listers, listing[l].step = "nodes"
  PROVE  /\ listing[l].generation \in Nat /\ listing[l].asOf \in 0..MaxEvents
         /\ listing[l].accepted \subseteq Roots /\ DOMAIN listing[l].roles \subseteq Roots
         /\ \A r \in DOMAIN listing[l].roles : listing[l].roles[r] \in Level
BY DEF TypeOK, Listing, Idle

(* What one that has the accepted roots holds.                              *)
LEMMA AcceptedShape ==
  ASSUME TypeOK, NEW l \in Listers, listing[l].step = "accepted"
  PROVE  listing[l].generation \in Nat /\ listing[l].accepted \subseteq Roots
BY DEF TypeOK, Listing, Idle

(* Giving a listing up.                                                     *)
LEMMA IdleType ==
  ASSUME TypeOK, NEW l \in Listers
  PROVE  [listing EXCEPT ![l] = Idle] \in [Listers -> Listing]
BY DEF TypeOK, Listing

(* What publish_shared_roots writes.                                        *)
LEMMA PublishedType ==
  ASSUME TypeOK, NEW l \in Listers, listing[l].step = "nodes"
  PROVE  /\ PublishedAccess(listing[l]) \in [Roots -> Seen]
         /\ PublishedRows(listing[l]) \in [Roots -> Spots]
<1>1. \A r \in DOMAIN listing[l].roles :
         [level |-> listing[l].roles[r], asOf |-> listing[l].asOf] \in Seen
  BY ListingShape DEF Seen
<1>2. Denied \in Seen
  BY SharedAssumption DEF Denied, Seen, Level
<1> QED
  BY <1>1, <1>2 DEF PublishedAccess, PublishedRows, TypeOK, Spots

(* A step keeps the types.                                                  *)
LEMMA TypeStep ==
  ASSUME TypeOK, FeedInStep, [Next]_vars
  PROVE  TypeOK'
<1> USE SharedAssumption
<1>0. CASE UNCHANGED vars
  BY <1>0 DEF TypeOK, vars, tables, tree, queue, Now
<1>1. ASSUME NEW r \in Roots, RoleChanges(r) PROVE TypeOK'
  BY <1>1 DEF TypeOK, RoleChanges, tables, tree, queue, Now, Told, Events
<1>2. ASSUME NEW r \in Roots, Withdraw(r) PROVE TypeOK'
  BY <1>2 DEF TypeOK, Withdraw, tables, tree, queue, Now, Told, Events, Roles
<1>3. ASSUME NEW r \in Roots, Write(r) PROVE TypeOK'
  BY <1>3 DEF TypeOK, Write, tables, tree, queue, Now
<1>4. ASSUME NEW r \in Roots, Elapse(r) PROVE TypeOK'
  BY <1>4 DEF TypeOK, Elapse, tables, tree, queue, Now
<1>5. ASSUME NEW r \in Roots, Admit(r) PROVE TypeOK'
  BY <1>5 DEF TypeOK, Admit, tables, tree, queue, Now
<1>6. ASSUME NEW r \in Roots, DeferDenied(r) PROVE TypeOK'
  BY <1>6 DEF TypeOK, DeferDenied, tables, tree, queue, Now, Defer
<1>7. ASSUME NEW r \in Roots, Resolve(r) PROVE TypeOK'
  BY <1>7 DEF TypeOK, Resolve, tables, tree, queue, Now, Defer, Spots
<1>8. ASSUME NEW r \in Roots, Land(r) PROVE TypeOK'
  BY <1>8 DEF TypeOK, Land, tables, tree, queue, Now
<1>9. ASSUME NEW r \in Roots, ReadBack(r) PROVE TypeOK'
  <2>1. answer' \in [Roots -> Answer]
    <3>1. role[r] # "none" => [level |-> role[r], asOf |-> Now, generation |-> generation] \in Answer
      BY DEF TypeOK, Answer, Roles, Level, Now
    <3> QED
      BY <1>9, <3>1 DEF TypeOK, ReadBack
  <2>2. op' \in [Roots -> {"none", "queued", "sent", "landed", "read", "done"}]
    BY <1>9 DEF TypeOK, ReadBack
  <2> QED
    BY <1>9, <2>1, <2>2 DEF TypeOK, ReadBack, tables, tree, Now
<1>10. ASSUME NEW r \in Roots, Place(r) PROVE TypeOK'
  <2>1. [level |-> answer[r].level, asOf |-> answer[r].asOf] \in Seen /\ Unread \in Answer
    BY DEF TypeOK, Answer, Seen, Unread, Level
  <2>2. /\ answer' \in [Roots -> Answer]
        /\ op' \in [Roots -> {"none", "queued", "sent", "landed", "read", "done"}]
    BY <1>10, <2>1 DEF TypeOK, Place
  <2>3. /\ access' \in [Roots -> Seen] /\ live' \in [Roots -> Seen] /\ rows' \in [Roots -> Spots]
        /\ overtaken' \subseteq Roots
    <3>1. CASE r \in resident
      <4>1. /\ access' = [access EXCEPT ![r] = [level |-> answer[r].level, asOf |-> answer[r].asOf]]
            /\ live' = [live EXCEPT ![r] = [level |-> answer[r].level, asOf |-> answer[r].asOf]]
            /\ rows' = [rows EXCEPT ![r] = "elsewhere"]
            /\ overtaken' \in {overtaken \cup {r}, overtaken \ {r}}
        BY <1>10, <3>1 DEF Place
      <4> QED
        BY <2>1, <4>1 DEF TypeOK, Spots
    <3>2. CASE r \notin resident
      BY <1>10, <3>2 DEF TypeOK, Place
    <3> QED
      BY <3>1, <3>2
  <2> QED
    BY <1>10, <2>2, <2>3 DEF TypeOK, Place, Now
<1>11. ASSUME NEW l \in Listers, Ask(l) PROVE TypeOK'
  BY <1>11 DEF TypeOK, Ask, tables, tree, queue, Now, Listing
<1>12. ASSUME NEW l \in Listers, Materialize(l) PROVE TypeOK'
  <2>1. listing' \in [Listers -> Listing]
    <3> DEFINE j == listing[l]
    <3>1. PICK omitted \in SUBSET j.accepted :
             listing' = [listing EXCEPT ![l] =
                [step |-> "nodes", generation |-> j.generation, accepted |-> j.accepted,
                 asOf |-> Now, roles |-> RolesOf(j.accepted \ omitted)]]
      BY <1>12 DEF Materialize
    <3>2. j.generation \in Nat /\ j.accepted \subseteq Roots
      BY <1>12, AcceptedShape DEF Materialize
    <3> HIDE DEF j
    <3>3. RolesOf(j.accepted \ omitted) \in UNION {[nodes -> Level] : nodes \in SUBSET Roots}
      <4> DEFINE nodes == {x \in j.accepted \ omitted : role[x] # "none"}
      <4>1. nodes \in SUBSET Roots /\ \A x \in nodes : role[x] \in Level
        BY <3>2 DEF TypeOK, Roles, Level
      <4>2. RolesOf(j.accepted \ omitted) = [x \in nodes |-> role[x]]
        BY DEF RolesOf
      <4> QED
        BY <4>1, <4>2
    <3>4. Now \in 0..MaxEvents
      BY DEF TypeOK, Now
    <3> QED
      BY <3>1, <3>2, <3>3, <3>4 DEF TypeOK, Listing
  <2> QED
    BY <1>12, <2>1 DEF TypeOK, Materialize, tables, tree, queue, Now
<1>13. ASSUME NEW l \in Listers, Overrun(l) PROVE TypeOK'
  BY <1>13 DEF TypeOK, Overrun, tables, tree, queue, Now, Listing
<1>14. ASSUME NEW l \in Listers, Publish(l) PROVE TypeOK'
  <2>1. access' \in [Roots -> Seen] /\ rows' \in [Roots -> Spots]
    BY <1>14, PublishedType DEF Publish
  <2>2. live' \in [Roots -> Seen]
    BY <1>14, PublishedType DEF Publish, TypeOK
  <2>3. resident' \subseteq Roots /\ overtaken' \subseteq Roots /\ fresh' \in BOOLEAN
    BY <1>14 DEF Publish, TypeOK
  <2> QED
    BY <1>14, <2>1, <2>2, <2>3, IdleType DEF TypeOK, Publish, Now
<1>15. ASSUME NEW l \in Listers, PublishFails(l) PROVE TypeOK'
  <2>1. live' \in [Roots -> Seen]
    BY <1>15 DEF TypeOK, PublishFails, Denied, Seen, Level
  <2> QED
    BY <1>15, <2>1, IdleType DEF TypeOK, PublishFails, tables, queue, Now
<1>16. ASSUME NEW l \in Listers, ReloadFails(l) PROVE TypeOK'
  BY <1>16, PublishedType, IdleType DEF TypeOK, ReloadFails, tree, queue, Now
<1>17. ASSUME NEW l \in Listers, ListingFails(l) PROVE TypeOK'
  BY <1>17 DEF TypeOK, ListingFails, tables, tree, queue, Now, Listing
<1>18. CASE Expire
  BY <1>18 DEF TypeOK, Expire, tables, tree, queue, Now
<1>19. CASE Apply
  BY <1>19 DEF TypeOK, Apply, tables, tree, queue, Now, Seen, Level, DenyLive, Denied, Bumped, Spots
<1>20. CASE ApplyFails
  BY <1>20 DEF TypeOK, ApplyFails, tables, tree, queue, Now, DenyLive, Denied, Seen, Level, Bumped
<1>21. CASE Acknowledge
  <2>1. cursor' \in 0..Now /\ applied' \in {cursor', cursor' + 1} /\ acking' \in BOOLEAN
    <3>1. cursor < Now /\ applied = cursor + 1
      BY <1>21 DEF TypeOK, FeedInStep, Acknowledge, Now
    <3>2. acking' \in BOOLEAN
      BY <1>21 DEF Acknowledge
    <3>3. cursor' \in {cursor, cursor + 1} /\ applied' = cursor + 1
      BY <1>21, <3>1 DEF Acknowledge
    <3>4. cursor \in Nat /\ Now \in Nat
      BY DEF TypeOK, Now
    <3>5. cursor' \in 0..Now /\ applied' \in {cursor', cursor' + 1}
      <4>1. CASE cursor' = cursor
        BY <3>1, <3>3, <3>4, <4>1
      <4>2. CASE cursor' = cursor + 1
        BY <3>1, <3>3, <3>4, <4>2
      <4> QED
        BY <3>3, <4>1, <4>2
    <3> QED
      BY <3>2, <3>5
  <2> QED
    BY <1>21, <2>1 DEF TypeOK, Acknowledge, tree, queue, Now
<1>22. CASE Crash
  <2>1. listing' \in [Listers -> Listing] /\ answer' \in [Roots -> Answer]
    BY <1>22 DEF Crash, Listing, Unread, Answer, Level
  <2>2. op' \in [Roots -> {"none", "queued", "sent", "landed", "read", "done"}]
    BY <1>22 DEF TypeOK, Crash
  <2>3. applied' \in {cursor', cursor' + 1} /\ acking' \in BOOLEAN /\ resident' \subseteq Roots
    BY <1>22 DEF TypeOK, Crash, tables
  <2> QED
    BY <1>22, <2>1, <2>2, <2>3 DEF TypeOK, Crash, tables, Now
<1> QED
  BY <1>0, <1>1, <1>2, <1>3, <1>4, <1>5, <1>6, <1>7, <1>8, <1>9, <1>10, <1>11, <1>12, <1>13, <1>14, <1>15, <1>16, <1>17, <1>18, <1>19, <1>20, <1>21, <1>22 DEF Next, List, ReadFeed, Drain

-----------------------------------------------------------------------------
(* The event the feed task is at is one of the feed, and whom it denies      *)
(* decides its generation.                                                  *)
LEMMA EventType ==
  ASSUME TypeOK, cursor < Now
  PROVE  /\ Event \in Events /\ Event = feed[cursor + 1] /\ Denies(Event) \subseteq Roots
         /\ Denies(Event) = {} => Bumped(Event) = generation
         /\ Denies(Event) # {} => Bumped(Event) = generation + 1
<1>1. Event \in Events
  BY DEF TypeOK, Now, Event
<1> QED
  BY <1>1, DeniesType DEF Event, Bumped

(* A step keeps the feed task in step with the feed.                         *)
LEMMA FeedStep ==
  ASSUME TypeOK, FeedInStep, [Next]_vars
  PROVE  FeedInStep'
<1>1. CASE feed' = feed /\ UNCHANGED <<cursor, applied, acking>>
  BY <1>1 DEF FeedInStep, Now
<1>2. ASSUME NEW r \in Roots, RoleChanges(r) \/ Withdraw(r) PROVE FeedInStep'
  <2>1. PICK e \in Events : feed' = Append(feed, e)
    BY <1>2 DEF RoleChanges, Withdraw, Told, Events
  <2>2. Len(feed') = Len(feed) + 1 /\ Len(feed) \in Nat
    BY <2>1 DEF TypeOK
  <2> QED
    BY <1>2, <2>2 DEF TypeOK, RoleChanges, Withdraw, FeedInStep, Now, tables
<1>3. CASE Apply \/ ApplyFails
  <2>1. cursor < Now /\ feed' = feed /\ cursor' = cursor /\ applied' = cursor + 1
    BY <1>3 DEF Apply, ApplyFails
  <2> QED
    BY <2>1 DEF TypeOK, FeedInStep, Now
<1>4. CASE Acknowledge \/ Crash
  BY <1>4 DEF Acknowledge, Crash, tables, TypeOK, FeedInStep, Now
<1> QED
  BY <1>1, <1>2, <1>3, <1>4 DEF Next, vars, tables, tree, queue, List, ReadFeed, Drain, Write,
     Elapse, Admit, DeferDenied, Resolve, Land, ReadBack, Place, Ask, Materialize, Overrun,
     Publish, PublishFails, ReloadFails, ListingFails, Expire

-----------------------------------------------------------------------------
(* Drive may add an event at any time, and nothing else touches the feed:    *)
(* what was seen since the events so far still is after the step.           *)
LEMMA SeenKept ==
  ASSUME TypeOK, FeedInStep, [Next]_vars,
         NEW r \in Roots, NEW asOf \in Nat, NEW n \in Nat, n <= Now, SeenSince(r, asOf, n)
  PROVE  \A i \in 1..n : r \in Denies(feed'[i]) => i <= asOf
<1>1. CASE feed' = feed
  BY <1>1 DEF SeenSince
<1>2. ASSUME NEW q \in Roots, RoleChanges(q) \/ Withdraw(q) PROVE \E e \in Events : feed' = Append(feed, e)
  BY <1>2 DEF RoleChanges, Withdraw, Told, Events
<1>3. ASSUME NEW e \in Events, feed' = Append(feed, e)
      PROVE \A i \in 1..n : r \in Denies(feed'[i]) => i <= asOf
  <2>1. \A i \in 1..n : feed'[i] = feed[i]
    BY <1>3 DEF TypeOK, Now
  <2> QED
    BY <2>1 DEF SeenSince
<1> QED
  BY <1>1, <1>2, <1>3 DEF Next, vars, List, ReadFeed, Drain, Write,
     Elapse, Admit, DeferDenied, Resolve, Land, ReadBack, Place, Ask, Materialize, Overrun,
     Publish, PublishFails, ReloadFails, ListingFails, Expire, Apply, ApplyFails, Acknowledge, Crash

(* The steps of Drive and of a queued write that leave the copies alone.     *)
Quiet(r) == \/ RoleChanges(r) \/ Withdraw(r) \/ Write(r) \/ Elapse(r) \/ Admit(r) \/ DeferDenied(r)
            \/ Resolve(r) \/ Land(r)

LEMMA QuietFrame ==
  ASSUME TypeOK, NEW r \in Roots, Quiet(r)
  PROVE  /\ UNCHANGED <<cursor, access, live, generation, applied, acking, listing, overtaken, answer>>
         /\ \A q \in Roots : op'[q] = "read" => op[q] = "read"
BY DEF Quiet, TypeOK, RoleChanges, Withdraw, Write, Elapse, Admit, DeferDenied, Resolve, Land,
       tables, tree, queue

(* A step does not take the generation back, and starts one when it tries    *)
(* to deny; or else no denial is among the events tried anew.                *)
LEMMA GenerationStep ==
  ASSUME TypeOK, FeedInStep, [Next]_vars
  PROVE  /\ generation' \in Nat /\ generation <= generation'
         /\ generation' = generation =>
              \/ applied' <= applied
              \/ /\ applied <= cursor + 1 /\ applied' = cursor + 1
                 /\ feed'[cursor + 1] = feed[cursor + 1] /\ Denies(feed[cursor + 1]) = {}
<1>1. CASE UNCHANGED <<generation, applied>>
  BY <1>1 DEF TypeOK
<1>2. CASE Apply \/ ApplyFails
  <2>1. cursor < Now /\ feed' = feed /\ generation' = Bumped(Event) /\ applied' = cursor + 1
    BY <1>2 DEF Apply, ApplyFails
  <2> QED
    BY <2>1, EventType DEF TypeOK
<1>3. CASE Crash
  BY <1>3 DEF Crash, TypeOK
<1> QED
  BY <1>1, <1>2, <1>3, QuietFrame DEF Next, vars, tree, List, ReadFeed, Drain, Quiet, ReadBack, Place,
     Ask, Materialize, Overrun, Publish, PublishFails, ReloadFails, ListingFails, Expire,
     Acknowledge

(* What was seen since every denial tried still is after a step that starts  *)
(* no generation.                                                           *)
LEMMA SeenInGeneration ==
  ASSUME TypeOK, FeedInStep, [Next]_vars, generation' = generation,
         NEW r \in Roots, NEW asOf \in Nat, SeenSince(r, asOf, applied)
  PROVE  \A i \in 1..applied' : r \in Denies(feed'[i]) => i <= asOf
<1>1. applied \in Nat /\ cursor \in Nat /\ applied <= Now /\ applied \in {cursor, cursor + 1}
  BY DEF TypeOK, FeedInStep, Now
<1>2. \A i \in 1..applied : r \in Denies(feed'[i]) => i <= asOf
  BY <1>1, SeenKept
<1>3. applied' \in Nat
  BY TypeStep DEF TypeOK
<1> QED
  BY <1>1, <1>2, <1>3, GenerationStep

-----------------------------------------------------------------------------
(* A listing that may still be published is newer than every denial tried.   *)
LEMMA ListingStep ==
  ASSUME Inv, [Next]_vars
  PROVE  ListingsCurrent'
<1> USE DEF Inv
<1> SUFFICES ASSUME NEW l \in Listers
             PROVE  /\ listing'[l] # Idle => listing'[l].generation <= generation'
                    /\ listing'[l].step = "nodes" /\ listing'[l].generation = generation' =>
                          \A r \in Roots : \A i \in 1..applied' :
                              r \in Denies(feed'[i]) => i <= listing'[l].asOf
  BY DEF ListingsCurrent, SeenSince, Current, Idle
<1>1. CASE listing'[l] = listing[l]
  <2>1. listing[l] # Idle => listing[l].generation \in Nat /\ listing[l].generation <= generation
    BY DEF TypeOK, ListingsCurrent, Listing
  <2>2. generation \in Nat /\ generation' \in Nat /\ generation <= generation'
    BY GenerationStep DEF TypeOK
  <2>3. ASSUME listing[l].step = "nodes", listing[l].generation = generation'
        PROVE  \A r \in Roots : \A i \in 1..applied' : r \in Denies(feed'[i]) => i <= listing[l].asOf
    <3>1. listing[l].asOf \in Nat /\ listing[l] # Idle
      BY <2>3, ListingShape DEF Idle
    <3>2. generation' = generation
      BY <2>1, <2>2, <2>3, <3>1
    <3>3. \A r \in Roots : SeenSince(r, listing[l].asOf, applied)
      BY <2>3, <3>2 DEF ListingsCurrent, Current
    <3> QED
      BY <3>1, <3>2, <3>3, SeenInGeneration
  <2> QED
    BY <1>1, <2>1, <2>2, <2>3
<1>2. CASE listing'[l] = Idle
  BY <1>2 DEF Idle
<1>3. CASE Ask(l)
  BY <1>3 DEF Ask, TypeOK, tree
<1>4. CASE Materialize(l)
  <2>1. /\ listing[l].step = "accepted" /\ listing'[l].generation = listing[l].generation
        /\ listing'[l].asOf = Now /\ feed' = feed /\ applied' = applied /\ generation' = generation
    BY <1>4 DEF Materialize, TypeOK, tree
  <2>2. listing[l].generation <= generation
    BY <2>1 DEF ListingsCurrent, Idle
  <2>3. \A r \in Roots : SeenSince(r, Now, applied)
    BY SeenNow DEF TypeOK, FeedInStep, Now
  <2> QED
    BY <2>1, <2>2, <2>3 DEF SeenSince
<1>5. ASSUME NEW k \in Listers, List(k) PROVE listing'[l] = listing[l] \/ listing'[l] = Idle \/ Ask(l) \/ Materialize(l)
  BY <1>5 DEF TypeOK, List, Ask, Materialize, Overrun, Publish, PublishFails, ReloadFails, ListingFails
<1>6. listing'[l] = listing[l] \/ listing'[l] = Idle \/ Ask(l) \/ Materialize(l)
  BY <1>5, QuietFrame DEF Next, vars, ReadFeed, Drain, Quiet, ReadBack, Place, Expire, Apply, ApplyFails,
     Acknowledge, Crash
<1> QED
  BY <1>1, <1>2, <1>3, <1>4, <1>6

(* So is a read-back that nothing has overtaken.                             *)
LEMMA AnswerStep ==
  ASSUME Inv, [Next]_vars
  PROVE  AnswersCurrent'
<1> USE DEF Inv
<1> SUFFICES ASSUME NEW r \in Roots, op'[r] = "read"
             PROVE  /\ answer'[r].generation <= generation'
                    /\ answer'[r].generation = generation' =>
                          \A i \in 1..applied' : r \in Denies(feed'[i]) => i <= answer'[r].asOf
  BY DEF AnswersCurrent, SeenSince
<1>1. CASE op[r] = "read" /\ answer'[r] = answer[r]
  <2>1. /\ answer[r].generation \in Nat /\ answer[r].generation <= generation
        /\ answer[r].asOf \in Nat
        /\ answer[r].generation = generation => SeenSince(r, answer[r].asOf, applied)
    BY <1>1 DEF TypeOK, AnswersCurrent, Answer
  <2>2. generation \in Nat /\ generation' \in Nat /\ generation <= generation'
    BY GenerationStep DEF TypeOK
  <2>3. CASE answer[r].generation = generation'
    <3>1. generation' = generation
      BY <2>1, <2>2, <2>3
    <3> QED
      BY <1>1, <2>1, <2>2, <3>1, SeenInGeneration
  <2> QED
    BY <1>1, <2>1, <2>2, <2>3
<1>2. CASE ReadBack(r)
  <2>1. /\ answer'[r].generation = generation /\ answer'[r].asOf = Now
        /\ feed' = feed /\ applied' = applied /\ generation' = generation
    BY <1>2 DEF ReadBack, TypeOK, tree
  <2>2. SeenSince(r, Now, applied)
    BY SeenNow DEF TypeOK, FeedInStep, Now
  <2> QED
    BY <2>1, <2>2 DEF SeenSince, TypeOK
<1>3. ASSUME NEW q \in Roots, ReadBack(q) \/ Place(q)
      PROVE  (op[r] = "read" /\ answer'[r] = answer[r]) \/ ReadBack(r)
  BY <1>3 DEF ReadBack, Place, TypeOK
<1>4. CASE Crash
  BY <1>4 DEF Crash, TypeOK
<1>5. ASSUME NEW k \in Listers, List(k) PROVE UNCHANGED <<op, answer>>
  BY <1>5 DEF queue, List, Ask, Materialize, Overrun, Publish, PublishFails, ReloadFails, ListingFails
<1> QED
  BY <1>1, <1>2, <1>3, <1>4, <1>5, QuietFrame DEF Next, vars, queue, ReadFeed, Drain, Quiet, Expire, Apply,
     ApplyFails, Acknowledge

-----------------------------------------------------------------------------
(* What a published listing gives a root: access seen since every denial     *)
(* tried, no access, or, if it is not among the listing's roots, what it     *)
(* had.                                                                     *)
LEMMA PublishedSeen ==
  ASSUME Inv, NEW l \in Listers, listing[l].step = "nodes", Current(listing[l]), NEW r \in Roots
  PROVE  LET seen == PublishedAccess(listing[l])[r] IN
         \/ seen.level = "viewer"
         \/ seen.asOf \in Nat /\ SeenSince(r, seen.asOf, applied)
         \/ seen = access[r] /\ r \notin Children /\ PublishedRows(listing[l])[r] # "shown"
<1>1. CASE r \in DOMAIN listing[l].roles
  <2>1. PublishedAccess(listing[l])[r].asOf = listing[l].asOf
    BY <1>1 DEF PublishedAccess
  <2> QED
    BY <2>1, ListingShape DEF Inv, ListingsCurrent
<1>2. CASE r \notin DOMAIN listing[l].roles
  BY <1>2 DEF PublishedAccess, PublishedRows, Denied, Children
<1> QED
  BY <1>1, <1>2

(* A step keeps the tree's access newer than every denial tried: the denial  *)
(* of a retried event, a restart from the table and a listing that lost its  *)
(* race included.                                                           *)
LEMMA TreeStep ==
  ASSUME Inv, [Next]_vars
  PROVE  TreeCurrent'
<1> USE DEF Inv
<1> SUFFICES ASSUME NEW r \in Roots, r \notin overtaken', live'[r].level = "editor"
             PROVE  \A i \in 1..applied' : r \in Denies(feed'[i]) => i <= live'[r].asOf
  BY DEF TreeCurrent, SeenSince
<1>0. /\ live[r].asOf \in Nat /\ access[r].asOf \in Nat /\ applied \in Nat /\ cursor \in Nat
      /\ cursor <= applied /\ applied <= Now /\ cursor <= Now
  BY DEF TypeOK, FeedInStep, Seen, Now
<1>1. CASE live'[r] = live[r] /\ r \notin overtaken /\ generation' = generation
  <2>1. SeenSince(r, live[r].asOf, applied)
    BY <1>1 DEF TreeCurrent
  <2> QED
    BY <1>0, <1>1, <2>1, SeenInGeneration
<1>2. CASE Apply \/ ApplyFails
  <2>1. /\ cursor < Now /\ feed' = feed /\ applied' = cursor + 1
        /\ r \notin Denies(Event) /\ live'[r] = live[r]
    BY <1>2 DEF Apply, ApplyFails, DenyLive, Denied
  <2>2. r \notin overtaken
    BY <1>2, <2>1 DEF Apply, ApplyFails, queue
  <2>3. SeenSince(r, live[r].asOf, cursor)
    BY <1>0, <2>1, <2>2, SeenFewer DEF TreeCurrent
  <2>4. SeenSince(r, live[r].asOf, cursor + 1)
    BY <1>0, <2>1, <2>3, SeenMore, EventType
  <2> QED
    BY <2>1, <2>4 DEF SeenSince
<1>3. CASE Crash
  <2>1. /\ feed' = feed /\ applied' = cursor /\ live'[r] = access[r] /\ r \notin overtaken
    BY <1>3 DEF Crash
  <2>2. SeenSince(r, access[r].asOf, cursor)
    BY <1>0, <2>1, SeenFewer DEF TableCurrent
  <2> QED
    BY <2>1, <2>2 DEF SeenSince
<1>4. ASSUME NEW q \in Roots, Place(q)
      PROVE  \A i \in 1..applied' : r \in Denies(feed'[i]) => i <= live'[r].asOf
  <2>1. feed' = feed /\ applied' = applied /\ generation' = generation /\ op[q] = "read"
    BY <1>4 DEF Place
  <2>2. CASE q = r /\ r \in resident
    <3>1. /\ live'[r].asOf = answer[r].asOf /\ answer[r].generation = generation
      BY <1>4, <2>2 DEF Place, TypeOK
    <3> QED
      BY <2>1, <2>2, <3>1 DEF AnswersCurrent, SeenSince
  <2>3. CASE ~(q = r /\ r \in resident)
    BY <1>1, <1>4, <2>1, <2>3 DEF Place, TypeOK
  <2> QED
    BY <2>2, <2>3
<1>5. ASSUME NEW l \in Listers, Publish(l)
      PROVE  \A i \in 1..applied' : r \in Denies(feed'[i]) => i <= live'[r].asOf
  <2> DEFINE j == listing[l]
             shown == {x \in Roots : PublishedRows(j)[x] = "shown"}
  <2>1. /\ feed' = feed /\ applied' = applied /\ generation' = generation
        /\ j.step = "nodes" /\ Current(j)
        /\ live'[r] = IF r \in shown \cup (Children \ j.accepted) THEN PublishedAccess(j)[r] ELSE live[r]
        /\ overtaken' = overtaken \ (shown \cup (Children \ j.accepted))
    BY <1>5 DEF Publish
  <2>2. CASE r \in shown \cup (Children \ j.accepted)
    <3>1. live'[r].level = "editor" /\ live'[r] = PublishedAccess(j)[r]
      BY <2>1, <2>2
    <3>2. SeenSince(r, PublishedAccess(j)[r].asOf, applied)
      BY <2>1, <2>2, <3>1, PublishedSeen
    <3> QED
      BY <2>1, <3>1, <3>2 DEF SeenSince
  <2>3. CASE r \notin shown \cup (Children \ j.accepted)
    BY <1>1, <2>1, <2>3
  <2> QED
    BY <2>2, <2>3
<1>6. ASSUME NEW l \in Listers, PublishFails(l) PROVE live'[r] = live[r] /\ r \notin overtaken /\ generation' = generation
  BY <1>6 DEF PublishFails, Denied, queue
<1>7. ASSUME NEW l \in Listers, Ask(l) \/ Materialize(l) \/ Overrun(l) \/ ReloadFails(l) \/ ListingFails(l)
      PROVE  UNCHANGED <<live, overtaken, generation>>
  BY <1>7 DEF Ask, Materialize, Overrun, ReloadFails, ListingFails, tree, queue
<1> QED
  BY <1>1, <1>2, <1>3, <1>4, <1>5, <1>6, <1>7, QuietFrame DEF Next, vars, tree, queue, List, ReadFeed,
     Drain, Quiet, ReadBack, Expire, Acknowledge

(* A step keeps the table's access newer than every denial written to it.    *)
LEMMA TableStep ==
  ASSUME Inv, [Next]_vars
  PROVE  TableCurrent'
<1> USE DEF Inv
<1> DEFINE written == IF acking THEN applied ELSE cursor
<1> SUFFICES ASSUME NEW r \in Roots, r \notin overtaken', access'[r].level = "editor"
             PROVE  \A i \in 1..(written') : r \in Denies(feed'[i]) => i <= access'[r].asOf
  BY DEF TableCurrent, SeenSince
<1>0. /\ access[r].asOf \in Nat /\ applied \in Nat /\ cursor \in Nat
      /\ cursor <= applied /\ applied <= Now /\ cursor <= Now /\ written \in Nat
      /\ cursor <= written /\ written <= applied
  BY DEF TypeOK, FeedInStep, Seen, Now
<1>a. r \notin overtaken /\ access[r].level = "editor" => SeenSince(r, access[r].asOf, written)
  BY DEF TableCurrent
<1>1. CASE access'[r] = access[r] /\ r \notin overtaken /\ written' <= written /\ written' \in Nat
  <2>1. SeenSince(r, access[r].asOf, written) /\ written <= Now
    BY <1>0, <1>1, <1>a
  <2>2. \A i \in 1..written : r \in Denies(feed'[i]) => i <= access[r].asOf
    BY <1>0, <2>1, SeenKept
  <2> QED
    BY <1>0, <1>1, <2>2
<1>2. CASE Apply
  <2>1. /\ cursor < Now /\ feed' = feed /\ written' = cursor + 1
        /\ r \notin Denies(Event) /\ access'[r] = access[r] /\ r \notin overtaken
    BY <1>2 DEF Apply, Denied
  <2>2. SeenSince(r, access[r].asOf, cursor)
    BY <1>0, <1>a, <2>1, SeenFewer
  <2>3. SeenSince(r, access[r].asOf, cursor + 1)
    BY <1>0, <2>1, <2>2, SeenMore, EventType
  <2> QED
    BY <2>1, <2>3 DEF SeenSince
<1>3. ASSUME ApplyFails \/ Acknowledge \/ Crash
      PROVE  access'[r] = access[r] /\ r \notin overtaken /\ written' <= written /\ written' \in Nat
  <2>1. access'[r] = access[r] /\ r \notin overtaken
    BY <1>3 DEF ApplyFails, Acknowledge, Crash, tables, queue
  <2>2. CASE ApplyFails
    <3>1. written = cursor /\ written' = cursor
      BY <2>2 DEF ApplyFails
    <3> HIDE DEF written
    <3> QED
      BY <1>0, <2>1, <3>1
  <2>3. CASE Acknowledge
    <3>1. applied = cursor + 1 /\ acking /\ ~acking' /\ cursor' \in {cursor, cursor + 1}
      BY <2>3 DEF Acknowledge, FeedInStep
    <3>2. written = cursor + 1 /\ (written' = cursor \/ written' = cursor + 1)
      BY <3>1
    <3> HIDE DEF written
    <3> QED
      BY <1>0, <2>1, <3>2
  <2>4. CASE Crash
    BY <1>0, <2>4 DEF Crash, tables
  <2> QED
    BY <1>3, <2>1, <2>2, <2>3, <2>4
<1>4. ASSUME NEW q \in Roots, Place(q)
      PROVE  \A i \in 1..(written') : r \in Denies(feed'[i]) => i <= access'[r].asOf
  <2>1. feed' = feed /\ applied' = applied /\ written' = written /\ op[q] = "read"
    BY <1>4 DEF Place
  <2>2. CASE q = r /\ r \in resident
    <3>1. /\ access'[r].asOf = answer[r].asOf /\ answer[r].generation = generation
      BY <1>4, <2>2 DEF Place, TypeOK
    <3>2. SeenSince(r, answer[r].asOf, applied)
      BY <2>1, <2>2, <3>1 DEF AnswersCurrent
    <3>3. written' = written /\ written <= applied
      BY <1>0, <2>1
    <3> HIDE DEF written
    <3>4. \A i \in 1..(written') : i \in 1..applied
      BY <1>0, <3>3
    <3> QED
      BY <2>1, <3>1, <3>2, <3>4 DEF SeenSince
  <2>3. CASE ~(q = r /\ r \in resident)
    BY <1>0, <1>1, <1>4, <2>1, <2>3 DEF Place, TypeOK
  <2> QED
    BY <2>2, <2>3
<1>5. ASSUME NEW l \in Listers, Publish(l) \/ ReloadFails(l)
      PROVE  \A i \in 1..(written') : r \in Denies(feed'[i]) => i <= access'[r].asOf
  <2> DEFINE j == listing[l]
             shown == {x \in Roots : PublishedRows(j)[x] = "shown"}
  <2>1. /\ feed' = feed /\ written' = written /\ j.step = "nodes" /\ Current(j)
        /\ access'[r] = PublishedAccess(j)[r]
        /\ overtaken' = overtaken \ (shown \cup (Children \ j.accepted)) \/ overtaken' = overtaken
    BY <1>5 DEF Publish, ReloadFails, queue
  <2>2. CASE SeenSince(r, PublishedAccess(j)[r].asOf, applied)
    BY <1>0, <2>1, <2>2 DEF SeenSince
  <2>3. CASE PublishedAccess(j)[r] = access[r] /\ r \notin shown \cup Children
    BY <1>0, <1>1, <2>1, <2>3
  <2> QED
    BY <2>1, <2>2, <2>3, PublishedSeen
<1>6. ASSUME NEW l \in Listers, Ask(l) \/ Materialize(l) \/ Overrun(l) \/ PublishFails(l) \/ ListingFails(l)
      PROVE  UNCHANGED <<access, overtaken, acking, applied, cursor>>
  BY <1>6 DEF Ask, Materialize, Overrun, PublishFails, ListingFails, tables, queue
<1>7. CASE UNCHANGED <<access, overtaken, acking, applied, cursor>>
  BY <1>0, <1>1, <1>7
<1> QED
  BY <1>1, <1>2, <1>3, <1>4, <1>5, <1>6, <1>7, QuietFrame DEF Next, vars, tables, queue, List, ReadFeed,
     Drain, Quiet, ReadBack, Expire

-----------------------------------------------------------------------------
(* The invariant holds in every state, for any shares, listers and bounds.   *)
THEOREM Invariance == Spec => []Inv
<1>1. Inv /\ [Next]_vars => Inv'
  BY TypeStep, FeedStep, ListingStep, AnswerStep, TreeStep, TableStep DEF Inv
<1> QED
  BY <1>1, InitInv, PTL DEF Spec

(* A share is writable only by a role seen after the last acknowledged event *)
(* that denied it (apply_event), however listings, retries of the event,     *)
(* failed writes of the table and restarts interleave.                       *)
THEOREM SharesFailClosed == Spec => []FailClosed
<1>1. Inv => FailClosed
  <2> SUFFICES ASSUME Inv, NEW r \in Roots \ overtaken, Writable(r)
               PROVE  SeenSince(r, access[r].asOf, cursor)
    BY DEF FailClosed
  <2>1. access[r].level = "editor"
    BY DEF Writable, Authority
  <2>2. SeenSince(r, access[r].asOf, IF acking THEN applied ELSE cursor)
    BY <2>1 DEF Inv, TableCurrent
  <2>3. /\ access[r].asOf \in Nat /\ cursor \in Nat /\ applied \in Nat /\ cursor <= applied
    BY DEF Inv, TypeOK, Seen
  <2> QED
    BY <2>2, <2>3, SeenFewer
<1> QED
  BY <1>1, Invariance, PTL

(* A share with an entry in the tree is denied from the first attempt at the *)
(* event on, whether or not the table took the denial                        *)
(* (apply_access_downgrade).                                                 *)
THEOREM SharesDeniedAtOnce == Spec => []DeniedAtOnce
<1>1. Inv => DeniedAtOnce
  <2> SUFFICES ASSUME Inv, NEW r \in resident \ overtaken, Writable(r)
               PROVE  SeenSince(r, live[r].asOf, applied)
    BY DEF DeniedAtOnce
  <2>1. live[r].level = "editor" /\ r \in Roots
    BY DEF Writable, Authority, Inv, TypeOK
  <2> QED
    BY <2>1 DEF Inv, TreeCurrent
<1> QED
  BY <1>1, Invariance, PTL
=============================================================================
