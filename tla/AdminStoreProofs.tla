---------------------------- MODULE AdminStoreProofs ----------------------------
(***************************************************************************)
(* Theorems about AdminStore for every number of admins, routes and        *)
(* bodies: names stay unique, policies keep their routes, a refused call   *)
(* wrote nothing, and a successful one is published.                       *)
(***************************************************************************)
EXTENDS AdminStore, FiniteSetTheorems, TLAPS

-----------------------------------------------------------------------------
(* The invariant. A call has written exactly if it is about to bump or done,
   and goes on to an UPDATE with a whole row.                                *)

IsRow(row) == row.state = "row" /\ DOMAIN row = Columns \cup {"state"}

IsRoute(row) == row.state \in {"unused", "deleted"} \/ IsRow(row)

IsPolicy(policy) == policy = NoPolicy \/ DOMAIN policy = {"state", "auth", "cacheTtl"}

Refusals == {"unauthorized", "validationFailed", "notFound", "conflict"}

Holds(c) ==
    /\ c.id \in RouteIds \cup {"none"}
    /\ c.pc = "insert" => c.body \in CreateBodies
    /\ c.pc = "update" => c.id \in RouteIds /\ c.body \in UpdateBodies /\ IsRow(c.existing)
    /\ c.pc = "upsert" => c.id \in RouteIds

Replied(c) ==
    /\ c.pc \in {"new", "insert", "update", "upsert", "bump", "done"}
    /\ c.reply \in Replies \cup {"none"}
    /\ c.wrote \in BOOLEAN
    /\ c.pc \in {"new", "insert", "update", "upsert"} => ~c.wrote
    /\ c.pc = "bump" => c.wrote
    /\ c.pc # "done" => c.reply = "none"
    /\ c.reply \in Refusals => ~c.wrote
    /\ c.reply = "ok" => c.wrote

CallsInv ==
    /\ DOMAIN call = Admins
    /\ \A a \in Admins : Holds(call[a]) /\ Replied(call[a])
    /\ \A a \in Admins : call[a].reply = "ok" => a \notin unpublished
    /\ unpublished \subseteq Admins

StoreInv ==
    /\ DOMAIN routes = RouteIds /\ DOMAIN policies = RouteIds
    /\ \A id \in RouteIds : IsRoute(routes[id]) /\ IsPolicy(policies[id])
    /\ NamesUnique
    /\ PoliciesHaveRoutes

StoreAndCalls == StoreInv /\ CallsInv

-----------------------------------------------------------------------------
(* Rows *)

LEMMA OverIs ==
    ASSUME NEW dto, NEW row
    PROVE  /\ DOMAIN Over(dto, row) = DOMAIN dto \cup DOMAIN row
           /\ \A field \in DOMAIN dto : Over(dto, row)[field] = dto[field]
           /\ \A field \in DOMAIN row \ DOMAIN dto : Over(dto, row)[field] = row[field]
  BY DEF Over

\* Validation keeps what the body names and adds its default.
LEMMA ParsedIs ==
    ASSUME NEW body
    PROVE  /\ DOMAIN Parsed(body) = (DOMAIN body \cup {"retries"}) \ {"canary"}
           /\ "name" \in DOMAIN body => Parsed(body).name = body.name
  <1>1. DOMAIN [retries |-> 0] = {"retries"}
    OBVIOUS
  <1>2. /\ DOMAIN Defaulted(body) = DOMAIN body \cup {"retries"}
        /\ \A field \in DOMAIN body : Defaulted(body)[field] = body[field]
    BY <1>1, OverIs DEF Defaulted
  <1> QED
    BY <1>2 DEF Parsed

LEMMA CreatedRow ==
    ASSUME NEW body \in CreateBodies
    PROVE  /\ IsRow(Over(Parsed(body), CreateDefaults))
           /\ Over(Parsed(body), CreateDefaults).name = body.name
  <1>1. DOMAIN body \subseteq Columns /\ "name" \in DOMAIN body /\ "upstream" \in DOMAIN body
    BY BodiesAssumption
  <1>2. /\ DOMAIN CreateDefaults = {"state", "retries", "enabled", "canary"}
        /\ CreateDefaults["state"] = "row"
    BY DEF CreateDefaults
  <1>3. /\ DOMAIN Parsed(body) = (DOMAIN body \cup {"retries"}) \ {"canary"}
        /\ Parsed(body)["name"] = body["name"]
    BY <1>1, ParsedIs
  <1> DEFINE row == Over(Parsed(body), CreateDefaults)
  <1>4. /\ DOMAIN row = DOMAIN Parsed(body) \cup DOMAIN CreateDefaults
        /\ \A field \in DOMAIN Parsed(body) : row[field] = Parsed(body)[field]
        /\ \A field \in DOMAIN CreateDefaults \ DOMAIN Parsed(body) :
               row[field] = CreateDefaults[field]
    BY OverIs
  <1> HIDE DEF row
  <1>5. DOMAIN row = Columns \cup {"state"}
    BY <1>1, <1>2, <1>3, <1>4 DEF Columns
  <1>6. "state" \in DOMAIN CreateDefaults \ DOMAIN Parsed(body)
    BY <1>1, <1>2, <1>3 DEF Columns
  <1>7. row["state"] = "row"
    BY <1>2, <1>4, <1>6
  <1>8. row["name"] = body["name"]
    BY <1>1, <1>3, <1>4
  <1>9. row.state = "row" /\ row.name = body.name
    BY <1>7, <1>8
  <1> QED
    BY <1>5, <1>9 DEF IsRow, row

LEMMA UpdatedRow ==
    ASSUME NEW body \in UpdateBodies, NEW existing, IsRow(existing)
    PROVE  IsRow(Over(Parsed(body), existing))
  <1>1. DOMAIN body \subseteq Columns
    BY BodiesAssumption
  <1>2. DOMAIN Parsed(body) = (DOMAIN body \cup {"retries"}) \ {"canary"}
    BY ParsedIs
  <1>3. DOMAIN existing = Columns \cup {"state"} /\ existing["state"] = "row"
    BY DEF IsRow
  <1> DEFINE row == Over(Parsed(body), existing)
  <1>4. /\ DOMAIN row = DOMAIN Parsed(body) \cup DOMAIN existing
        /\ \A field \in DOMAIN existing \ DOMAIN Parsed(body) : row[field] = existing[field]
    BY OverIs
  <1> HIDE DEF row
  <1>5. DOMAIN row = Columns \cup {"state"}
    BY <1>1, <1>2, <1>3, <1>4 DEF Columns
  <1>6. "state" \in DOMAIN existing \ DOMAIN Parsed(body)
    BY <1>1, <1>2, <1>3 DEF Columns
  <1>7. row["state"] = "row"
    BY <1>3, <1>4, <1>6
  <1> QED
    BY <1>5, <1>7 DEF IsRow, row

-----------------------------------------------------------------------------
(* Calls *)

\* One call moves; `unpublished' gains at most that call.
LEMMA OneCall ==
    ASSUME CallsInv, NEW a \in Admins, NEW c, call' = [call EXCEPT ![a] = c],
           Holds(c), Replied(c),
           unpublished' \subseteq unpublished \cup {a},
           c.reply = "ok" => a \notin unpublished'
    PROVE  CallsInv'
  <1>1. /\ DOMAIN call' = Admins
        /\ call'[a] = c
        /\ \A b \in Admins \ {a} : call'[b] = call[b]
    BY DEF CallsInv
  <1>2. \A b \in Admins : Holds(call'[b]) /\ Replied(call'[b])
    BY <1>1 DEF CallsInv
  <1>3. \A b \in Admins : call'[b].reply = "ok" => b \notin unpublished'
    BY <1>1 DEF CallsInv
  <1>4. unpublished' \subseteq Admins
    BY DEF CallsInv
  <1>5. (\A b \in Admins : Holds(call[b]) /\ Replied(call[b]))'
    BY <1>2 DEF Holds, Replied, IsRow
  <1> QED
    BY <1>1, <1>3, <1>4, <1>5 DEF CallsInv

\* What a call is when it goes on, and what the others are.
LEMMA ProgressKeeps ==
    ASSUME CallsInv, NEW a \in Admins, NEW pc \in {"bump", "done"}, NEW reply, NEW wrote,
           Progress(a, pc, reply, wrote),
           reply \in Replies \cup {"none"}, wrote \in BOOLEAN,
           pc = "bump" => wrote /\ reply = "none",
           reply \in Refusals => ~wrote,
           reply = "ok" => wrote /\ a \notin unpublished',
           unpublished' \subseteq unpublished \cup {a}
    PROVE  CallsInv'
  <1> DEFINE c == [pc |-> pc, id |-> call[a].id, body |-> call[a].body,
                   existing |-> call[a].existing, reply |-> reply, wrote |-> wrote]
  <1>1. call' = [call EXCEPT ![a] = c]
    BY DEF Progress
  <1>2. c.pc = pc /\ c.id = call[a].id /\ c.reply = reply /\ c.wrote = wrote
    OBVIOUS
  <1> HIDE DEF c
  <1>3. Holds(c)
    BY <1>2 DEF CallsInv, Holds
  <1>4. Replied(c)
    BY <1>2 DEF Replied
  <1> QED
    BY <1>1, <1>2, <1>3, <1>4, OneCall

\* A call that may be refused here has not written, or ends with an error that
\* promises nothing.
LEMMA RefuseKeeps ==
    ASSUME StoreAndCalls, NEW a \in Admins, NEW reply, Refuse(a, reply),
           reply \in Refusals \cup {"internalError"},
           reply \in Refusals => ~call[a].wrote
    PROVE  StoreAndCalls'
  <1>1. call[a].wrote \in BOOLEAN
    BY DEF StoreAndCalls, CallsInv, Replied
  <1>2. reply \in Replies /\ reply # "ok"
    BY DEF Refusals, Replies
  <1>3. Progress(a, "done", reply, call[a].wrote) /\ UNCHANGED <<routes, policies, unpublished>>
    BY DEF Refuse, Reply
  <1>4. CallsInv'
    BY <1>1, <1>2, <1>3, ProgressKeeps DEF StoreAndCalls
  <1>5. StoreInv'
    BY <1>3 DEF StoreAndCalls, StoreInv, NamesUnique, PoliciesHaveRoutes, Exists
  <1> QED
    BY <1>4, <1>5 DEF StoreAndCalls

\* A lookup that found what it needs.
LEMMA GoOnKeeps ==
    ASSUME StoreAndCalls, NEW a \in Admins, NEW pc \in {"insert", "update", "upsert"},
           NEW id, NEW body, NEW existing, GoOn(a, pc, id, body, existing),
           id \in RouteIds \cup {"none"},
           pc = "insert" => body \in CreateBodies,
           pc = "update" => id \in RouteIds /\ body \in UpdateBodies /\ IsRow(existing),
           pc = "upsert" => id \in RouteIds
    PROVE  StoreAndCalls'
  <1> DEFINE c == [pc |-> pc, id |-> id, body |-> body, existing |-> existing,
                   reply |-> "none", wrote |-> FALSE]
  <1>1. call' = [call EXCEPT ![a] = c] /\ UNCHANGED <<routes, policies, unpublished>>
    BY DEF GoOn
  <1>2. /\ c.pc = pc /\ c.id = id /\ c.body = body /\ c.existing = existing
        /\ c.reply = "none" /\ c.wrote = FALSE
    OBVIOUS
  <1> HIDE DEF c
  <1>3. Holds(c)
    BY <1>2 DEF Holds
  <1>4. Replied(c)
    BY <1>2 DEF Replied, Refusals
  <1>5. CallsInv'
    BY <1>1, <1>2, <1>3, <1>4, OneCall DEF StoreAndCalls
  <1>6. StoreInv'
    BY <1>1 DEF StoreAndCalls, StoreInv, NamesUnique, PoliciesHaveRoutes, Exists
  <1> QED
    BY <1>5, <1>6 DEF StoreAndCalls

\* A call that wrote has its bump before it.
LEMMA WroteKeeps ==
    ASSUME CallsInv, NEW a \in Admins, Wrote(a)
    PROVE  CallsInv'
  <1>1. "none" \notin Refusals /\ "none" \in Replies \cup {"none"}
    BY DEF Refusals
  <1> QED
    BY <1>1, ProgressKeeps DEF Wrote

\* A call that is neither about to bump nor done has not written.
LEMMA NotWritten ==
    ASSUME CallsInv, NEW a \in Admins, call[a].pc \in {"new", "insert", "update", "upsert"}
    PROVE  ~call[a].wrote
  BY DEF CallsInv, Replied

-----------------------------------------------------------------------------
(* The tables *)

\* A row is written whose name no other row has.
LEMMA RowWritten ==
    ASSUME StoreInv, NEW id \in RouteIds, NEW row, IsRow(row),
           routes' = [routes EXCEPT ![id] = row], UNCHANGED policies,
           Named(row.name) \subseteq {id}
    PROVE  StoreInv'
  <1>1. /\ DOMAIN routes' = RouteIds
        /\ routes'[id] = row
        /\ \A other \in RouteIds \ {id} : routes'[other] = routes[other]
    BY DEF StoreInv
  <1>2. \A other \in RouteIds : IsRoute(routes'[other])
    BY <1>1 DEF StoreInv, IsRoute
  <1>3. NamesUnique'
    BY <1>1 DEF StoreInv, NamesUnique, Named, Exists
  <1>4. PoliciesHaveRoutes'
    BY <1>1 DEF StoreInv, PoliciesHaveRoutes, Exists, IsRow
  <1>5. (\A other \in RouteIds : IsRoute(routes[other]))'
    BY <1>2 DEF IsRoute, IsRow
  <1> QED
    BY <1>1, <1>3, <1>4, <1>5 DEF StoreInv, IsPolicy

\* A policy of an existing route is written, or any policy is removed.
LEMMA PolicyWritten ==
    ASSUME StoreInv, NEW id \in RouteIds, NEW policy, IsPolicy(policy),
           policies' = [policies EXCEPT ![id] = policy], UNCHANGED routes,
           policy # NoPolicy => Exists(id)
    PROVE  StoreInv'
  <1>1. /\ DOMAIN policies' = RouteIds
        /\ policies'[id] = policy
        /\ \A other \in RouteIds \ {id} : policies'[other] = policies[other]
    BY DEF StoreInv
  <1>2. \A other \in RouteIds : IsPolicy(policies'[other])
    BY <1>1 DEF StoreInv
  <1>3. PoliciesHaveRoutes'
    BY <1>1 DEF StoreInv, PoliciesHaveRoutes, Exists
  <1>4. NamesUnique'
    BY DEF StoreInv, NamesUnique, Exists
  <1>5. (\A other \in RouteIds : IsRoute(routes[other]) /\ IsPolicy(policies[other]))'
    BY <1>2 DEF StoreInv, IsRoute, IsRow, IsPolicy
  <1> QED
    BY <1>1, <1>3, <1>4, <1>5 DEF StoreInv

\* A route is deleted with its policy.
LEMMA RowDeleted ==
    ASSUME StoreInv, NEW id \in RouteIds,
           routes' = [routes EXCEPT ![id] = Deleted],
           policies' = [policies EXCEPT ![id] = NoPolicy]
    PROVE  StoreInv'
  <1>1. /\ DOMAIN routes' = RouteIds /\ DOMAIN policies' = RouteIds
        /\ routes'[id] = Deleted /\ policies'[id] = NoPolicy
        /\ \A other \in RouteIds \ {id} :
               routes'[other] = routes[other] /\ policies'[other] = policies[other]
    BY DEF StoreInv
  <1>2. Deleted.state = "deleted"
    BY DEF Deleted
  <1>3. \A other \in RouteIds : IsRoute(routes'[other]) /\ IsPolicy(policies'[other])
    BY <1>1, <1>2 DEF StoreInv, IsRoute, IsPolicy
  <1>4. NamesUnique'
    BY <1>1, <1>2 DEF StoreInv, NamesUnique, Exists
  <1>5. PoliciesHaveRoutes'
    BY <1>1 DEF StoreInv, PoliciesHaveRoutes, Exists
  <1>6. (\A other \in RouteIds : IsRoute(routes[other]) /\ IsPolicy(policies[other]))'
    BY <1>3 DEF IsRoute, IsRow, IsPolicy
  <1> QED
    BY <1>1, <1>4, <1>5, <1>6 DEF StoreInv

-----------------------------------------------------------------------------
(* The invariant holds *)

LEMMA NoCallInv == Holds(NoCall) /\ Replied(NoCall)
  <1>1. /\ NoCall.pc = "new" /\ NoCall.id = "none"
        /\ NoCall.reply = "none" /\ NoCall.wrote = FALSE
    BY DEF NoCall
  <1> QED
    BY <1>1 DEF Holds, Replied, Refusals

LEMMA AdminInit == Init => StoreAndCalls
  <1> SUFFICES ASSUME Init PROVE StoreAndCalls
    OBVIOUS
  <1> DEFINE row == [state |-> "row", name |-> "orders", upstream |-> "stable",
                     retries |-> 2, enabled |-> TRUE, canary |-> "null"]
  <1>1. PICK old \in SUBSET RouteIds :
            /\ Cardinality(old) <= 1
            /\ routes = [id \in RouteIds |-> IF id \in old THEN row ELSE Unused]
    BY DEF Init
  <1>2. /\ policies = [id \in RouteIds |-> NoPolicy]
        /\ call = [a \in Admins |-> NoCall]
        /\ unpublished = {}
    BY DEF Init
  <1>3. IsRow(row)
    BY DEF IsRow, Columns
  <1>4. Unused.state = "unused"
    BY DEF Unused
  <1> HIDE DEF row
  <1>5. \A id \in RouteIds : Exists(id) => id \in old
    BY <1>1, <1>4 DEF Exists
  <1>6. ASSUME NEW id \in old, NEW other \in old PROVE id = other
    <2>1. IsFiniteSet(old)
      BY <1>1, BodiesAssumption, FS_Subset
    <2>2. IsFiniteSet(old \ {id}) /\ Cardinality(old \ {id}) = Cardinality(old) - 1
      BY <2>1, <1>6, FS_RemoveElement
    <2>3. Cardinality(old \ {id}) \in Nat /\ Cardinality(old) \in Nat
      BY <2>1, <2>2, FS_CardinalityType
    <2>4. Cardinality(old \ {id}) = 0
      BY <1>1, <2>2, <2>3
    <2>5. old \ {id} = {}
      BY <2>2, <2>4, FS_EmptySet
    <2> QED
      BY <1>6, <2>5
  <1>7. NamesUnique
    BY <1>5, <1>6 DEF NamesUnique
  <1>8. PoliciesHaveRoutes
    BY <1>2 DEF PoliciesHaveRoutes
  <1>9. \A id \in RouteIds : IsRoute(routes[id]) /\ IsPolicy(policies[id])
    BY <1>1, <1>2, <1>3, <1>4 DEF IsRoute, IsPolicy
  <1>10. StoreInv
    BY <1>1, <1>2, <1>7, <1>8, <1>9 DEF StoreInv
  <1>11. CallsInv
    <2>1. \A a \in Admins : call[a] = NoCall
      BY <1>2
    <2>2. \A a \in Admins : Holds(call[a]) /\ Replied(call[a])
      BY <2>1, NoCallInv
    <2> QED
      BY <1>2, <2>2 DEF CallsInv
  <1> QED
    BY <1>10, <1>11 DEF StoreAndCalls

LEMMA AdminNext == StoreAndCalls /\ [Next]_vars => StoreAndCalls'
  <1> SUFFICES ASSUME StoreAndCalls, [Next]_vars PROVE StoreAndCalls'
    OBVIOUS
  <1>1. CASE UNCHANGED vars
    BY <1>1 DEF vars, StoreAndCalls, StoreInv, CallsInv, NamesUnique, PoliciesHaveRoutes,
                Exists, IsRoute, IsRow, IsPolicy, Holds, Replied
  <1>2. ASSUME NEW a \in Admins,
               \/ Unauthorized(a) \/ ValidationFails(a) \/ QueryFails(a) \/ Bump(a)
               \/ CreateLookup(a) \/ CreateInsert(a)
               \/ UpdateLookup(a) \/ UpdateWrite(a)
               \/ DeleteRoute(a)
               \/ PolicyLookup(a) \/ PolicyUpsert(a) \/ DeletePolicy(a)
        PROVE  StoreAndCalls'
    <2>0. StoreInv /\ CallsInv
      BY DEF StoreAndCalls
    <2>1. call[a].pc \in {"new", "insert", "update", "upsert"} => ~call[a].wrote
      BY <2>0, NotWritten
    <2>2. ASSUME NEW reply \in Refusals, Refuse(a, reply),
                 call[a].pc \in {"new", "insert", "update", "upsert"}
          PROVE  StoreAndCalls'
      BY <2>1, <2>2, RefuseKeeps
    <2>3. ASSUME Refuse(a, "internalError") PROVE StoreAndCalls'
      <3>1. "internalError" \notin Refusals
        BY DEF Refusals
      <3> QED
        BY <2>3, <3>1, RefuseKeeps
    <2>4. "unauthorized" \in Refusals /\ "validationFailed" \in Refusals
          /\ "notFound" \in Refusals /\ "conflict" \in Refusals
      BY DEF Refusals
    <2>5. ASSUME Wrote(a), StoreInv' PROVE StoreAndCalls'
      BY <2>0, <2>5, WroteKeeps DEF StoreAndCalls
    <2>6. \A id \in RouteIds : Exists(id) => IsRow(routes[id])
      BY <2>0 DEF StoreInv, IsRoute, Exists
    <2>7. Holds(call[a])
      BY <2>0 DEF CallsInv
    <2>8. CASE Unauthorized(a)
      BY <2>2, <2>4, <2>8 DEF Unauthorized
    <2>9. CASE ValidationFails(a)
      BY <2>2, <2>4, <2>9 DEF ValidationFails
    <2>10. CASE QueryFails(a)
      BY <2>3, <2>10 DEF QueryFails
    <2>11. CASE Bump(a)
      <3>1. /\ Progress(a, "done", "ok", call[a].wrote)
            /\ unpublished' = {} /\ UNCHANGED <<routes, policies>>
            /\ call[a].pc = "bump"
        BY <2>11 DEF Bump, Reply
      <3>2. call[a].wrote = TRUE
        BY <2>0, <3>1 DEF CallsInv, Replied
      <3>3. "ok" \in Replies /\ "ok" \notin Refusals
        BY DEF Replies, Refusals
      <3>4. CallsInv'
        BY <2>0, <3>1, <3>2, <3>3, ProgressKeeps
      <3>5. StoreInv'
        BY <2>0, <3>1 DEF StoreInv, NamesUnique, PoliciesHaveRoutes, Exists
      <3> QED
        BY <3>4, <3>5 DEF StoreAndCalls
    <2>12. CASE CreateLookup(a)
      <3>1. PICK body \in CreateBodies :
                Refuse(a, "conflict") \/ GoOn(a, "insert", "none", body, NoBody)
        BY <2>12 DEF CreateLookup
      <3>2. CASE Refuse(a, "conflict")
        BY <2>2, <2>4, <2>12, <3>2 DEF CreateLookup
      <3>3. CASE GoOn(a, "insert", "none", body, NoBody)
        BY <3>3, GoOnKeeps
      <3> QED
        BY <3>1, <3>2, <3>3
    <2>13. CASE CreateInsert(a)
      <3>1. call[a].pc = "insert" /\ call[a].body \in CreateBodies
        BY <2>7, <2>13 DEF CreateInsert, Holds
      <3>2. CASE Named(call[a].body.name) # {}
        BY <2>2, <2>4, <2>13, <3>1, <3>2 DEF CreateInsert
      <3>3. CASE Named(call[a].body.name) = {}
        <4> DEFINE row == Over(Parsed(call[a].body), CreateDefaults)
        <4>1. PICK id \in RouteIds :
                  routes' = [routes EXCEPT ![id] = row] /\ Wrote(a) /\ UNCHANGED policies
          BY <2>13, <3>3 DEF CreateInsert
        <4>2. IsRow(row) /\ row.name = call[a].body.name
          BY <3>1, CreatedRow
        <4> HIDE DEF row
        <4>3. Named(row.name) \subseteq {id}
          BY <3>3, <4>2
        <4>4. StoreInv'
          BY <2>0, <4>1, <4>2, <4>3, RowWritten
        <4> QED
          BY <2>5, <4>1, <4>4
      <3> QED
        BY <3>2, <3>3
    <2>14. CASE UpdateLookup(a)
      <3>1. PICK id \in RouteIds, body \in UpdateBodies :
                \/ Refuse(a, "notFound")
                \/ Exists(id) /\ GoOn(a, "update", id, body, routes[id])
        BY <2>14 DEF UpdateLookup
      <3>2. CASE Refuse(a, "notFound")
        BY <2>2, <2>4, <2>14, <3>2 DEF UpdateLookup
      <3>3. CASE Exists(id) /\ GoOn(a, "update", id, body, routes[id])
        BY <2>6, <3>3, GoOnKeeps
      <3> QED
        BY <3>1, <3>2, <3>3
    <2>15. CASE UpdateWrite(a)
      <3>1. /\ call[a].pc = "update" /\ call[a].id \in RouteIds
            /\ call[a].body \in UpdateBodies /\ IsRow(call[a].existing)
        BY <2>7, <2>15 DEF UpdateWrite, Holds
      <3>2. CASE Refuse(a, "internalError")
        BY <2>3, <3>2
      <3>3. CASE Refuse(a, "conflict")
        BY <2>2, <2>4, <3>1, <3>3
      <3>4. CASE /\ Named(Updated(a).name) \ {call[a].id} = {}
                 /\ routes' = [routes EXCEPT ![call[a].id] = Updated(a)]
                 /\ Wrote(a) /\ UNCHANGED policies
        <4>1. IsRow(Updated(a))
          BY <3>1, UpdatedRow DEF Updated
        <4>2. Named(Updated(a).name) \subseteq {call[a].id}
          BY <3>4
        <4>3. StoreInv'
          BY <2>0, <3>1, <3>4, <4>1, <4>2, RowWritten
        <4> QED
          BY <2>5, <3>4, <4>3
      <3> QED
        BY <2>15, <3>2, <3>3, <3>4 DEF UpdateWrite
    <2>16. CASE DeleteRoute(a)
      <3>1. PICK id \in RouteIds :
                \/ Refuse(a, "notFound")
                \/ /\ routes' = [routes EXCEPT ![id] = Deleted]
                   /\ policies' = [policies EXCEPT ![id] = NoPolicy]
                   /\ Wrote(a)
        BY <2>16 DEF DeleteRoute
      <3>2. CASE Refuse(a, "notFound")
        BY <2>2, <2>4, <2>16, <3>2 DEF DeleteRoute
      <3>3. CASE /\ routes' = [routes EXCEPT ![id] = Deleted]
                 /\ policies' = [policies EXCEPT ![id] = NoPolicy]
                 /\ Wrote(a)
        <4>1. StoreInv'
          BY <2>0, <3>3, RowDeleted
        <4> QED
          BY <2>5, <3>3, <4>1
      <3> QED
        BY <3>1, <3>2, <3>3
    <2>17. CASE PolicyLookup(a)
      <3>1. PICK body \in PolicyBodies :
                \/ Refuse(a, "notFound")
                \/ /\ Named(body.route) # {}
                   /\ GoOn(a, "upsert", CHOOSE id \in Named(body.route) : TRUE, body, NoBody)
        BY <2>17 DEF PolicyLookup
      <3>2. CASE Refuse(a, "notFound")
        BY <2>2, <2>4, <2>17, <3>2 DEF PolicyLookup
      <3>3. CASE /\ Named(body.route) # {}
                 /\ GoOn(a, "upsert", CHOOSE id \in Named(body.route) : TRUE, body, NoBody)
        <4>1. (CHOOSE id \in Named(body.route) : TRUE) \in RouteIds
          BY <3>3 DEF Named
        <4> QED
          BY <3>3, <4>1, GoOnKeeps
      <3> QED
        BY <3>1, <3>2, <3>3
    <2>18. CASE PolicyUpsert(a)
      <3>1. call[a].pc = "upsert" /\ call[a].id \in RouteIds
        BY <2>7, <2>18 DEF PolicyUpsert, Holds
      <3>2. CASE Refuse(a, "internalError")
        BY <2>3, <3>2
      <3>3. CASE /\ Exists(call[a].id)
                 /\ policies' = [policies EXCEPT ![call[a].id] = StoredPolicy(call[a].body)]
                 /\ Wrote(a) /\ UNCHANGED routes
        <4>1. IsPolicy(StoredPolicy(call[a].body))
          BY DEF IsPolicy, StoredPolicy
        <4>2. StoreInv'
          BY <2>0, <3>1, <3>3, <4>1, PolicyWritten
        <4> QED
          BY <2>5, <3>3, <4>2
      <3> QED
        BY <2>18, <3>2, <3>3 DEF PolicyUpsert
    <2>19. CASE DeletePolicy(a)
      <3>1. PICK id \in RouteIds :
                \/ Refuse(a, "notFound")
                \/ /\ policies' = [policies EXCEPT ![id] = NoPolicy]
                   /\ Wrote(a) /\ UNCHANGED routes
        BY <2>19 DEF DeletePolicy
      <3>2. CASE Refuse(a, "notFound")
        BY <2>2, <2>4, <2>19, <3>2 DEF DeletePolicy
      <3>3. CASE /\ policies' = [policies EXCEPT ![id] = NoPolicy]
                 /\ Wrote(a) /\ UNCHANGED routes
        <4>1. IsPolicy(NoPolicy)
          BY DEF IsPolicy
        <4>2. StoreInv'
          BY <2>0, <3>3, <4>1, PolicyWritten
        <4> QED
          BY <2>5, <3>3, <4>2
      <3> QED
        BY <3>1, <3>2, <3>3
    <2> QED
      BY <1>2, <2>8, <2>9, <2>10, <2>11, <2>12, <2>13, <2>14, <2>15, <2>16, <2>17,
         <2>18, <2>19
  <1> QED
    BY <1>1, <1>2 DEF Next

LEMMA AdminInvariant == Spec => []StoreAndCalls
  BY AdminInit, AdminNext, PTL DEF Spec

-----------------------------------------------------------------------------
(* Theorems *)

\* Every stored row has all its columns, whatever creates and updates met.
THEOREM AdminTyped == Spec => []TypeOK
  <1>1. StoreAndCalls => TypeOK
    BY DEF StoreAndCalls, StoreInv, CallsInv, IsRoute, IsRow, IsPolicy, Holds, Replied,
           TypeOK, Exists
  <1> QED
    BY <1>1, AdminInvariant, PTL

\* Two routes never have one name: creates and updates of several admins look
\* the name up and write it in separate statements (route.controller.ts).
THEOREM NamesStayUnique == Spec => []NamesUnique
  BY AdminInvariant, PTL DEF StoreAndCalls, StoreInv

\* A policy is never stored for a route that was deleted since it was looked up
\* (policy.controller.ts), nor left behind by its deletion.
THEOREM PoliciesKeepRoutes == Spec => []PoliciesHaveRoutes
  BY AdminInvariant, PTL DEF StoreAndCalls, StoreInv

\* A call answered with 400, 401, 404 or 409 wrote nothing, whoever raced with it.
THEOREM RefusedWroteNothing == Spec => []RefusedChangesNothing
  <1>1. StoreAndCalls => RefusedChangesNothing
    BY DEF StoreAndCalls, CallsInv, Replied, Refusals, RefusedChangesNothing
  <1> QED
    BY <1>1, AdminInvariant, PTL

\* A call answered with success wrote, and a bump after the write published it.
THEOREM SuccessPublished == Spec => []SuccessIsPublished
  <1>1. StoreAndCalls => SuccessIsPublished
    BY DEF StoreAndCalls, CallsInv, Replied, SuccessIsPublished
  <1> QED
    BY <1>1, AdminInvariant, PTL

-----------------------------------------------------------------------------
(* Deleted routes *)

AdminStep(a) ==
    \/ Unauthorized(a) \/ ValidationFails(a) \/ QueryFails(a) \/ Bump(a)
    \/ CreateLookup(a) \/ CreateInsert(a)
    \/ UpdateLookup(a) \/ UpdateWrite(a)
    \/ DeleteRoute(a)
    \/ PolicyLookup(a) \/ PolicyUpsert(a) \/ DeletePolicy(a)

\* Nothing is written to a row that is not there.
LEMMA DeletedTables ==
    ASSUME StoreInv, NEW id \in RouteIds, routes[id] = Deleted, NEW a \in Admins, AdminStep(a)
    PROVE  routes'[id] = Deleted /\ policies'[id] = policies[id]
  <1>1. ~Exists(id) /\ policies[id] = NoPolicy /\ Deleted # Unused
    <2>1. Deleted.state = "deleted" /\ Unused.state = "unused"
      BY DEF Deleted, Unused
    <2> QED
      BY <2>1 DEF StoreInv, PoliciesHaveRoutes, Exists
  <1>2. ASSUME NEW other \in RouteIds \ {id}, NEW row,
               routes' = [routes EXCEPT ![other] = row]
        PROVE  routes'[id] = Deleted
    BY <1>2
  <1>3. ASSUME NEW other \in RouteIds \ {id}, NEW policy,
               policies' = [policies EXCEPT ![other] = policy]
        PROVE  policies'[id] = policies[id]
    BY <1>3
  <1>4. CASE UNCHANGED <<routes, policies>>
    BY <1>4
  <1>5. CASE CreateInsert(a) /\ ~UNCHANGED <<routes, policies>>
    <2>1. PICK other \in RouteIds :
              /\ routes[other] = Unused
              /\ routes' = [routes EXCEPT ![other] = Over(Parsed(call[a].body), CreateDefaults)]
              /\ UNCHANGED policies
      BY <1>5 DEF CreateInsert, Refuse
    <2> QED
      BY <1>1, <1>2, <2>1
  <1>6. CASE UpdateWrite(a) /\ ~UNCHANGED <<routes, policies>>
    <2>1. /\ Exists(call[a].id)
          /\ routes' = [routes EXCEPT ![call[a].id] = Updated(a)]
          /\ UNCHANGED policies
      BY <1>6 DEF UpdateWrite, Refuse
    <2>2. call[a].id # id
      BY <1>1, <2>1
    <2> QED
      BY <2>1, <2>2
  <1>7. CASE DeleteRoute(a) /\ ~UNCHANGED <<routes, policies>>
    <2>1. PICK other \in RouteIds :
              /\ Exists(other)
              /\ routes' = [routes EXCEPT ![other] = Deleted]
              /\ policies' = [policies EXCEPT ![other] = NoPolicy]
      BY <1>7 DEF DeleteRoute, Refuse
    <2> QED
      BY <1>1, <1>2, <1>3, <2>1
  <1>8. CASE PolicyUpsert(a) /\ ~UNCHANGED <<routes, policies>>
    <2>1. /\ Exists(call[a].id)
          /\ policies' = [policies EXCEPT ![call[a].id] = StoredPolicy(call[a].body)]
          /\ UNCHANGED routes
      BY <1>8 DEF PolicyUpsert, Refuse
    <2>2. call[a].id # id
      BY <1>1, <2>1
    <2> QED
      BY <2>1, <2>2
  <1>9. CASE DeletePolicy(a) /\ ~UNCHANGED <<routes, policies>>
    <2>1. PICK other \in RouteIds :
              /\ policies[other] # NoPolicy
              /\ policies' = [policies EXCEPT ![other] = NoPolicy]
              /\ UNCHANGED routes
      BY <1>9 DEF DeletePolicy, Refuse
    <2> QED
      BY <1>1, <1>3, <2>1
  <1>10. CASE \/ Unauthorized(a) \/ ValidationFails(a) \/ QueryFails(a) \/ Bump(a)
              \/ CreateLookup(a) \/ UpdateLookup(a) \/ PolicyLookup(a)
    <2>1. UNCHANGED <<routes, policies>>
      BY <1>10 DEF Unauthorized, ValidationFails, QueryFails, Bump, CreateLookup, UpdateLookup,
          PolicyLookup, Refuse, GoOn
    <2> QED
      BY <1>4, <2>1
  <1> QED
    BY <1>4, <1>5, <1>6, <1>7, <1>8, <1>9, <1>10 DEF AdminStep

\* A refusal, of the call that is refused and of the others.
LEMMA RefusedCall ==
    ASSUME CallsInv, NEW a \in Admins, NEW reply, Refuse(a, reply)
    PROVE  call'[a].reply = reply /\ call'[a].wrote = call[a].wrote
  BY DEF CallsInv, Refuse, Reply, Progress

LEMMA OthersCalls ==
    ASSUME CallsInv, NEW a \in Admins, AdminStep(a)
    PROVE  \A b \in Admins \ {a} : call'[b] = call[b]
  <1>1. \E c : call' = [call EXCEPT ![a] = c]
    BY DEF AdminStep, Unauthorized, ValidationFails, QueryFails, Bump, CreateLookup,
        CreateInsert, UpdateLookup, UpdateWrite, DeleteRoute, PolicyLookup, PolicyUpsert,
        DeletePolicy, Refuse, Wrote, Reply, Progress, GoOn
  <1> QED
    BY <1>1

\* A call that goes on to write to it ends with an error.
LEMMA DeletedCalls ==
    ASSUME CallsInv, NEW id \in RouteIds, routes[id] = Deleted,
           NEW a \in Admins, AdminStep(a),
           NEW b \in Admins, call[b].pc \in {"update", "upsert"}, call[b].id = id
    PROVE  call'[b].reply \in {"none", "internalError"} /\ ~call'[b].wrote
  <1>1. call[b].reply = "none" /\ ~call[b].wrote
    BY DEF CallsInv, Replied
  <1>2. CASE b # a
    BY <1>1, <1>2, OthersCalls
  <1>3. CASE b = a
    <2>1. ~Exists(call[a].id)
      BY <1>3 DEF Exists, Deleted
    <2>2. CASE call[a].pc = "update"
      <3>1. Refuse(a, "internalError")
        BY <2>1, <2>2 DEF AdminStep, Unauthorized, ValidationFails, QueryFails, Bump,
            CreateLookup, CreateInsert, UpdateLookup, UpdateWrite, DeleteRoute, PolicyLookup,
            PolicyUpsert, DeletePolicy
      <3> QED
        BY <1>1, <1>3, <3>1, RefusedCall
    <2>3. CASE call[a].pc = "upsert"
      <3>1. Refuse(a, "internalError")
        BY <2>1, <2>3 DEF AdminStep, Unauthorized, ValidationFails, QueryFails, Bump,
            CreateLookup, CreateInsert, UpdateLookup, UpdateWrite, DeleteRoute, PolicyLookup,
            PolicyUpsert, DeletePolicy
      <3> QED
        BY <1>1, <1>3, <3>1, RefusedCall
    <2> QED
      BY <1>3, <2>2, <2>3
  <1> QED
    BY <1>2, <1>3

\* A deleted route stays deleted, and a call that was about to write to it or to its
\* policy is answered with an error and writes nothing, for every number of admins.
THEOREM DeletedForGood == Spec => DeletedStays
  <1>1. StoreAndCalls /\ [Next]_vars => [\A id \in RouteIds : StaysDeleted(id)]_vars
    <2> SUFFICES ASSUME StoreAndCalls, Next, NEW id \in RouteIds, routes[id] = Deleted
                 PROVE  StaysDeleted(id)
      BY DEF StaysDeleted
    <2>1. PICK a \in Admins : AdminStep(a)
      BY DEF Next, AdminStep
    <2> QED
      BY <2>1, DeletedTables, DeletedCalls DEF StaysDeleted, StoreAndCalls
  <1> QED
    BY <1>1, AdminInvariant, PTL DEF Spec, DeletedStays

=============================================================================
