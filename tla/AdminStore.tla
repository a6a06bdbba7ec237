------------------------------- MODULE AdminStore -------------------------------
(***************************************************************************)
(* The admin API on the routes and policies tables: calls that look up,    *)
(* write and bump the config version in separate statements, interleaved   *)
(* with those of other admins.                                             *)
(*                                                                         *)
(* Sources: controllers/route.controller.ts,                               *)
(* controllers/policy.controller.ts, repositories/route.repository.ts,     *)
(* repositories/policy.repository.ts, the body schemas that Fastify        *)
(* compiles with defaults (schemas/route.schema.ts), the admin key check   *)
(* and the error handler.                                                  *)
(* HotReload says how the bumped versions reach the gateways.              *)
(*                                                                         *)
(* A row has one column of each kind: `upstream' stands for the columns    *)
(* without a schema default, `retries' for those with one, `enabled' for   *)
(* what only updates send, `canary' for what the Zod schema does not know. *)
(* Each admin makes one call. A policy is deleted by its route.            *)
(***************************************************************************)
EXTENDS Integers, FiniteSets

CONSTANTS
    Admins,
    RouteIds,       \* UUIDs, never used again
    CreateBodies,   \* bodies of POST /admin/routes
    UpdateBodies,   \* bodies of PUT /admin/routes/:id
    PolicyBodies    \* bodies of POST /admin/policies

Columns == {"name", "upstream", "retries", "enabled", "canary"}

\* Bodies name columns, and one that creates a route those it has to.
ASSUME BodiesAssumption ==
    /\ \A body \in CreateBodies \cup UpdateBodies : DOMAIN body \subseteq Columns
    /\ \A body \in CreateBodies : {"name", "upstream"} \subseteq DOMAIN body
    /\ IsFiniteSet(RouteIds)

VARIABLES
    routes,        \* routes[id]: a row, Unused or Deleted
    policies,      \* policies[id]: the policy of route id, if any
    call,          \* call[a]: progress of the call of admin a
    unpublished    \* history: admins whose change no later bump published

vars == <<routes, policies, call, unpublished>>

Unused == [state |-> "unused"]
Deleted == [state |-> "deleted"]
NoPolicy == [state |-> "none"]
NoBody == <<>>

Exists(id) == routes[id].state = "row"

Named(name) == {id \in RouteIds : Exists(id) /\ routes[id].name = name}

\* Two rows never have one name, and a policy always has its route.
NamesUnique == \A id, other \in RouteIds :
    Exists(id) /\ Exists(other) /\ id # other => routes[id].name # routes[other].name

PoliciesHaveRoutes == \A id \in RouteIds : policies[id] # NoPolicy => Exists(id)

Replies == {"ok", "unauthorized", "validationFailed", "notFound", "conflict", "internalError"}

TypeOK ==
    /\ \A id \in RouteIds : routes[id].state \in {"unused", "row", "deleted"}
    /\ \A id \in RouteIds : Exists(id) =>
           DOMAIN routes[id] = Columns \cup {"state"}
    /\ \A id \in RouteIds : policies[id] = NoPolicy \/ DOMAIN policies[id] = {"state", "auth", "cacheTtl"}
    /\ \A a \in Admins :
           /\ call[a].pc \in {"new", "insert", "update", "upsert", "bump", "done"}
           /\ call[a].id \in RouteIds \cup {"none"}
           /\ call[a].reply \in Replies \cup {"none"}
           /\ call[a].wrote \in BOOLEAN
    /\ unpublished \subseteq Admins

-----------------------------------------------------------------------------
(* Validation *)

\* `dto.field ?? row.field' for every column.
Over(dto, row) ==
    [field \in DOMAIN dto \cup DOMAIN row |->
        IF field \in DOMAIN dto THEN dto[field] ELSE row[field]]

\* Fastify compiles the body schema with useDefaults and writes the defaults of
\* missing properties into the body, also into that of an update.
Defaulted(body) == Over(body, [retries |-> 0])

\* What Zod makes of the body: properties its schema does not know are dropped.
Parsed(body) ==
    LET known == DOMAIN Defaulted(body) \ {"canary"}
    IN  [field \in known |-> Defaulted(body)[field]]

\* Variant of CreateDefaults: from before the canary columns.
CreateDefaultsNoCanary == [state |-> "row", retries |-> 2, enabled |-> TRUE]

\* The defaults of RouteRepository.create().
CreateDefaults ==
    [state |-> "row", retries |-> 2, enabled |-> TRUE, canary |-> "null"]

-----------------------------------------------------------------------------
(* Steps common to the handlers *)

\* A call goes on to pc with what it holds.
Progress(a, pc, reply, wrote) ==
    call' = [call EXCEPT ![a] =
        [pc |-> pc, id |-> @.id, body |-> @.body, existing |-> @.existing,
         reply |-> reply, wrote |-> wrote]]

Wrote(a) ==
    /\ Progress(a, "bump", "none", TRUE)
    /\ unpublished' = unpublished \cup {a}

Reply(a, reply) == Progress(a, "done", reply, call[a].wrote)

Refuse(a, reply) ==
    /\ Reply(a, reply)
    /\ UNCHANGED <<routes, policies, unpublished>>

\* findById() or findByName() found route id: the call goes on with it.
GoOn(a, pc, id, body, existing) ==
    /\ call' = [call EXCEPT ![a] =
           [pc |-> pc, id |-> id, body |-> body, existing |-> existing,
            reply |-> "none", wrote |-> FALSE]]
    /\ UNCHANGED <<routes, policies, unpublished>>

\* The preHandler of the admin API, which the lookups come after.
Unauthorized(a) == call[a].pc = "new" /\ Refuse(a, "unauthorized")

ValidationFails(a) == call[a].pc = "new" /\ Refuse(a, "validationFailed")

\* A query fails; what the call committed before stays.
QueryFails(a) ==
    /\ call[a].pc # "done"
    /\ Refuse(a, "internalError")

\* Variant of Bump: the version is bumped for new routes and policies only.
BumpUpdatesNot(a) ==
    /\ call[a].pc = "bump"
    /\ unpublished' = IF call[a].existing = NoBody THEN {} ELSE unpublished
    /\ Reply(a, "ok")
    /\ UNCHANGED <<routes, policies>>

\* configVersionRepo.bump(), and the reply. What was committed so far is
\* published.
Bump(a) ==
    /\ call[a].pc = "bump"
    /\ unpublished' = {}
    /\ Reply(a, "ok")
    /\ UNCHANGED <<routes, policies>>

-----------------------------------------------------------------------------
(* Routes *)

CreateLookup(a) ==
    /\ call[a].pc = "new"
    /\ \E body \in CreateBodies :
           IF Named(body.name) # {}
           THEN Refuse(a, "conflict")
           ELSE GoOn(a, "insert", "none", body, NoBody)

\* Variant of CreateInsert: the name was looked up before.
CreateInsertUnchecked(a) ==
    /\ call[a].pc = "insert"
    /\ \E id \in RouteIds :
           /\ routes[id] = Unused
           /\ routes' = [routes EXCEPT ![id] = Over(Parsed(call[a].body), CreateDefaults)]
           /\ Wrote(a)
    /\ UNCHANGED policies

\* INSERT, or 23505 from the UNIQUE constraint.
CreateInsert(a) ==
    /\ call[a].pc = "insert"
    /\ IF Named(call[a].body.name) # {}
       THEN Refuse(a, "conflict")
       ELSE /\ \E id \in RouteIds :
                   /\ routes[id] = Unused
                   /\ routes' = [routes EXCEPT ![id] = Over(Parsed(call[a].body), CreateDefaults)]
                   /\ Wrote(a)
            /\ UNCHANGED policies

UpdateLookup(a) ==
    /\ call[a].pc = "new"
    /\ \E id \in RouteIds, body \in UpdateBodies :
           IF ~Exists(id)
           THEN Refuse(a, "notFound")
           ELSE GoOn(a, "update", id, body, routes[id])

Updated(a) == Over(Parsed(call[a].body), call[a].existing)

\* Variant of UpdateWrite: the name is written, then found to be taken.
UpdateWriteThenCheck(a) ==
    /\ call[a].pc = "update"
    /\ IF ~Exists(call[a].id)
       THEN Refuse(a, "internalError")
       ELSE /\ routes' = [routes EXCEPT ![call[a].id] = Updated(a)]
            /\ UNCHANGED policies
            /\ IF Named(Updated(a).name) \subseteq {call[a].id}
               THEN Wrote(a)
               ELSE Progress(a, "done", "conflict", TRUE) /\ UNCHANGED unpublished

\* Variant of UpdateWrite: INSERT ... ON CONFLICT in place of UPDATE.
UpdateUpserts(a) ==
    /\ call[a].pc = "update"
    /\ IF Named(Updated(a).name) \ {call[a].id} # {}
       THEN Refuse(a, "conflict")
       ELSE /\ routes' = [routes EXCEPT ![call[a].id] = Updated(a)]
            /\ Wrote(a)
            /\ UNCHANGED policies

\* UPDATE of every column. Of a row deleted since the lookup it returns no row,
\* and mapRow() throws.
UpdateWrite(a) ==
    /\ call[a].pc = "update"
    /\ IF ~Exists(call[a].id)
       THEN Refuse(a, "internalError")
       ELSE IF Named(Updated(a).name) \ {call[a].id} # {}
       THEN Refuse(a, "conflict")
       ELSE /\ routes' = [routes EXCEPT ![call[a].id] = Updated(a)]
            /\ Wrote(a)
            /\ UNCHANGED policies

\* DELETE cascades to the policy.
DeleteRoute(a) ==
    /\ call[a].pc = "new"
    /\ \E id \in RouteIds :
           IF ~Exists(id)
           THEN Refuse(a, "notFound")
           ELSE /\ routes' = [routes EXCEPT ![id] = Deleted]
                /\ policies' = [policies EXCEPT ![id] = NoPolicy]
                /\ Wrote(a)

-----------------------------------------------------------------------------
(* Policies *)

PolicyLookup(a) ==
    /\ call[a].pc = "new"
    /\ \E body \in PolicyBodies :
           IF Named(body.route) = {}
           THEN Refuse(a, "notFound")
           ELSE GoOn(a, "upsert", CHOOSE id \in Named(body.route) : TRUE, body, NoBody)

StoredPolicy(body) == [state |-> "policy", auth |-> body.auth, cacheTtl |-> "null"]

\* Variant of PolicyUpsert: no foreign key.
PolicyUpsertUnchecked(a) ==
    /\ call[a].pc = "upsert"
    /\ policies' = [policies EXCEPT ![call[a].id] = StoredPolicy(call[a].body)]
    /\ Wrote(a)
    /\ UNCHANGED routes

\* INSERT ... ON CONFLICT, or 23503 when the route is gone, which the error
\* handler does not know.
PolicyUpsert(a) ==
    /\ call[a].pc = "upsert"
    /\ IF ~Exists(call[a].id)
       THEN Refuse(a, "internalError")
       ELSE /\ policies' = [policies EXCEPT ![call[a].id] = StoredPolicy(call[a].body)]
            /\ Wrote(a)
            /\ UNCHANGED routes

DeletePolicy(a) ==
    /\ call[a].pc = "new"
    /\ \E id \in RouteIds :
           IF policies[id] = NoPolicy
           THEN Refuse(a, "notFound")
           ELSE /\ policies' = [policies EXCEPT ![id] = NoPolicy]
                /\ Wrote(a)
                /\ UNCHANGED routes

-----------------------------------------------------------------------------
(* Specification *)

NoCall ==
    [pc |-> "new", id |-> "none", body |-> NoBody, existing |-> NoBody,
     reply |-> "none", wrote |-> FALSE]

\* Some routes exist already.
Init ==
    /\ \E old \in SUBSET RouteIds :
           /\ Cardinality(old) <= 1
           /\ routes = [id \in RouteIds |->
                  IF id \in old
                  THEN [state |-> "row", name |-> "orders", upstream |-> "stable",
                        retries |-> 2, enabled |-> TRUE, canary |-> "null"]
                  ELSE Unused]
    /\ policies = [id \in RouteIds |-> NoPolicy]
    /\ call = [a \in Admins |-> NoCall]
    /\ unpublished = {}

Next ==
    \E a \in Admins :
        \/ Unauthorized(a) \/ ValidationFails(a) \/ QueryFails(a) \/ Bump(a)
        \/ CreateLookup(a) \/ CreateInsert(a)
        \/ UpdateLookup(a) \/ UpdateWrite(a)
        \/ DeleteRoute(a)
        \/ PolicyLookup(a) \/ PolicyUpsert(a) \/ DeletePolicy(a)

Spec == Init /\ [][Next]_vars

-----------------------------------------------------------------------------
(* Properties *)

\* A call refused with 400, 401, 404 or 409 changed nothing, whoever raced with it.
RefusedChangesNothing ==
    \A a \in Admins :
        call[a].reply \in {"unauthorized", "validationFailed", "notFound", "conflict"} => ~call[a].wrote

\* A successful reply says that the change was published.
SuccessIsPublished ==
    \A a \in Admins : call[a].reply = "ok" => call[a].wrote /\ a \notin unpublished

\* What a step makes of a deleted route and of the calls that had looked it up.
StaysDeleted(id) ==
    routes[id] = Deleted =>
        /\ routes'[id] = Deleted
        /\ policies'[id] = policies[id]
        /\ \A a \in Admins :
               call[a].pc \in {"update", "upsert"} /\ call[a].id = id =>
                   call'[a].reply \in {"none", "internalError"} /\ ~call'[a].wrote

\* A route that was deleted never comes back, nor a policy for it, though updates and
\* policies that looked it up before are still to be written; and such a call is
\* answered with an error (route.repository.ts, policy.repository.ts).
DeletedStays == [][\A id \in RouteIds : StaysDeleted(id)]_vars

-----------------------------------------------------------------------------
(* What the documentation promises and the code does not do *)

\* "Partial update - only send the fields you want to change" (admin.routes.ts),
\* for the fields whose schema has a default.
UpdateKeepsDefaulted ==
    [][\A a \in Admins : call[a].pc = "update" /\ call'[a].pc = "bump" =>
          \A field \in {"retries"} \ DOMAIN call[a].body :
              routes'[call[a].id][field] = routes[call[a].id][field]]_vars

=============================================================================
