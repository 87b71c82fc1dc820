----------------------------- MODULE SkillRegistry -----------------------------
(***************************************************************************)
(* Skills from their installation to their invocation (skills.py): the     *)
(* registry of the process, the resolver that binds a node to the best     *)
(* eligible skill, and the invoker that crosses to the adapter.            *)
(*                                                                         *)
(* A package is what is on disk for one skill and version: its digest      *)
(* identifies its manifest.  The registry is in memory, the bindings are   *)
(* stored: after a restart other packages may carry the same version.      *)
(*                                                                         *)
(* An object schema has properties, each with a type and perhaps an enum,  *)
(* and names the required ones.  A rule without enum has all values of its *)
(* type.                                                                   *)
(***************************************************************************)
EXTENDS Naturals, FiniteSets

CONSTANTS
    FieldNames, FieldTypes, FieldValues,   \* FieldValues[type]: the values of a type
    Packages,        \* [skill, version, digest, provides, effect, permissions, cost, queryable]
    CapabilitySet,   \* the contracts that may be registered, in the form of Contract
    Requirements,    \* [contract, permissions, effect]: the contract is wanted by name and version
    MaxRestarts      \* bound: restarts

SideEffects == {"PURE", "IDEMPOTENT", "QUERYABLE", "NON_REPLAYABLE"}
Risk(effect) == CASE effect = "PURE" -> 0 [] effect = "IDEMPOTENT" -> 1
                  [] effect = "QUERYABLE" -> 2 [] effect = "NON_REPLAYABLE" -> 3

Rules == UNION {[type : {t}, enum : SUBSET FieldValues[t] \ {{}}] : t \in FieldTypes}
HasEnum(rule) == rule.enum # FieldValues[rule.type]

\* _validate_schema(): what is required is declared
Schemas ==
    UNION {{[rules |-> f, required |-> r] : f \in [names -> Rules], r \in SUBSET names} : names \in SUBSET FieldNames}

RuleKept(required, provided) ==
    /\ provided.type = required.type
    /\ HasEnum(required) => HasEnum(provided) /\ provided.enum \subseteq required.enum

SchemaCompatible(required, provided, contravariant) ==
    /\ IF contravariant THEN provided.required \subseteq required.required
                        ELSE required.required \subseteq provided.required
    /\ \A name \in DOMAIN required.rules :
          /\ name \in DOMAIN provided.rules
          /\ RuleKept(required.rules[name], provided.rules[name])

(* What a schema accepts, by the meaning of JSON Schema: an object is a    *)
(* partial function from names to values, and fields that the schema does  *)
(* not declare are free.                                                   *)
Objects == UNION {[names -> UNION {FieldValues[t] : t \in FieldTypes}] : names \in SUBSET FieldNames}
Conforms(object, schema) ==
    /\ schema.required \subseteq DOMAIN object
    /\ \A name \in DOMAIN object \cap DOMAIN schema.rules : object[name] \in schema.rules[name].enum

Contract(name, version, major, input, output, effect, permissions) ==
    [name |-> name, version |-> version, major |-> major, input |-> input, output |-> output,
     effect |-> effect, permissions |-> permissions]

\* CapabilityRegistry.compatible(): the provided contract can stand for the required one
Compatible(required, provided) ==
    /\ required.name = provided.name /\ required.major = provided.major
    /\ SchemaCompatible(required.input, provided.input, TRUE)
    /\ SchemaCompatible(required.output, provided.output, FALSE)
    /\ Risk(provided.effect) <= Risk(required.effect)
    /\ provided.permissions \subseteq required.permissions

Same(p, q) == p.skill = q.skill /\ p.version = q.version

ASSUME SkillAssumption ==
    /\ \A p, q \in Packages : p.digest = q.digest => p = q
    /\ \A p \in Packages : p.provides \in CapabilitySet
    /\ \A r \in Requirements : r.contract \in CapabilitySet
    /\ MaxRestarts \in Nat

VARIABLES
    contracts,     \* the capabilities of the process: a set of contracts
    skills,        \* the registry: a set of [package, status, verified, health]
    bindings,      \* the bindings of the runs: [package, requirement]
    invoked,       \* history: the packages whose adapter was called or asked, with the binding
    restarts

skillVars == <<contracts, skills, bindings, invoked, restarts>>

Healths == {"HEALTHY", "DEGRADED", "UNHEALTHY"}
Unchecked == "UNCHECKED"

SkillInit == contracts = {} /\ skills = {} /\ bindings = {} /\ invoked = {} /\ restarts = 0

Replaced(item, changed) == skills' = (skills \ {item}) \cup {changed}

\* register(): one contract of a name and version
RegisterCapability(c) ==
    /\ ~ \E other \in contracts : other.name = c.name /\ other.version = c.version
    /\ contracts' = contracts \cup {c}
    /\ UNCHANGED <<skills, bindings, invoked, restarts>>

\* get(): what is registered under the name and version of c, which may be another contract
Found(c) == {known \in contracts : known.name = c.name /\ known.version = c.version}

\* load(): the digest of the manifest is the one of the package it came in
Loads(p, found) == p.digest = found

\* install(): one package of a version, with the side effect of its contract and no more permissions
InstallSkill(p, found) ==
    /\ Loads(p, found)
    /\ ~ \E item \in skills : Same(item.package, p)
    /\ \E c \in Found(p.provides) : p.effect = c.effect /\ p.permissions \subseteq c.permissions
    /\ skills' = skills \cup {[package |-> p, status |-> "INSTALLED", verified |-> FALSE, health |-> Unchecked]}
    /\ UNCHANGED <<contracts, bindings, invoked, restarts>>

VerifySkill(item) ==
    /\ Replaced(item, [item EXCEPT !.status = "VERIFIED", !.verified = TRUE])
    /\ UNCHANGED <<contracts, bindings, invoked, restarts>>

EnableSkill(item, health) ==
    /\ item.verified /\ health # "UNHEALTHY"
    /\ Replaced(item, [item EXCEPT !.status = "ENABLED", !.health = health])
    /\ UNCHANGED <<contracts, bindings, invoked, restarts>>

DisableSkill(item) ==
    /\ Replaced(item, [item EXCEPT !.status = "DISABLED"])
    /\ UNCHANGED <<contracts, bindings, invoked, restarts>>

Eligible(item, r) ==
    /\ item.status = "ENABLED" /\ item.package.provides.name = r.contract.name
    /\ \E required \in Found(r.contract), provided \in Found(item.package.provides) : Compatible(required, provided)
    /\ Risk(item.package.effect) <= Risk(r.effect)
    /\ item.package.permissions \subseteq r.permissions
    /\ item.health \in {"HEALTHY", "DEGRADED"}

\* The order of resolve(): health, cost, the newest version; what is equal so far is decided by names
Before(a, b) ==
    LET rank(i) == IF i.health = "HEALTHY" THEN 0 ELSE 1 IN
    \/ rank(a) < rank(b)
    \/ rank(a) = rank(b) /\ a.package.cost < b.package.cost
    \/ rank(a) = rank(b) /\ a.package.cost = b.package.cost /\ a.package.version > b.package.version

Resolve(r) ==
    LET eligible == {item \in skills : Eligible(item, r)} IN
    /\ \E best \in eligible :
          /\ ~ \E other \in eligible : Before(other, best)
          /\ bindings' = bindings \cup {[package |-> best.package, requirement |-> r]}
    /\ UNCHANGED <<contracts, skills, invoked, restarts>>

(* A faulty check: the version alone identifies the skill.                 *)
SameVersion(installed, bound) == Same(installed, bound)
Pinned(installed, bound) == Same(installed, bound) /\ installed.digest = bound.digest

(* invoke(): the package that is installed now, whatever its status, must  *)
(* have the digest of the binding and only permissions the request allows. *)
InvokeSkill(b) ==
    /\ \E item \in skills :
          /\ Pinned(item.package, b.package)
          /\ item.package.permissions \subseteq b.requirement.permissions
          /\ invoked' = invoked \cup {[package |-> item.package, by |-> b]}
    /\ UNCHANGED <<contracts, skills, bindings, restarts>>

\* query_result(): the package of the binding and no replacement, if it can be asked
QuerySkill(b) ==
    /\ \E item \in skills :
          /\ Pinned(item.package, b.package) /\ item.package.queryable
          /\ invoked' = invoked \cup {[package |-> item.package, by |-> b]}
    /\ UNCHANGED <<contracts, skills, bindings, restarts>>

\* The process starts again with empty registries; the bindings of its runs are stored
SkillRestart ==
    /\ restarts < MaxRestarts
    /\ restarts' = restarts + 1 /\ skills' = {} /\ contracts' = {}
    /\ UNCHANGED <<bindings, invoked>>

SkillNext ==
    \/ \E c \in CapabilitySet : RegisterCapability(c)
    \/ \E p \in Packages, found \in {q.digest : q \in Packages} : InstallSkill(p, found)
    \/ \E item \in skills : \/ VerifySkill(item) \/ DisableSkill(item)
                            \/ \E h \in Healths : EnableSkill(item, h)
    \/ \E r \in Requirements : Resolve(r)
    \/ \E b \in bindings : InvokeSkill(b) \/ QuerySkill(b)
    \/ SkillRestart

VARIABLES wanted, offered    \* two schemas that resolve() compares

contractVars == <<wanted, offered>>
EmptySchema == [rules |-> <<>>, required |-> {}]

ContractInit == wanted = EmptySchema /\ offered = EmptySchema
CompareSchemas ==
    /\ wanted = EmptySchema /\ offered = EmptySchema
    /\ wanted' \in Schemas /\ offered' \in Schemas

SkillSpec ==
    /\ SkillInit /\ ContractInit
    /\ [][\/ SkillNext /\ UNCHANGED contractVars
          \/ CompareSchemas /\ UNCHANGED skillVars]_<<skillVars, contractVars>>

(* What a compatible skill answers is an answer of the capability that was *)
(* asked for.                                                              *)
OutputsAreSafe ==
    SchemaCompatible(wanted, offered, FALSE) =>
       \A o \in Objects : Conforms(o, offered) => Conforms(o, wanted)

(* Whatever is registered, installed, upgraded or disabled between the     *)
(* resolution of a node and its invocation or the question for its result, *)
(* the adapter that is called is the one that was resolved, and has no     *)
(* more side effect and no more permissions than the node required.        *)
WithinItsContract ==
    \A i \in invoked :
       /\ i.package = i.by.package
       /\ Risk(i.package.effect) <= Risk(i.by.requirement.effect)
       /\ i.package.permissions \subseteq i.by.requirement.permissions

(* The skill that answers for a capability stays within what was asked of  *)
(* it: in what it may do and in what it returns.                           *)
SkillsKeepContracts == OutputsAreSafe /\ WithinItsContract
=============================================================================
