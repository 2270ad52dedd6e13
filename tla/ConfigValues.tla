---------------------------- MODULE ConfigValues ----------------------------
(* Environment variables and secrets of a project (controlplane/envvar,        *)
(* controlplane/secret, controlplane/crypto). Both tables have the same         *)
(* statements; a row's kind tells which it is in.                              *)
EXTENDS Naturals, FiniteSets, Rows

CONSTANTS
    ValueIds,   \* rows of controlplane_env_vars and controlplane_secrets
    KeyNames,   \* keys and names
    Scopes,     \* environments
    Editors,    \* requests served at the same time
    MaxValue    \* bound: the values that were ever sent, 1..MaxValue

VARIABLES
    values,     \* the rows of both tables
    history,    \* controlplane_env_var_versions, controlplane_secret_versions
    lastValue,  \* the last value that a client sent
    vreqs       \* what each running request has read

cvars == <<values, history, lastValue, vreqs>>

Kinds == {"env", "secret"}

\* The project all rows belong to, and the key of the process.
Project == [org |-> "org", project |-> "project"]

\* AAD: a ciphertext is bound to the organization and the project.
AAD(p) == <<p.org, p.project>>
Encrypt(value, aad) == [value |-> value, aad |-> aad]

Ciphertexts == [value : 1..MaxValue, aad : {AAD(Project)}]
ValueRow == [kind : Kinds, name : KeyNames, scope : Scopes, enc : Ciphertexts, version : Nat \ {0}, deleted : BOOLEAN]

ASSUME ConfigAssumption == MaxValue \in Nat /\ NoRow \notin ValueRow

VIdle == [op |-> "idle"]

ConfigInit ==
    /\ values = [v \in ValueIds |-> NoRow]
    /\ history = {} /\ lastValue = 0
    /\ vreqs = [w \in Editors |-> VIdle]

VTo(w, req) == vreqs' = [vreqs EXCEPT ![w] = req]

-----------------------------------------------------------------------------
(* Handlers: each value that arrives is a new one *)

ValueRoute(w, req) ==
    /\ vreqs[w] = VIdle /\ lastValue < MaxValue
    /\ lastValue' = lastValue + 1
    /\ VTo(w, [req EXCEPT !.enc = Encrypt(lastValue', AAD(Project))])
    /\ UNCHANGED <<values, history>>

CreateEnv(w, k, s) == ValueRoute(w, [op |-> "create", kind |-> "env", name |-> k, scope |-> s, enc |-> 0])

CreateSecret(w, k, s) == ValueRoute(w, [op |-> "create", kind |-> "secret", name |-> k, scope |-> s, enc |-> 0])

\* Update and Rotate look the row up before the transaction does.
UpdateEnv(w, v) == v \in LiveIds(values) /\ values[v].kind = "env" /\ ValueRoute(w, [op |-> "update", id |-> v, enc |-> 0])

RotateSecret(w, v) == v \in LiveIds(values) /\ values[v].kind = "secret" /\ ValueRoute(w, [op |-> "update", id |-> v, enc |-> 0])

-----------------------------------------------------------------------------
(* Repositories *)

\* controlplane_env_vars_key_uniq, controlplane_secrets_name_uniq.
NameFree(kind, k, s) == Find(values, LAMBDA r : r.kind = kind /\ r.name = k /\ r.scope = s) = {}

\* The row starts at version 1; the index may refuse it.
CreateValue(w, v) ==
    /\ vreqs[w].op = "create" /\ values[v] = NoRow
    /\ LET q == vreqs[w] IN
       values' = IF ~NameFree(q.kind, q.name, q.scope) THEN values
                 ELSE Insert(values, v, [kind |-> q.kind, name |-> q.name, scope |-> q.scope, enc |-> q.enc, version |-> 1, deleted |-> FALSE])
    /\ VTo(w, VIdle)
    /\ UNCHANGED <<history, lastValue>>

\* UpdateValue, Rotate: the transaction reads the row without a lock.
ReadVersion(w) ==
    /\ vreqs[w].op = "update"
    /\ IF vreqs[w].id \notin LiveIds(values) THEN VTo(w, VIdle)
       ELSE VTo(w, [op |-> "write", id |-> vreqs[w].id, enc |-> vreqs[w].enc, read |-> values[vreqs[w].id]])
    /\ UNCHANGED <<values, history, lastValue>>

MutKeepVersion(v, row) == [id |-> v, version |-> row.version + 1, enc |-> row.enc]

\* The version that the transaction keeps: the row it read.
KeepVersion(v, row) == [id |-> v, version |-> row.version, enc |-> row.enc]

\* It keeps what it read, and writes the new value by id, deleted or not.
WriteVersion(w) ==
    /\ vreqs[w].op = "write"
    /\ LET q == vreqs[w] IN
       /\ history' = history \union {KeepVersion(q.id, q.read)}
       /\ values' = [values EXCEPT ![q.id].enc = q.enc, ![q.id].version = q.read.version + 1]
    /\ VTo(w, VIdle)
    /\ UNCHANGED lastValue

DeleteEnv(v) ==
    /\ v \in LiveIds(values) /\ values[v].kind = "env"
    /\ values' = SoftDelete(values, v)
    /\ UNCHANGED <<history, lastValue, vreqs>>

DeleteSecret(v) ==
    /\ v \in LiveIds(values) /\ values[v].kind = "secret"
    /\ values' = SoftDelete(values, v)
    /\ UNCHANGED <<history, lastValue, vreqs>>

ValueRequestFails(w) == vreqs[w] # VIdle /\ VTo(w, VIdle) /\ UNCHANGED <<values, history, lastValue>>

ConfigNext ==
    \/ \E w \in Editors :
        \/ ReadVersion(w) \/ WriteVersion(w) \/ ValueRequestFails(w)
        \/ \E k \in KeyNames, s \in Scopes : CreateEnv(w, k, s) \/ CreateSecret(w, k, s)
        \/ \E v \in ValueIds : UpdateEnv(w, v) \/ RotateSecret(w, v) \/ CreateValue(w, v)
    \/ \E v \in ValueIds : DeleteEnv(v) \/ DeleteSecret(v)

-----------------------------------------------------------------------------
(* Properties *)

\* The rows are those that the two repositories write.
ConfigTypeOK ==
    /\ \A v \in ValueIds : values[v] # NoRow => values[v] \in ValueRow
    /\ history \subseteq [id : ValueIds, version : Nat \ {0}, enc : Ciphertexts]

\* Two live variables, or two live secrets, never share name and environment.
OneValuePerName ==
    \A v, x \in LiveIds(values) :
        (values[v].kind = values[x].kind /\ values[v].name = values[x].name /\ values[v].scope = values[x].scope) => v = x

\* A value that is overwritten is kept under its version, unless the transaction that
\* overwrites it had read the row before that value was there.
OverwrittenKept ==
    [][\A v \in ValueIds : (values[v] # NoRow /\ values'[v].enc # values[v].enc) =>
        \/ [id |-> v, version |-> values[v].version, enc |-> values[v].enc] \in history'
        \/ \E w \in Editors : vreqs[w].op = "write" /\ vreqs[w].id = v /\ vreqs[w].read.enc # values[v].enc]_cvars
=============================================================================
