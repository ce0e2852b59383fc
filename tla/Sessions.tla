------------------------------ MODULE Sessions --------------------------------
(***************************************************************************)
(* The stored sessions of the harness (auth.ts): every opening of a        *)
(* scenario resolves its roles, one after the other, to one storage state, *)
(* through a cache of files that other test processes read and write at    *)
(* the same time.                                                          *)
(*                                                                         *)
(* A session is the login that minted it.  What it stores is abstracted to *)
(* keys: a cookie (name, domain, path), an item of localStorage (origin,   *)
(* name), or another field of an origin, such as its indexedDB.            *)
(*                                                                         *)
(* The specification's names start with SS: Credentials_proofs extends     *)
(* this module and Credentials.                                            *)
(***************************************************************************)
EXTENDS Naturals, FiniteSets, SequencesExt

CONSTANTS
    Thread,      \* the calls of resolveStorageState, of this and of other processes
    Role,
    Env,         \* the origins of base URLs; one of them stands for "no valid URL"
    Key,
    Unwatched,   \* the keys that are fields of an origin other than localStorage
    SetBy,       \* the keys a role's session has values for
    RolesOf,     \* the roles a call is made with
    EnvOf,       \* the origin of the base URL it is made with
    MaxLogins,   \* bound: logins of a role in an environment
    NoFile,      \* readCacheRaw's null: no file, or one it could not read
    Empty,       \* a file that was truncated and not yet written
    Garbled      \* a file whose end is left over from a longer session

Session == [role : Role, env : Env, login : 1..MaxLogins]

ASSUME SessionsAssumption ==
    /\ SetBy \in [Role -> SUBSET Key]
    /\ RolesOf \in [Thread -> Seq(Role)]
    /\ \A t \in Thread : IsInjective(RolesOf[t])
    /\ EnvOf \in [Thread -> Env]
    /\ MaxLogins \in Nat
    /\ \A bytes \in {NoFile, Empty, Garbled} : bytes \notin Session

VARIABLES
    flags,       \* OPICE_AUTH_REFRESH and OPICE_AUTH_STRICT
    disk,        \* the cache files
    logins,      \* how often a role has logged in
    stage,       \* where each call is
    raw,         \* the bytes it read for the role it is at
    state,       \* what the provider gave it for that role
    entries,     \* the sessions it has collected
    todo,        \* the roles it has still to resolve
    seeds,       \* what it resolved to: the login behind each key
    undisturbed  \* history: the calls no other call overlapped

cacheVars == <<disk, logins>>
callVars  == <<stage, raw, state, entries, todo, seeds, undisturbed>>
ssVars    == <<flags, cacheVars, callVars>>

File    == Role \X Env
Nothing == [k \in {} |-> NoFile]      \* a fresh, cookieless context

Working == {"reading", "asking", "opening", "writing", "merging"}

SSTypeOK ==
    /\ flags \in [refresh : BOOLEAN, strict : BOOLEAN]
    /\ disk \in [File -> Session \cup {NoFile, Empty, Garbled}]
    /\ logins \in [File -> 0..MaxLogins]
    /\ stage \in [Thread -> Working \cup {"idle", "resolved", "refused"}]
    /\ raw \in [Thread -> Session \cup {NoFile, Empty, Garbled}]
    /\ state \in [Thread -> Session \cup {NoFile}]
    /\ DOMAIN entries = Thread /\ DOMAIN todo = Thread /\ DOMAIN seeds = Thread
    /\ \A t \in Thread : entries[t] \in Seq(Session) /\ todo[t] \in Seq(Role)
    /\ \A t \in Thread : DOMAIN seeds[t] \subseteq Key /\ Range(seeds[t]) \subseteq Session
    /\ undisturbed \subseteq Thread

SSInit ==
    /\ flags \in [refresh : BOOLEAN, strict : BOOLEAN]
    /\ disk = [f \in File |-> NoFile]
    /\ logins = [f \in File |-> 0]
    /\ stage = [t \in Thread |-> "idle"]
    /\ raw = [t \in Thread |-> NoFile]
    /\ state = [t \in Thread |-> NoFile]
    /\ entries = [t \in Thread |-> <<>>]
    /\ todo = RolesOf
    /\ seeds = [t \in Thread |-> Nothing]
    /\ undisturbed = {}

-----------------------------------------------------------------------------
\* cacheFile: the hash in the name carries the whole role and origin.
CacheFile(t) == <<Head(todo[t]), EnvOf[t]>>

\* A mutant: the earlier role keeps a key that both set.
FirstWins(es) ==
    [k \in UNION {SetBy[es[i].role] : i \in DOMAIN es} |->
        es[Min({i \in DOMAIN es : k \in SetBy[es[i].role]})]]

\* mergeStates: the union, and the later role keeps a key that both set.
MergeStates(es) ==
    [k \in UNION {SetBy[es[i].role] : i \in DOMAIN es} |->
        es[Max({i \in DOMAIN es : k \in SetBy[es[i].role]})]]

\* reportIdentityConflict is called: two roles set one key, of those that are
\* compared.  (Two logins never have one value.)
IdentityConflict(es) ==
    \E i, j \in DOMAIN es :
        /\ es[i].role # es[j].role
        /\ (SetBy[es[i].role] \cap SetBy[es[j].role]) \ Unwatched # {}

-----------------------------------------------------------------------------
Busy == {t \in Thread : stage[t] \in Working}

\* resolveStorageState is called; without a role there is nothing to inject.
Resolve(t) ==
    /\ stage[t] = "idle"
    /\ IF todo[t] = <<>>
       THEN stage' = [stage EXCEPT ![t] = "resolved"] /\ UNCHANGED undisturbed
       ELSE /\ stage' = [stage EXCEPT ![t] = "reading"]
            /\ undisturbed' = IF Busy = {} THEN undisturbed \cup {t} ELSE undisturbed \ Busy
    /\ UNCHANGED <<flags, cacheVars, raw, state, entries, todo, seeds>>

ReadCacheRaw(t) ==
    /\ stage[t] = "reading"
    /\ stage' = [stage EXCEPT ![t] = "asking"]
    /\ raw' = [raw EXCEPT ![t] = IF flags.refresh THEN NoFile ELSE disk[CacheFile(t)]]
    /\ UNCHANGED <<flags, cacheVars, state, entries, todo, seeds, undisturbed>>

\* On to the next role, or to the merge.
NextRole(t) ==
    /\ todo' = [todo EXCEPT ![t] = Tail(@)]
    /\ stage' = [stage EXCEPT ![t] = IF Len(todo[t]) = 1 THEN "merging" ELSE "reading"]

\* A mutant: a file that exists is taken for a session.
Exists(t) == raw[t] # NoFile

\* safeParse: what does not parse is never handed to the provider.
SafeParsed(t) == raw[t] \in Session

\* The provider finds the cached session good and returns it: its bytes are
\* those on disk.
Reuse(t) ==
    /\ stage[t] = "asking"
    /\ SafeParsed(t)
    /\ entries' = [entries EXCEPT ![t] = Append(@, raw[t])]
    /\ NextRole(t)
    /\ UNCHANGED <<flags, cacheVars, raw, state, seeds, undisturbed>>

\* A mutant: only what was missing is written.
KeptAsIs(t) == raw[t] \in Session

\* `serialized !== rawCached` is false: what the provider returned is on disk.
SameBytes(t) == state'[t] = raw[t]

\* It logs in: a new session, which differs from what was read.  Renewing the
\* cached object in place comes to the same.
LogIn(t) ==
    LET f == <<Head(todo[t]), EnvOf[t]>> IN
    /\ stage[t] = "asking"
    /\ logins[f] < MaxLogins
    /\ logins' = [logins EXCEPT ![f] = @ + 1]
    /\ state' = [state EXCEPT ![t] = [role |-> f[1], env |-> f[2], login |-> logins[f] + 1]]
    /\ IF SameBytes(t)
       THEN entries' = [entries EXCEPT ![t] = Append(@, state'[t])] /\ NextRole(t)
       ELSE stage' = [stage EXCEPT ![t] = "opening"] /\ UNCHANGED <<entries, todo>>
    /\ UNCHANGED <<flags, disk, raw, seeds, undisturbed>>

\* It returns null or an empty state: an annotation, or a role that stays
\* logged out.
Disown(t) ==
    /\ stage[t] = "asking"
    /\ NextRole(t)
    /\ UNCHANGED <<flags, cacheVars, raw, state, entries, seeds, undisturbed>>

\* writeFile opens the file, which truncates it ...
OpenFile(t) ==
    /\ stage[t] = "opening"
    /\ stage' = [stage EXCEPT ![t] = "writing"]
    /\ disk' = [disk EXCEPT ![CacheFile(t)] = Empty]
    /\ UNCHANGED <<flags, logins, raw, state, entries, todo, seeds, undisturbed>>

\* ... and writes from its beginning.  What another writer wrote meanwhile shows
\* behind it where it was longer.
WriteFile(t) ==
    /\ stage[t] = "writing"
    /\ \E bytes \in {state[t], Garbled} :
          /\ disk[CacheFile(t)] = Empty => bytes = state[t]
          /\ disk' = [disk EXCEPT ![CacheFile(t)] = bytes]
    /\ entries' = [entries EXCEPT ![t] = Append(@, state[t])]
    /\ NextRole(t)
    /\ UNCHANGED <<flags, logins, raw, state, seeds, undisturbed>>

\* The provider throws, or the write does; or, of another process, it exits.
Break(t) ==
    /\ stage[t] \in {"asking", "opening", "writing"}
    /\ stage' = [stage EXCEPT ![t] = "refused"]
    /\ UNCHANGED <<flags, cacheVars, raw, state, entries, todo, seeds, undisturbed>>

\* The merge, which throws in strict mode where two roles clash.
Merge(t) ==
    /\ stage[t] = "merging"
    /\ IF flags.strict /\ IdentityConflict(entries[t])
       THEN stage' = [stage EXCEPT ![t] = "refused"] /\ UNCHANGED seeds
       ELSE /\ stage' = [stage EXCEPT ![t] = "resolved"]
            /\ seeds' = [seeds EXCEPT ![t] = MergeStates(entries[t])]
    /\ UNCHANGED <<flags, cacheVars, raw, state, entries, todo, undisturbed>>

\* The calls are of several processes, or of one that has abandoned an opening.
SSNext ==
    \E t \in Thread :
        \/ Resolve(t)
        \/ ReadCacheRaw(t)
        \/ Reuse(t) \/ LogIn(t) \/ Disown(t)
        \/ OpenFile(t) \/ WriteFile(t)
        \/ Break(t)
        \/ Merge(t)

SSSpec == SSInit /\ [][SSNext]_ssVars

-----------------------------------------------------------------------------
(***************************************************************************)
(* Properties.                                                             *)
(***************************************************************************)

\* auth.ts: distinct (role, origin) pairs "never collide on one file", which
\* would "make a scenario run as the wrong identity, or carry a stale
\* cross-environment session".  Whatever the processes that share the cache do
\* to a file, a scenario opens with logins of its own roles in its own
\* environment only; a key set by two roles has the login of the later one, and
\* under OPICE_AUTH_STRICT no cookie and no item of localStorage was overridden.
SeededAsDeclared ==
    \A t \in Thread :
        /\ \A i \in DOMAIN entries[t] :
              entries[t][i].env = EnvOf[t] /\ entries[t][i].role \in Range(RolesOf[t])
        /\ stage[t] = "resolved" =>
              \A i \in DOMAIN entries[t], k \in Key :
                  k \in SetBy[entries[t][i].role] =>
                      /\ k \in DOMAIN seeds[t]
                      /\ seeds[t][k] = entries[t][i]
                         \/ /\ \E j \in DOMAIN entries[t] : j > i /\ seeds[t][k] = entries[t][j]
                            /\ flags.strict => k \in Unwatched

\* However a file was left by crashes and by writers that overlapped, a call
\* that resolves its roles while no other is under way leaves the cache with
\* exactly the sessions it is about to use.
ResolvingAloneHeals ==
    \A t \in undisturbed : stage[t] = "merging" =>
        \A i \in DOMAIN entries[t] : disk[<<entries[t][i].role, entries[t][i].env>>] = entries[t][i]

=============================================================================
