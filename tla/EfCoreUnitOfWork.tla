-------------------------- MODULE EfCoreUnitOfWork --------------------------
(***************************************************************************)
(* One EfCoreUnitOfWork with its EfCoreTransactionStrategy: the DbContexts *)
(* it hands out to repositories, the transaction it begins per connection, *)
(* CompleteUowAsync (save every context, then commit every transaction)    *)
(* and DisposeUow.                                                         *)
(*                                                                         *)
(* Branches are the async frames that use this unit of work, for example   *)
(* the tasks of a Task.WhenAll.  A branch runs synchronously between two   *)
(* awaits, so each segment between awaits is one action.  The frame that   *)
(* opened the unit of work awaits its branches before it completes or      *)
(* disposes it.  Which unit of work is current is in UnitOfWork.           *)
(***************************************************************************)
EXTENDS Naturals, FiniteSets

CONSTANTS
  Branches,   \* async frames that use the unit of work
  Keys,       \* dbcontext keys: context type, connection and optional name
  NoKey,      \* the key of a context that does not exist yet
  Conns,      \* connection strings
  ConnOf,     \* the connection of each key (GetConnectionName)
  Uses,       \* the keys each branch asks for
  MaxCtx,     \* bound: DbContexts created
  MaxChanges, \* bound: changes made
  Modes,      \* the values of Options.IsTransactional to consider
  Faults      \* which database calls may throw: "begin", "save", "commit", "ack"

ASSUME NoKeyAssumption == NoKey \notin Keys
ASSUME ConnOfAssumption == ConnOf \in [Keys -> Conns]
ASSUME UsesAssumption == Uses \in [Branches -> SUBSET Keys]
ASSUME MaxCtxAssumption == MaxCtx \in Nat
ASSUME MaxChangesAssumption == MaxChanges \in Nat
ASSUME ModesAssumption == Modes \subseteq BOOLEAN
ASSUME FaultsAssumption == Faults \subseteq {"begin", "save", "commit", "ack"}

Ctx == 1 .. MaxCtx
None == 0                      \* the null reference
CtxOrNone == 0 .. MaxCtx
Change == 1 .. MaxChanges
BranchState == {"idle", "beginning", "sharing"}
Phase == {"active", "saving", "committing", "succeeded", "failed"}

\* A transaction is named by the DbContext that began it.
VARIABLES
  transactional, \* Options.IsTransactional
  phase,         \* "saving" and "committing" are the stages of CompleteUowAsync
  disposed,      \* IsDisposed
  todo,          \* contexts still to save, or transactions still to commit
  at,            \* what each branch awaits in CreateDbContextAsync
  making,        \* the DbContext that call is creating
  holds,         \* the DbContext the branch works with
  nctx,          \* how many contexts were created
  key,           \* the key each was created for
  tx,            \* the transaction it takes part in
  closed,        \* the contexts that were disposed
  txState,       \* "none", "open", "committed" or "rolledback"
  cached,        \* ActiveDbContexts
  active,        \* ActiveTransactionInfos: the transaction of each connection
  attended,      \* AttendedDbContexts of the entry made for a transaction
  nchanges,      \* how many changes were made through a context
  tracked,       \* changes a context tracks and did not save
  flushed,       \* changes saved inside a transaction
  durable        \* changes the database keeps

uowVars == <<transactional, phase, disposed, todo>>
branchVars == <<at, making, holds>>
ctxVars == <<nctx, key, tx, closed>>
regVars == <<cached, active, attended>>
dataVars == <<nchanges, tracked, flushed, durable>>
vars == <<transactional, phase, disposed, todo, at, making, holds,
          nctx, key, tx, closed, txState, cached, active, attended,
          nchanges, tracked, flushed, durable>>

Init ==
  /\ transactional \in Modes
  /\ phase = "active" /\ disposed = FALSE /\ todo = {}
  /\ at = [b \in Branches |-> "idle"]
  /\ making = [b \in Branches |-> None]
  /\ holds = [b \in Branches |-> None]
  /\ nctx = 0
  /\ key = [c \in Ctx |-> NoKey]
  /\ tx = [c \in Ctx |-> None]
  /\ closed = {}
  /\ txState = [c \in Ctx |-> "none"]
  /\ cached = [k \in Keys |-> None]
  /\ active = [n \in Conns |-> None]
  /\ attended = [t \in Ctx |-> {}]
  /\ nchanges = 0
  /\ tracked = [c \in Ctx |-> {}]
  /\ flushed = [c \in Ctx |-> {}]
  /\ durable = {}

-----------------------------------------------------------------------------
(* GetOrCreateDbContextAsync, GetOrCreateDbContext                          *)

CanStep(b) == phase = "active" /\ ~disposed /\ at[b] = "idle"

\* ActiveDbContexts has the key.
GetCached(b, k) ==
  /\ CanStep(b) /\ k \in Uses[b] /\ cached[k] # None
  /\ holds' = [holds EXCEPT ![b] = cached[k]]
  /\ UNCHANGED <<uowVars, at, making, ctxVars, txState, regVars, dataVars>>

\* DbContextResolver.Resolve: a context of its own service scope.
Resolve(k) ==
  /\ nctx < MaxCtx
  /\ nctx' = nctx + 1
  /\ key' = [key EXCEPT ![nctx + 1] = k]

TryAdd(k, c) == cached' = IF cached[k] = None THEN [cached EXCEPT ![k] = c] ELSE cached

\* Not transactional: the context works on its own, each save is durable.
GetNew(b, k) ==
  /\ CanStep(b) /\ k \in Uses[b] /\ cached[k] = None /\ ~transactional
  /\ Resolve(k)
  /\ TryAdd(k, nctx + 1)
  /\ holds' = [holds EXCEPT ![b] = nctx + 1]
  /\ UNCHANGED <<uowVars, at, making, tx, closed, txState, active, attended, dataVars>>

\* Transactional: CreateDbContextAsync runs up to its await, BeginTransactionAsync
\* on a connection without a transaction, UseTransactionAsync on one that has it.
CreateStart(b, k) ==
  LET shared == active[ConnOf[k]] IN
  /\ CanStep(b) /\ k \in Uses[b] /\ cached[k] = None /\ transactional
  /\ Resolve(k)
  /\ making' = [making EXCEPT ![b] = nctx + 1]
  /\ at' = [at EXCEPT ![b] = IF shared = None THEN "beginning" ELSE "sharing"]
  /\ tx' = [tx EXCEPT ![nctx + 1] = shared]
  /\ UNCHANGED <<uowVars, holds, closed, txState, regVars, dataVars>>

HandOut(b) ==
  /\ TryAdd(key[making[b]], making[b])
  /\ at' = [at EXCEPT ![b] = "idle"]
  /\ holds' = [holds EXCEPT ![b] = making[b]]
  /\ making' = [making EXCEPT ![b] = None]

CreateBegun(b) ==
  LET c == making[b] IN
  /\ at[b] = "beginning"
  /\ tx' = [tx EXCEPT ![c] = c]
  /\ txState' = [txState EXCEPT ![c] = "open"]
  /\ active' = [active EXCEPT ![ConnOf[key[c]]] = c]
  /\ HandOut(b)
  /\ UNCHANGED <<uowVars, nctx, key, closed, attended, dataVars>>

CreateShared(b) ==
  LET c == making[b] IN
  /\ at[b] = "sharing"
  /\ attended' = [attended EXCEPT ![tx[c]] = @ \cup {c}]
  /\ HandOut(b)
  /\ UNCHANGED <<uowVars, ctxVars, txState, active, dataVars>>

\* BeginTransactionAsync or UseTransactionAsync threw; the context is dropped.
CreateFails(b) ==
  /\ "begin" \in Faults /\ at[b] # "idle"
  /\ at' = [at EXCEPT ![b] = "idle"]
  /\ making' = [making EXCEPT ![b] = None]
  /\ tx' = [tx EXCEPT ![making[b]] = None]
  /\ UNCHANGED <<uowVars, holds, nctx, key, closed, txState, regVars, dataVars>>

-----------------------------------------------------------------------------
(* Repository operations                                                    *)

\* Insert, Update, Delete: the context tracks the change.
MakeChange(b) ==
  /\ CanStep(b) /\ holds[b] # None /\ nchanges < MaxChanges
  /\ nchanges' = nchanges + 1
  /\ tracked' = [tracked EXCEPT ![holds[b]] = @ \cup {nchanges + 1}]
  /\ UNCHANGED <<uowVars, branchVars, ctxVars, txState, regVars, flushed, durable>>

\* DbContext.SaveChangesAsync: into the transaction of the context if it has one.
FlushOutside(c) ==   \* mutant: a context that shares a transaction saves outside it
  /\ tracked' = [tracked EXCEPT ![c] = {}]
  /\ IF tx[c] # c
     THEN durable' = durable \cup tracked[c] /\ UNCHANGED flushed
     ELSE flushed' = [flushed EXCEPT ![c] = @ \cup tracked[c]] /\ UNCHANGED durable

Flush(c) ==
  /\ tracked' = [tracked EXCEPT ![c] = {}]
  /\ IF tx[c] = None
     THEN durable' = durable \cup tracked[c] /\ UNCHANGED flushed
     ELSE flushed' = [flushed EXCEPT ![tx[c]] = @ \cup tracked[c]] /\ UNCHANGED durable

\* IRepository.SaveChangesAsync, called by a branch inside the unit of work.
SaveNow(b) ==
  /\ CanStep(b) /\ holds[b] # None /\ tracked[holds[b]] # {}
  /\ Flush(holds[b])
  /\ UNCHANGED <<uowVars, branchVars, ctxVars, txState, regVars, nchanges>>

-----------------------------------------------------------------------------
(* CompleteUowAsync                                                         *)

AllIdle == \A b \in Branches : at[b] = "idle"

Active == {cached[k] : k \in Keys} \ {None}        \* GetActiveDbContexts
OpenTxs == {active[n] : n \in Conns} \ {None}      \* ActiveTransactionInfos.Values

CompleteStart ==
  /\ phase = "active" /\ ~disposed /\ AllIdle
  /\ phase' = "saving" /\ todo' = Active
  /\ UNCHANGED <<transactional, disposed, branchVars, ctxVars, txState, regVars, dataVars>>

SaveNext ==
  /\ phase = "saving"
  /\ \E c \in todo : Flush(c) /\ todo' = todo \ {c}
  /\ UNCHANGED <<transactional, phase, disposed, branchVars, ctxVars, txState, regVars, nchanges>>

CommitStartEarly ==   \* mutant: commits before every context is saved
  /\ phase = "saving"
  /\ phase' = "committing" /\ todo' = IF transactional THEN OpenTxs ELSE {}
  /\ UNCHANGED <<transactional, disposed, branchVars, ctxVars, txState, regVars, dataVars>>

CommitStartEveryConn ==   \* mutant: commits connections that have no transaction too
  /\ phase = "saving" /\ todo = {}
  /\ phase' = "committing" /\ todo' = {active[n] : n \in Conns}
  /\ UNCHANGED <<transactional, disposed, branchVars, ctxVars, txState, regVars, dataVars>>

CommitStart ==
  /\ phase = "saving" /\ todo = {}
  /\ phase' = "committing" /\ todo' = IF transactional THEN OpenTxs ELSE {}
  /\ UNCHANGED <<transactional, disposed, branchVars, ctxVars, txState, regVars, dataVars>>

\* The database commits transaction t.
Commit(t) ==
  /\ txState' = [txState EXCEPT ![t] = "committed"]
  /\ durable' = durable \cup flushed[t]

CommitFirstOnly ==   \* mutant: returns after the first transaction
  /\ phase = "committing"
  /\ \E t \in todo : Commit(t) /\ todo' = {}
  /\ UNCHANGED <<transactional, phase, disposed, branchVars, ctxVars, regVars,
                 nchanges, tracked, flushed>>

CommitNext ==
  /\ phase = "committing"
  /\ \E t \in todo : Commit(t) /\ todo' = todo \ {t}
  /\ UNCHANGED <<transactional, phase, disposed, branchVars, ctxVars, regVars,
                 nchanges, tracked, flushed>>

CompleteSucceeds ==
  /\ phase = "committing" /\ todo = {}
  /\ phase' = "succeeded"
  /\ UNCHANGED <<transactional, disposed, todo, branchVars, ctxVars, txState, regVars, dataVars>>

\* A save or a commit threw: the rest of the loop is skipped.
CompleteFails ==
  /\ \/ phase = "saving" /\ "save" \in Faults
     \/ phase = "committing" /\ "commit" \in Faults
  /\ todo # {}
  /\ phase' = "failed" /\ todo' = {}
  /\ UNCHANGED <<transactional, disposed, branchVars, ctxVars, txState, regVars, dataVars>>

\* The database committed but its answer was lost, so CommitAsync threw.
CommitAnswerLost ==
  /\ phase = "committing" /\ "ack" \in Faults
  /\ \E t \in todo : Commit(t)
  /\ phase' = "failed" /\ todo' = {}
  /\ UNCHANGED <<transactional, disposed, branchVars, ctxVars, regVars,
                 nchanges, tracked, flushed>>

-----------------------------------------------------------------------------
(* DisposeUow                                                               *)

Attended == UNION {attended[t] : t \in OpenTxs}

DisposeContextsOnly ==   \* mutant: the transactional case handled like the other
  /\ phase \in {"active", "succeeded", "failed"} /\ ~disposed /\ AllIdle
  /\ disposed' = TRUE
  /\ closed' = closed \cup Active
  /\ cached' = [k \in Keys |-> None]
  /\ UNCHANGED <<transactional, phase, todo, branchVars, nctx, key, tx, txState,
                 active, attended, dataVars>>

\* A transaction disposed before its commit is rolled back.
DisposeUow ==
  /\ phase \in {"active", "succeeded", "failed"} /\ ~disposed /\ AllIdle
  /\ disposed' = TRUE
  /\ IF transactional
     THEN /\ txState' = [c \in Ctx |-> IF c \in OpenTxs /\ txState[c] = "open"
                                       THEN "rolledback" ELSE txState[c]]
          /\ closed' = closed \cup OpenTxs \cup Attended
          /\ active' = [n \in Conns |-> None]
          /\ attended' = [t \in Ctx |-> IF t \in OpenTxs THEN {} ELSE attended[t]]
     ELSE /\ closed' = closed \cup Active
          /\ UNCHANGED <<txState, active, attended>>
  /\ cached' = [k \in Keys |-> None]
  /\ UNCHANGED <<transactional, phase, todo, branchVars, nctx, key, tx, dataVars>>

-----------------------------------------------------------------------------
BranchStep(b) ==
  \/ \E k \in Keys : GetCached(b, k) \/ GetNew(b, k) \/ CreateStart(b, k)
  \/ CreateBegun(b) \/ CreateShared(b) \/ CreateFails(b)
  \/ MakeChange(b) \/ SaveNow(b)

CompleteStep ==
  \/ SaveNext \/ CommitStart \/ CommitNext \/ CompleteSucceeds
  \/ CompleteFails \/ CommitAnswerLost

Next == (\E b \in Branches : BranchStep(b)) \/ CompleteStart \/ CompleteStep \/ DisposeUow

Spec == Init /\ [][Next]_vars

-----------------------------------------------------------------------------
(* Properties                                                              *)

TypeOK ==
  /\ transactional \in BOOLEAN /\ phase \in Phase /\ disposed \in BOOLEAN
  /\ todo \subseteq Ctx
  /\ at \in [Branches -> BranchState]
  /\ making \in [Branches -> CtxOrNone]
  /\ holds \in [Branches -> CtxOrNone]
  /\ nctx \in CtxOrNone
  /\ key \in [Ctx -> Keys \cup {NoKey}]
  /\ tx \in [Ctx -> CtxOrNone]
  /\ closed \subseteq Ctx
  /\ txState \in [Ctx -> {"none", "open", "committed", "rolledback"}]
  /\ cached \in [Keys -> CtxOrNone]
  /\ active \in [Conns -> CtxOrNone]
  /\ attended \in [Ctx -> SUBSET Ctx]
  /\ nchanges \in 0 .. MaxChanges
  /\ tracked \in [Ctx -> SUBSET Change]
  /\ flushed \in [Ctx -> SUBSET Change]
  /\ durable \subseteq Change

\* "All changes saved at end of a unit of work automatically"
\* (IActiveUnitOfWork.SaveChangesAsync): when CompleteAsync returned, every
\* change a branch made through a context it was given is in the database.
NoChangeLost == phase = "succeeded" => \A i \in Change : i <= nchanges => i \in durable

\* In a transactional unit of work nothing becomes durable before all is saved:
\* not by SaveChangesAsync, not when the body or a save threw, and no connection
\* is committed while another still has changes to save.
DurableAfterAllSaved ==
  [][transactional /\ durable' # durable =>
       phase = "committing" /\ \A c \in Ctx : tracked[c] = {}]_vars

\* Disposing leaves no transaction open and disposes every context that was
\* handed out, whatever call threw before: connections go back to their pool.
HandedOut(c) == c <= nctx /\ (transactional => tx[c] # None)

NothingLeftOpen ==
  disposed => \A c \in Ctx : txState[c] # "open" /\ (HandedOut(c) => c \in closed)

\* A transactional unit of work is an atomic commit on each of its connections, also
\* when a call throws, when only some connections commit, or when the answer of a
\* commit is lost.  Without a transaction nothing is promised.
MadeOn(n) ==
  IF transactional
  THEN UNION {tracked[c] \cup flushed[c] : c \in {d \in 1 .. nctx : ConnOf[key[d]] = n}}
  ELSE {}

Committed(n) ==
  \E c \in 1 .. nctx : ConnOf[key[c]] = n /\ txState[c] = "committed"

Atomic(n) == INSTANCE AtomicCommit WITH
  Changes <- Change,
  made <- MadeOn(n),
  durable <- durable \cap MadeOn(n),
  outcome <- IF Committed(n) \/ phase = "succeeded" THEN "committed"
             ELSE IF phase = "failed" \/ disposed THEN "aborted" ELSE "open"

\* \A n \in Conns : Atomic(n)!Spec, in the form TLC checks.
ImplementsAtomicCommit ==
  /\ \A n \in Conns : Atomic(n)!Init
  /\ [][\A n \in Conns : [Atomic(n)!Next]_(Atomic(n)!vars)]_vars

=============================================================================
