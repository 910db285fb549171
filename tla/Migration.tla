----------------------------- MODULE Migration -----------------------------
(***************************************************************************)
(* Opening the database: Storage.init and its three migrations             *)
(* (app/services/storage.py), the get_storage that caches the result, and  *)
(* what a program that serves afterwards commits.                          *)
(*                                                                         *)
(* sqlite3 opens a transaction before the first INSERT, UPDATE or DELETE.  *)
(* CREATE, ALTER and DROP are part of an open transaction, and permanent   *)
(* at once when none is open.  Any step may be the last of the process.    *)
(*                                                                         *)
(* get_storage keeps the object even if init raised, and the callers log   *)
(* the exception: the program then serves on what init left behind, and    *)
(* its next commit is also init's.                                         *)
(***************************************************************************)
EXTENDS Integers, FiniteSets

CONSTANTS
  Account,
  NoAccount,  \* no account; no active account; NULL
  Id,         \* ids of alerts, ordered by creation
  Key,        \* what an alert watches: plan_code and fqn_pattern
  Databases,  \* database files that earlier versions left
  MaxOps      \* bound: user operations, failing statements, process ends

Row      == [id : Id, key : Key, account : Account \cup {NoAccount}]
Column   == {"account_id", "region_ticker_enabled"}
Database ==
  [alerts     : SUBSET Row,
   unique     : {"none", "key", "account"}, \* its constraint; no such table
   rebuilding : BOOLEAN,                    \* alerts_new exists
   alerts_new : SUBSET Row,
   multi      : BOOLEAN,                    \* there is a table of accounts
   columns    : SUBSET Column,              \* added since the first version
   credentials : BOOLEAN,                   \* the single set of old is there
   accounts   : SUBSET Account,
   active     : Account \cup {NoAccount},
   ticker     : {"absent", "0", "1"},       \* setting region_ticker_enabled
   tickers    : SUBSET Account]             \* accounts with the flag set

(* UNIQUE(plan_code, fqn_pattern) of the first versions.                   *)
KeysAreUnique(db) ==
  db.unique = "key" => \A r, s \in db.alerts : r.key = s.key => r.id = s.id

ASSUME MigrationAssumption ==
  /\ NoAccount \notin Account
  /\ Id \subseteq Int
  /\ Databases \subseteq Database
  /\ \A db \in Databases : KeysAreUnique(db)
  /\ MaxOps \in Nat

VARIABLES
  disk,    \* what is committed
  work,    \* what the connection sees
  open,    \* a transaction is open
  pc,      \* the next statement of init; or serving, whole or limping
  todo,    \* columns init has not tried to add yet
  owner,   \* account that the import made in this init
  cause,   \* history: a statement of this process failed
  torn,    \* history: a commit took half of an init with it
  emptied, \* history: the user deleted the last account, and made no other
  ops

upgradeVars == <<disk, work, open, pc, todo, owner, cause, torn, emptied, ops>>

InInit  == {"tables", "columns", "import", "activate", "backfill", "create",
            "copy", "drop", "rename", "setting", "flag", "commit"}
Serving == {"up", "limping"}

UpgradeTypeOK ==
  /\ disk \in Database /\ work \in Database
  /\ open \in BOOLEAN
  /\ pc \in InInit \cup Serving \cup {"down"}
  /\ todo \subseteq Column
  /\ owner \in Account \cup {NoAccount}
  /\ {cause, torn, emptied} \subseteq BOOLEAN
  /\ ops \in 0 .. MaxOps

UpgradeInit ==
  /\ disk \in Databases /\ work = disk /\ open = FALSE
  /\ pc = "down" /\ todo = {} /\ owner = NoAccount
  /\ cause = FALSE /\ torn = FALSE /\ emptied = FALSE
  /\ ops = 0

Op == ops < MaxOps /\ ops' = ops + 1
history == <<cause, torn, emptied>>

-----------------------------------------------------------------------------
(* Statements.                                                             *)

Define(db) == work' = db /\ disk' = (IF open THEN disk ELSE db) /\ UNCHANGED open
Change(db) == work' = db /\ open' = TRUE /\ UNCHANGED disk
Pass       == UNCHANGED <<disk, work, open>>

Go(from, to) == pc = from /\ pc' = to

(* The exception leaves init; the transaction stays as it is.              *)
Raise(from) == Go(from, "limping") /\ Pass /\ UNCHANGED <<todo, owner, history, ops>>

-----------------------------------------------------------------------------
(* Storage.init.                                                           *)

Start ==
  /\ Go("down", "tables")
  /\ Pass /\ owner' = NoAccount /\ todo' = Column /\ cause' = FALSE
  /\ UNCHANGED <<torn, emptied, ops>>

(* CREATE TABLE IF NOT EXISTS: a new table has its columns and constraint. *)
CreateTables ==
  /\ Go("tables", "columns")
  /\ Define([work EXCEPT
       !.unique  = IF @ = "none" THEN "account" ELSE @,
       !.multi   = TRUE,
       !.columns = @ \cup (IF work.unique = "none" THEN {"account_id"} ELSE {})
                     \cup (IF work.multi THEN {} ELSE {"region_ticker_enabled"})])
  /\ UNCHANGED <<todo, owner, history, ops>>

(* Mutant of AddColumn: the ALTER never succeeds.                          *)
AddColumnNever(c) ==
  /\ pc = "columns" /\ c \in todo /\ todo' = todo \ {c}
  /\ Pass /\ UNCHANGED <<pc, owner, history, ops>>

(* ALTER TABLE ADD COLUMN; a column that is there already is fine.         *)
AddColumn(c) ==
  /\ pc = "columns" /\ c \in todo /\ todo' = todo \ {c}
  /\ Define([work EXCEPT !.columns = @ \cup {c}])
  /\ UNCHANGED <<pc, owner, history, ops>>

(* Any other OperationalError (a locked database) passes for that.         *)
AddColumnFails(c) ==
  /\ Op
  /\ pc = "columns" /\ c \in todo /\ todo' = todo \ {c}
  /\ c \notin work.columns
  /\ cause' = TRUE
  /\ Pass /\ UNCHANGED <<pc, owner, torn, emptied>>

ColumnsDone ==
  /\ Go("columns", "import") /\ todo = {}
  /\ Pass /\ UNCHANGED <<todo, owner, history, ops>>

(* _migrate_legacy_credentials: the single set of credentials becomes an   *)
(* account, the active one, that owns every row that had no account.       *)
NoImport ==
  /\ Go("import", "create")
  /\ work.accounts # {} \/ ~ work.credentials
  /\ Pass /\ UNCHANGED <<todo, owner, history, ops>>

InsertAccount(a) ==
  /\ Go("import", "activate")
  /\ work.accounts = {} /\ work.credentials
  /\ Change([work EXCEPT !.accounts = {a}])
  /\ owner' = a
  /\ UNCHANGED <<todo, history, ops>>

ActivateAccount ==
  /\ Go("activate", "backfill")
  /\ Change([work EXCEPT !.active = owner])
  /\ UNCHANGED <<todo, owner, history, ops>>

Owned(rows, a) ==
  {[r EXCEPT !.account = IF @ = NoAccount THEN a ELSE @] : r \in rows}

Backfill ==
  /\ Go("backfill", "create")
  /\ "account_id" \in work.columns
  /\ Change([work EXCEPT !.alerts = Owned(@, owner)])
  /\ UNCHANGED <<todo, owner, history, ops>>

BackfillRaises == "account_id" \notin work.columns /\ Raise("backfill")

(* _migrate_alerts_unique_constraint: the table is built anew.             *)
NoRebuild ==
  /\ Go("create", "setting") /\ work.unique = "account"
  /\ Pass /\ UNCHANGED <<todo, owner, history, ops>>

CreateCopy ==
  /\ Go("create", "copy")
  /\ work.unique = "key" /\ ~ work.rebuilding
  /\ Define([work EXCEPT !.rebuilding = TRUE])
  /\ UNCHANGED <<todo, owner, history, ops>>

(* An alerts_new of an earlier attempt is in the way.                      *)
CreateRaises ==
  work.unique = "key" /\ work.rebuilding /\ Raise("create")

(* Mutant of Newest: alerts without an account are left behind.            *)
NewestOwned(rows) ==
  {r \in rows : /\ r.account # NoAccount
                /\ \A s \in rows : s.key = r.key /\ s.account = r.account => s.id <= r.id}

(* One row of each key and account; NULL accounts are all different.       *)
Newest(rows) ==
  {r \in rows : \/ r.account = NoAccount
                \/ \A s \in rows : s.key = r.key /\ s.account = r.account => s.id <= r.id}

CopyAlerts ==
  /\ Go("copy", "drop")
  /\ "account_id" \in work.columns
  /\ Change([work EXCEPT !.alerts_new = Newest(work.alerts)])
  /\ UNCHANGED <<todo, owner, history, ops>>

CopyRaises == "account_id" \notin work.columns /\ Raise("copy")

DropAlerts ==
  /\ Go("drop", "rename")
  /\ Define([work EXCEPT !.alerts = {}, !.unique = "none"])
  /\ UNCHANGED <<todo, owner, history, ops>>

RenameCopy ==
  /\ Go("rename", "setting")
  /\ Define([work EXCEPT !.alerts = work.alerts_new, !.unique = "account",
                         !.rebuilding = FALSE, !.alerts_new = {}])
  /\ UNCHANGED <<todo, owner, history, ops>>

(* _migrate_region_ticker_setting: the setting becomes a flag of the       *)
(* active account, or of all.                                              *)
NoSetting ==
  /\ Go("setting", "commit") /\ work.ticker = "absent"
  /\ Pass /\ UNCHANGED <<todo, owner, history, ops>>

DeleteSetting ==
  /\ pc = "setting" /\ work.ticker # "absent"
  /\ pc' = IF work.ticker = "1" THEN "flag" ELSE "commit"
  /\ Change([work EXCEPT !.ticker = "absent"])
  /\ UNCHANGED <<todo, owner, history, ops>>

SetFlag ==
  /\ Go("flag", "commit")
  /\ "region_ticker_enabled" \in work.columns
  /\ Change([work EXCEPT !.tickers =
               IF work.active = NoAccount THEN work.accounts
               ELSE @ \cup ({work.active} \cap work.accounts)])
  /\ UNCHANGED <<todo, owner, history, ops>>

FlagRaises == "region_ticker_enabled" \notin work.columns /\ Raise("flag")

Commit ==
  /\ Go("commit", "up")
  /\ disk' = work /\ open' = FALSE
  /\ UNCHANGED <<work, todo, owner, history, ops>>

(* A statement fails (a locked database, a full disk): the transaction     *)
(* stays open, or SQLite rolls it back.                                    *)
StatementFails ==
  /\ Op
  /\ pc \in InInit \ {"columns"} /\ pc' = "limping"
  /\ \/ Pass
     \/ open /\ work' = disk /\ open' = FALSE /\ UNCHANGED disk
  /\ cause' = TRUE
  /\ UNCHANGED <<todo, owner, torn, emptied>>

-----------------------------------------------------------------------------
(* The program serves.  Each write commits, and what init left open too.   *)

Save(db) ==
  /\ disk' = db /\ work' = db /\ open' = FALSE
  /\ torn' = (torn \/ open)

(* The poller logs an event, or the like.                                  *)
AnyWrite ==
  /\ pc \in Serving /\ open
  /\ Save(work)
  /\ UNCHANGED <<pc, todo, owner, cause, emptied, ops>>

Free == Account \ (disk.accounts \cup work.accounts \cup work.tickers
                     \cup {r.account : r \in work.alerts \cup disk.alerts})

(* An alert of the active account, if the constraint lets it in.           *)
upsert_alert(i, k) ==
  /\ Op
  /\ pc \in Serving /\ "account_id" \in work.columns /\ work.unique # "none"
  /\ \A r \in work.alerts :
       /\ r.id < i
       /\ ~ (r.key = k /\ (work.unique = "key" \/ r.account = work.active))
  /\ Save([work EXCEPT !.alerts = @ \cup {[id |-> i, key |-> k,
                                            account |-> work.active]}])
  /\ UNCHANGED <<pc, todo, owner, cause, emptied>>

create_account(a) ==
  /\ Op
  /\ pc \in Serving /\ work.multi /\ a \in Free
  /\ Save([work EXCEPT !.accounts = @ \cup {a},
                       !.active = IF @ = NoAccount THEN a ELSE @])
  /\ emptied' = FALSE
  /\ UNCHANGED <<pc, todo, owner, cause>>

(* The active account falls back to another one, or to none.  (It is two   *)
(* commits; Accounts has them apart.)                                      *)
delete_account(a) ==
  /\ Op
  /\ pc \in Serving /\ a \in work.accounts
  /\ "region_ticker_enabled" \in work.columns
  /\ \E b \in IF work.active # a THEN {work.active}
              ELSE IF work.accounts = {a} THEN {NoAccount}
              ELSE work.accounts \ {a} :
       Save([work EXCEPT !.accounts = @ \ {a}, !.active = b,
                         !.tickers = @ \ {a}])
  /\ emptied' = (work.accounts = {a})
  /\ UNCHANGED <<pc, todo, owner, cause>>

(* The process ends, whatever it is doing.                                 *)
Exit ==
  /\ Op
  /\ pc # "down" /\ pc' = "down"
  /\ work' = disk /\ open' = FALSE
  /\ UNCHANGED <<disk, todo, owner, history>>

-----------------------------------------------------------------------------
InitStep ==
  \/ Start \/ CreateTables \/ ColumnsDone
  \/ \E c \in Column : AddColumn(c)
  \/ NoImport \/ (\E a \in Free : InsertAccount(a)) \/ ActivateAccount
  \/ Backfill \/ BackfillRaises
  \/ NoRebuild \/ CreateCopy \/ CreateRaises
  \/ CopyAlerts \/ CopyRaises \/ DropAlerts \/ RenameCopy
  \/ NoSetting \/ DeleteSetting \/ SetFlag \/ FlagRaises
  \/ Commit

UpgradeNext ==
  \/ InitStep
  \/ \E c \in Column : AddColumnFails(c)
  \/ StatementFails
  \/ AnyWrite
  \/ \E i \in Id, k \in Key : upsert_alert(i, k)
  \/ \E a \in Account : create_account(a) \/ delete_account(a)
  \/ Exit

UpgradeSpec == UpgradeInit /\ [][UpgradeNext]_upgradeVars

-----------------------------------------------------------------------------
(* Properties.                                                             *)

Ids(db) == {r.id : r \in db.alerts}

(* Wherever the upgrade is cut, the database keeps every alert, goes from  *)
(* no account to one only together with the rows that are to be its, and   *)
(* from the setting to the flag in one; unless the program went on after a *)
(* failed init, and its own commit took half of one with it.               *)
UpgradeIsWhole ==
  [][ torn' \/
      /\ Ids(disk) \subseteq Ids(disk')
      /\ pc = "commit" /\ disk.accounts = {} /\ disk'.accounts # {}
           => \A r \in disk'.alerts : r.account # NoAccount
      /\ disk.ticker = "1" /\ disk'.ticker = "absent"
           => IF disk'.active = NoAccount THEN disk'.tickers = disk'.accounts
              ELSE disk'.active \in disk'.accounts => disk'.active \in disk'.tickers
    ]_upgradeVars

(* "Idempotent" (storage.py:470): init raises only if a statement failed,  *)
(* or the alerts_new of an earlier init that was cut is in its way, which  *)
(* it will be for ever.                                                    *)
LimpsForCause ==
  pc = "limping" => cause \/ (disk.unique = "key" /\ disk.rebuilding)

(* "Deleting the active account falls back to another account, or returns  *)
(* to the setup wizard if none remain" (README.md:470): once the last      *)
(* account is deleted there is none, until the user makes one.             *)
DeletedForGood == emptied => disk.accounts = {}

=============================================================================
