---------------------------- MODULE MCMigration ----------------------------
(* The databases of earlier versions: a new file; a single set of          *)
(* credentials and no accounts; accounts, with the constraint of then; the *)
(* current constraint.  The region ticker may be on in each.               *)
EXTENDS Migration, TLC

CONSTANTS k1, k2, acc1, acc2, acc3

Row1(a) == [id |-> 1, key |-> k1, account |-> a]
Row2(a) == [id |-> 2, key |-> k2, account |-> a]

NewFile ==
  [alerts |-> {}, unique |-> "none", rebuilding |-> FALSE, alerts_new |-> {}, columns |-> {},
   multi |-> FALSE, credentials |-> FALSE, accounts |-> {}, active |-> NoAccount,
   ticker |-> "absent", tickers |-> {}]

Single(creds, t) ==
  [NewFile EXCEPT !.alerts = {Row1(NoAccount), Row2(NoAccount)}, !.unique = "key",
                  !.credentials = creds, !.ticker = t]

Multi(creds, u, t, a) ==
  [NewFile EXCEPT !.alerts = {Row1(acc1), Row2(NoAccount)}, !.unique = u,
                  !.columns = {"account_id"}, !.multi = TRUE,
                  !.credentials = creds,
                  !.accounts = {acc1, acc2}, !.active = a, !.ticker = t]

OldFiles ==
  {NewFile} \cup {Single(c, t) : c \in BOOLEAN, t \in {"absent", "1"}}
            \cup {Multi(c, u, t, acc1) : c \in BOOLEAN, u \in {"key", "account"},
                                         t \in {"0", "1"}}
            \cup {Multi(FALSE, "key", "1", NoAccount)}
=============================================================================
