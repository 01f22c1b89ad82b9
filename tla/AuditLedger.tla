----------------------------- MODULE AuditLedger -----------------------------
(***************************************************************************)
(* What the tamper-evident audit log promises, without hashes, rows, locks *)
(* or checkpoints: a ledger of entries that only grows, of which retention *)
(* may drop an oldest part from the live table, until an operator seals it *)
(* (continuity reset) or starts it over (genesis reset).                   *)
(* AuditChain implements it; see AuditChain!Ledger.                        *)
(***************************************************************************)
EXTENDS Naturals, Sequences

CONSTANT Entry      \* what one audit entry records

VARIABLES
  ledger,           \* every entry written since the last genesis, in order
  dropped           \* how many of the oldest ones left the live table

ledgerVars == <<ledger, dropped>>

LedgerTypeOK ==
  /\ ledger \in Seq(Entry)
  /\ dropped \in 0..Len(ledger)

LedgerInit ==
  /\ ledger = <<>>
  /\ dropped = 0

\* One entry is added at the end.
Grow ==
  /\ ledger' # <<>>
  /\ LET newest == ledger'[Len(ledger')]
     IN  /\ ledger' = Append(ledger, newest)
         /\ newest \in Entry

\* An agent's access is recorded: one entry more, nothing else moves.
Record ==
  /\ Grow
  /\ UNCHANGED dropped

\* Retention drops an oldest part of the live entries.
Drop ==
  /\ dropped' \in (dropped + 1)..Len(ledger)
  /\ UNCHANGED ledger

\* A continuity reset records itself and empties the live table.
Seal ==
  /\ Grow
  /\ dropped' = Len(ledger')

\* A genesis reset forgets everything.
StartOver ==
  /\ ledger' = <<>>
  /\ dropped' = 0

LedgerNext ==
  \/ Record
  \/ Drop
  \/ Seal
  \/ StartOver

LedgerSpec == LedgerInit /\ [][LedgerNext]_ledgerVars

=============================================================================
