---------------------------- MODULE MCPccServer ----------------------------
(* PccServer on small instances.                                           *)
EXTENDS PccServer, TLC

Symmetry == Permutations(Sessions)

SumOver(F(_)) == MapThenSumSet(F, Sessions)

\* While sessions stay open, srpc_credit_used is the sum of their credits, up to
\* the credit that the controller has given and not charged yet: no interleaving
\* of senders, receivers and the controller leaks or invents a credit.
CreditsAccounted ==
  credit_used + (IF ctl.pc = "charge" THEN 1 ELSE 0) =
    SumOver(LAMBDA s : sess[s].credit)

\* srpc_num_pending is the sum over the sessions of the requests pending and of
\* the responses being sent.
PendingAccounted ==
  num_pending = SumOver(LAMBDA s : sess[s].num_pending + snd[s].tmp)

============================================================================
