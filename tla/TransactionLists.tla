--------------------------- MODULE TransactionLists ---------------------------
(***************************************************************************)
(* The comprehensions and sums over lists of transactions that the rules    *)
(* and the tools are written with, as recursive functions on the length of  *)
(* a list.                                                                  *)
(***************************************************************************)
EXTENDS Integers, SequencesExt

Ids(transactions) == [i \in DOMAIN transactions |-> transactions[i].transaction_id]

(* [transactions_by_id[id] for id in ids] *)
Named(transactions, ids) ==
  [i \in DOMAIN ids |-> CHOOSE t \in Range(transactions) : t.transaction_id = ids[i]]

(* [t for t in transactions if t in wanted] *)
Selected(transactions, wanted) ==
  LET selected[n \in 0..Len(transactions)] ==
        IF n = 0 THEN <<>>
        ELSE IF transactions[n] \in wanted THEN Append(selected[n - 1], transactions[n])
        ELSE selected[n - 1]
  IN  selected[Len(transactions)]

(* sum(t.amount for t in transactions) *)
Total(transactions) ==
  LET total[n \in 0..Len(transactions)] ==
        IF n = 0 THEN 0 ELSE total[n - 1] + transactions[n].amount
  IN  total[Len(transactions)]
=============================================================================
