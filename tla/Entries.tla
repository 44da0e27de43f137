------------------------------- MODULE Entries -------------------------------
(***************************************************************************)
(* What is taken of sequences, and what numbers in them add up to, as      *)
(* recursive functions.                                                    *)
(***************************************************************************)
EXTENDS Integers, Sequences

\* The entries of a sequence at some of its places, in their order.
EntriesAt(seq, places) ==
    LET kept[n \in 0..Len(seq)] ==
            IF n = 0 THEN <<>>
            ELSE IF n \in places THEN Append(kept[n - 1], seq[n]) ELSE kept[n - 1]
    IN  kept[Len(seq)]

\* The numbers of a finite set, the least first.
Ascending(numbers) ==
    LET top == CHOOSE n \in numbers \union {0} : \A m \in numbers : m <= n
    IN  EntriesAt([n \in 1..(top + 1) |-> n - 1], {n + 1 : n \in numbers})

Total(seq) ==
    LET upTo[n \in 0..Len(seq)] == IF n = 0 THEN 0 ELSE upTo[n - 1] + seq[n]
    IN  upTo[Len(seq)]
==============================================================================
