----------------------------- MODULE EvenShare -----------------------------
(***************************************************************************)
(* even_share of exec/static_thread_pool.hpp: which of the n indices of a  *)
(* bulk the agent of a given rank runs, when size agents share them.  The  *)
(* arithmetic is that of std::size_t, modulo M.                            *)
(***************************************************************************)
EXTENDS Naturals

CONSTANT M      \* 2^64 where the program runs

ASSUME WidthAssumption == M \in Nat \ {0}

Wrap(x) == x % M

avg_per_thread(n, size) == n \div size
n_big_share(n, size)    == Wrap(avg_per_thread(n, size) + 1)
big_shares(n, size)     == n % size

share_begin(n, rank, size) ==
  IF rank < big_shares(n, size)
  THEN Wrap(n_big_share(n, size) * rank)
  ELSE Wrap(n_big_share(n, size) * big_shares(n, size)
            + (rank - big_shares(n, size)) * avg_per_thread(n, size))

\* A mutant of share_end: a big share is no bigger than the others.
MutShareEnd(n, rank, size) == Wrap(share_begin(n, rank, size) + avg_per_thread(n, size))

share_end(n, rank, size) ==
  Wrap(share_begin(n, rank, size)
       + (IF rank < big_shares(n, size) THEN n_big_share(n, size)
                                        ELSE avg_per_thread(n, size)))

\* The half-open range [begin, end) of indices of one agent.
even_share(n, rank, size) ==
  {i \in 0 .. n - 1 : share_begin(n, rank, size) <= i /\ i < share_end(n, rank, size)}
=============================================================================
