----------------------------- MODULE PageStore -----------------------------
(***************************************************************************)
(* What memory.c promises the callers of alloc_pages and free_pages: a     *)
(* store of free pages, filled once, that lends runs of pages.  A run that *)
(* is given back is free again unless the store drops it; a page is never  *)
(* lent while it is lent, and never invented.                              *)
(***************************************************************************)
EXTENDS Integers

VARIABLES
  open,   \* the store has been filled
  free,   \* the pages that can be lent
  held    \* the runs that are lent, as [base, pages] records

storeVars == <<open, free, held>>

Run == [base : Nat, pages : Nat]
RunPages(b) == b.base .. (b.base + b.pages - 1)

StoreInit ==
  /\ open = FALSE
  /\ free = {}
  /\ held = {}

\* memory_init makes the store available, with at least one page in it.
Fill ==
  /\ ~ open
  /\ open'
  /\ free' \subseteq Nat
  /\ free' # {}
  /\ held' = held

Lend(b) ==
  /\ open
  /\ b.pages > 0
  /\ RunPages(b) \subseteq free
  /\ free' = free \ RunPages(b)
  /\ held' = held \cup {b}
  /\ open' = open

TakeBack(b) ==
  /\ open
  /\ b \in held
  /\ free' \in {free, free \cup RunPages(b)}
  /\ held' = held \ {b}
  /\ open' = open

StoreNext ==
  \/ Fill
  \/ \E b \in held' : Lend(b)
  \/ \E b \in held : TakeBack(b)

Spec == StoreInit /\ [][StoreNext]_storeVars

=============================================================================
