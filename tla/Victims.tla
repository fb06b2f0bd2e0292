------------------------------ MODULE Victims -------------------------------
(***************************************************************************)
(* The set of potential victims of a steal request is a word of 32 bits,   *)
(* and a request is sent on by bit operations (src/src/bit.h): striking    *)
(* out workers, counting the rest, choosing one at random.  Runtime uses   *)
(* sets of workers; here the two are compared, for the numbers of workers, *)
(* sets and workers that SubtreeScan enumerates.                           *)
(*                                                                         *)
(* Words have as many bits as there may be workers, as in the code, where  *)
(* MAXWORKERS is 32: the full word, in which shifts by its width must be   *)
(* avoided, is one of the cases.                                           *)
(***************************************************************************)
EXTENDS SubtreeScan, Bitwise

Bits == MaxWorkers

\* -1u
AllOnes == 2 ^ Bits - 1

Complement(x) == AllOnes - x

\* Unsigned x - 1
Decrement(x) == (x + AllOnes) % 2 ^ Bits

\* 1u << n: undefined in C for n >= Bits; the shift of x86-64, the platform of
\* the README, takes its count modulo the width of the word.
BIT(n) == 2 ^ (n % Bits)

\* Variant: the guard for the full word is missing.
BIT_MASK_32_unguarded(n) == BIT(n) - 1

BIT_MASK_32(n) == IF n >= Bits THEN AllOnes ELSE BIT(n) - 1

ZERO_RIGHTMOST_ONE_BIT(n) == n & Decrement(n)

ISOLATE_RIGHTMOST_ONE_BIT(n) == n & Complement(Decrement(n))

RECURSIVE count_one_bits(_)
count_one_bits(n) ==
    IF n = 0 THEN 0 ELSE 1 + count_one_bits(ZERO_RIGHTMOST_ONE_BIT(n))

RECURSIVE Shifts(_)
Shifts(n) == IF n = 0 THEN 0 ELSE 1 + Shifts(n \div 2)

rightmost_one_bit_pos(n) == Shifts(ISOLATE_RIGHTMOST_ONE_BIT(n)) - 1

POTENTIAL_VICTIM(victims, n) == victims & BIT(n) # 0

INIT_VICTIMS == BIT_MASK_32(num_workers)

\* *victims &= ~BIT(n)
Unset(victims, n) == victims & Complement(BIT(n))

RECURSIVE MarkAsIdle(_, _)
MarkAsIdle(victims, n) ==
    IF n = -1 \/ n >= num_workers THEN victims
    ELSE Unset(MarkAsIdle(MarkAsIdle(victims, left_child(n)), right_child(n)), n)

rightmost_victim(victims, ID) ==
    LET victim == rightmost_one_bit_pos(victims)
    IN  IF victim # ID THEN victim
        ELSE rightmost_one_bit_pos(ZERO_RIGHTMOST_ONE_BIT(victims))

\* The list of potential victims: for (i = 0, n = victims; n != 0; i++, n >>= 1)
RECURSIVE PotentialVictims(_, _)
PotentialVictims(n, w) ==
    IF n = 0 THEN <<>>
    ELSE (IF POTENTIAL_VICTIM(n, 0) THEN <<w>> ELSE <<>>)
            \o PotentialVictims(n \div 2, w + 1)

\* What three tries at random may hit
LuckyVictims(victims, ID) ==
    {v \in 0 .. num_workers - 1 : POTENTIAL_VICTIM(victims, v) /\ v # ID}

\* The possible results of random_victim
random_victim(victims, ID) ==
    LET list == PotentialVictims(victims, 0)
    IN  IF victims = 0 THEN {-1}
        ELSE LuckyVictims(victims, ID)
             \cup {list[k + 1] : k \in 0 .. count_one_bits(victims) - 1}

\* Variant: with both subtrees idle, only the left one is struck out.
Struck_left(victims, ID, left_idle, right_idle) ==
    IF left_idle THEN MarkAsIdle(victims, left_child(ID))
    ELSE IF right_idle THEN MarkAsIdle(victims, right_child(ID))
    ELSE victims

\* The idle subtrees of worker ID are struck out.
Struck(victims, ID, left_idle, right_idle) ==
    IF left_idle /\ right_idle THEN MarkAsIdle(victims, ID)
    ELSE IF left_idle THEN MarkAsIdle(victims, left_child(ID))
    ELSE IF right_idle THEN MarkAsIdle(victims, right_child(ID))
    ELSE victims

\* next_victim on worker ID, for a request of thief that has not made all its
\* stops: the new victims, and where it may be sent to
next_victim(victims, thief, ID, left_idle, right_idle) ==
    LET left == Struck(Unset(victims, ID), ID, left_idle, right_idle)
        chosen == random_victim(left, thief)
    IN  [victims |-> left, to |-> {IF v = -1 THEN thief ELSE v : v \in chosen}]

-----------------------------------------------------------------------------
\* The word for a set of workers
RECURSIVE Word(_)
Word(S) == IF S = {} THEN 0
           ELSE LET w == CHOOSE x \in S : TRUE IN 2 ^ w + Word(S \ {w})

All == 0 .. num_workers - 1

Min0(S) == IF S = {} THEN -1 ELSE CHOOSE x \in S : \A y \in S : x <= y

\* One state for every number of workers, worker and set of workers
Case == pc = "level" /\ visited = <<>> /\ worker = start /\ walk = "recv"

\* On words, for all numbers of workers up to the width of the word, the
\* operations compute what they do on sets: all workers, the number of members,
\* the least member, and the least one other than a given worker.
WordsAreSets ==
    Case =>
        LET victims == Word(pending)
        IN  /\ INIT_VICTIMS = Word(All)
            /\ count_one_bits(victims) = Cardinality(pending)
            /\ rightmost_one_bit_pos(victims) = Min0(pending)
            /\ rightmost_victim(victims, start) = Min0(pending \ {start})

\* A request of start that another worker, or start itself, sends on goes to any
\* worker that is neither struck out nor in an idle subtree, and returns to
\* the thief only if there is none (the assertions of random_victim and
\* next_victim).
SentToPotentialVictims ==
    Case /\ start \notin pending =>
        \A w \in All : \A idle \in SUBSET ({left_child(w), right_child(w)} \ {-1}) :
            LET flag(c) == c = -1 \/ c \in idle
                next == next_victim(Word(pending), start, w,
                                    flag(left_child(w)), flag(right_child(w)))
                rest == pending \ ({w} \cup UNION {mark_as_idle[c] : c \in idle})
            IN  /\ next.victims = Word(rest)
                /\ next.to = IF rest = {} THEN {start} ELSE rest
=============================================================================
