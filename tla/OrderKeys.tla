------------------------------ MODULE OrderKeys ------------------------------
(* The order of the tasks in the sections of a project: fractional keys       *)
(* (core/ordering.py), and the requests that choose them, move tasks, space   *)
(* keys anew that have grown long, delete and restore tasks, and take moves   *)
(* back (domain/tasks/service.py).  Subtasks under a parent go through the    *)
(* same code (_child_keys).                                                   *)
(*                                                                            *)
(* A key is a sequence of digits, compared like a string.  A request is one   *)
(* transaction at READ COMMITTED with no lock: what it reads and decides is   *)
(* one action, and what it writes shows at its Commit.                        *)
EXTENDS Integers, FiniteSets, Sequences, SequencesExt

CONSTANTS
    Items,       \* tasks; their ids order equal keys
    Sections,    \* sections of the project, in its order
    Starts,      \* bound: where the tasks may be at the start
    Requests,    \* requests that may be open at the same time
    Base,        \* digits of a key, len(DIGITS)
    Jitter,      \* random digits at the end of a key
    MaxLength,   \* MAX_KEY_LENGTH
    Closing,     \* bound: sections that may be deleted
    MaxMoves,    \* bound: moves in the activity log, and keys made by restores
    MaxDead      \* bound: deleted tasks

ASSUME KeysAssumption ==
    /\ Items \subseteq Nat \ {0} /\ IsFiniteSet(Items) /\ Sections \subseteq Nat
    /\ Starts \subseteq [Items -> Sections]
    /\ Base \in Nat /\ Base > 2 /\ Jitter \in Nat \ {0}
    /\ MaxLength \in Nat /\ MaxMoves \in Nat /\ MaxDead \in Nat

VARIABLES
    place,     \* task_projects: per task [sec, key]
    dead,      \* tasks with deleted_at
    gone,      \* sections with deleted_at
    log,       \* activity rows of moves, a batch of them per entry
    req,       \* the open requests
    given      \* history: keys made for tasks that were restored

vars == <<place, dead, gone, log, req, given>>

-----------------------------------------------------------------------------
(* core/ordering.py.  <<>> stands for None: the start or the end.             *)

Digits == 0 .. Base - 1
Keys   == Seq(Digits)
Open   == <<>>

Less(a, b) ==
    \/ a # b /\ IsPrefix(a, b)
    \/ \E n \in 1 .. Len(a) : /\ n <= Len(b) /\ a[n] < b[n]
                              /\ \A m \in 1 .. n - 1 : a[m] = b[m]

Rest(k, n)  == SubSeq(k, n + 1, Len(k))
DigitAt(k, n) == IF n <= Len(k) THEN k[n] ELSE 0

\* How many digits of b, from the first, a has too; a goes on with zeros.
Shared(a, b) ==
    CHOOSE n \in 0 .. Len(b) : /\ \A m \in 1 .. n : DigitAt(a, m) = b[m]
                               /\ n < Len(b) => DigitAt(a, n + 1) # b[n + 1]

\* _midpoint, of a gap <<a, b>>
Midpoint[gap \in Keys \X Keys] ==
    LET a     == gap[1]
        b     == gap[2]
        n     == Shared(a, b)
        below == DigitAt(a, 1)
        above == IF b = Open THEN Base ELSE b[1]
    IN  IF n > 0 THEN SubSeq(b, 1, n) \o Midpoint[<<Rest(a, n), Rest(b, n)>>]
        ELSE IF above - below > 1 THEN <<(below + above) \div 2>>
        ELSE IF Len(b) > 1 THEN <<above>>
        ELSE <<below>> \o Midpoint[<<Rest(a, 1), Open>>]

\* A base that is a prefix of b is moved towards a until it is none; every turn
\* of the loop makes such a base shorter.
Clear(a, b) ==
    LET base[n \in Nat] ==
            IF n = 0 THEN Midpoint[<<a, b>>]
            ELSE IF IsPrefix(base[n - 1], b) THEN Midpoint[<<a, base[n - 1]>>]
            ELSE base[n - 1]
    IN  IF b = Open THEN Midpoint[<<a, b>>] ELSE base[Len(b)]

Endings == [1 .. Jitter -> Digits \ {0}]

\* Faulty variant: no prefix is cleared.
KeyBetweenPlain(a, b) == {Midpoint[<<a, b>>] \o s : s \in Endings}

\* key_between: the keys it may return
KeyBetween(a, b) == {Clear(a, b) \o s : s \in Endings}

\* even_keys: the k-th of n, written with as few digits as tell them apart
Power[w \in Nat] == IF w = 0 THEN 1 ELSE Base * Power[w - 1]
Width(n) == CHOOSE w \in 1 .. n + 2 :
                Power[w] > n + 1 /\ \A v \in 1 .. w - 1 : Power[v] <= n + 1
EvenKey(k, n) ==
    LET w     == Width(n)
        value == (k * Power[w]) \div (n + 1)
        digit == [d \in 1 .. w |-> (value \div Power[w - d]) % Base]
    IN  SubSeq(digit, 1, CHOOSE m \in 1 .. w :
                             digit[m] # 0 /\ \A d \in m + 1 .. w : digit[d] = 0)
EvenKeys(n) == [k \in 1 .. n |-> EvenKey(k, n)]

\* keys_between: bisection, with no random digits
Bisect[part \in Nat \X Keys \X Keys] ==
    LET n    == part[1]
        a    == part[2]
        b    == part[3]
        mid  == Midpoint[<<a, b>>]
        left == n \div 2
    IN  IF n = 0 THEN <<>>
        ELSE Bisect[<<left, a, mid>>] \o <<mid>> \o Bisect[<<n - left - 1, mid, b>>]

\* How often n can be halved: what a bisection may add to the length of a key.
Halvings[n \in Nat] == IF n = 0 THEN 0 ELSE 1 + Halvings[n \div 2]

\* MAX_KEY_LENGTH leaves room for every key that is made between evenly spaced ones.
ASSUME LengthAssumption ==
    LET n == Cardinality(Items)
    IN  Width(n) + Halvings[n] <= MaxLength /\ Width(n) + 1 + Jitter <= MaxLength

KeysBetween(a, b, n) == IF a = Open /\ b = Open THEN EvenKeys(n) ELSE Bisect[<<n, a, b>>]

-----------------------------------------------------------------------------
(* A section, and a place in it.                                              *)

Before(p, i, j) == Less(p[i].key, p[j].key) \/ (p[i].key = p[j].key /\ i < j)
Rows(p, s)      == {i \in Items : p[i].sec = s}

\* Where a section stands in the project; tasks of a deleted one count as the first's.
First(s)      == s \in Sections \ gone /\ \A t \in Sections \ gone : s <= t
Rank(s)       == IF s \in gone \/ First(s) THEN 0 ELSE s
Seen(p, i, j) ==
    LET m == Rank(p[i].sec)
        n == Rank(p[j].sec)
    IN  m < n \/ (m = n /\ Before(p, i, j))

\* Tasks in the order in which they are seen, section by section.
Sorted(p, S) ==
    CHOOSE row \in [1 .. Cardinality(S) -> S] :
        \A m, n \in 1 .. Cardinality(S) : m < n => Seen(p, row[m], row[n])

\* _slot: behind the k-th of the listed tasks that stay, 0 at the top
Listed(p, s, M) == Sorted(p, Rows(p, s) \ (dead \cup M))
Above(p, s, M, k) == IF k = 0 THEN 0 ELSE Listed(p, s, M)[k]
Below(p, s, M, k) == IF k = Len(Listed(p, s, M)) THEN 0 ELSE Listed(p, s, M)[k + 1]
KeyOf(p, i) == IF i = 0 THEN Open ELSE p[i].key

Turn(row, i) == CHOOSE n \in DOMAIN row : row[n] = i
Evenly(p, S) == LET row == Sorted(p, S)
                IN  [i \in Items |-> IF i \in S THEN [p[i] EXCEPT !.key = EvenKey(Turn(row, i), Len(row))]
                                    ELSE p[i]]

\* Faulty variants: the deleted tasks, or the moved ones, keep their old keys.
RespacedLive(p, s, M) == Evenly(p, Rows(p, s) \ dead)
RespacedStay(p, s, M) == Evenly(p, Rows(p, s) \ M)

\* _rebalance: all rows of the section, deleted and moved ones too
Respaced(p, s, M) == Evenly(p, Rows(p, s))

\* One attempt of _keys_for; none, an OrderingError, when the neighbours do
\* not differ in the right direction.
Attempt(p, s, M, k) ==
    LET a == KeyOf(p, Above(p, s, M, k))
        b == KeyOf(p, Below(p, s, M, k))
    IN  IF a # Open /\ b # Open /\ ~Less(a, b) THEN {}
        ELSE IF Cardinality(M) = 1 THEN {<<x>> : x \in KeyBetween(a, b)}
        ELSE {KeysBetween(a, b, Cardinality(M))}

TooLong(keys) == \E n \in DOMAIN keys : Len(keys[n]) > MaxLength

\* Faulty variant: nothing is spaced anew.
KeysForOnce(p, s, M, k) == {[rows |-> p, keys |-> ks] : ks \in Attempt(p, s, M, k)}

\* _keys_for: the rows as they are then, and the keys
KeysFor(p, s, M, k) ==
    LET even == Respaced(p, s, M)
    IN  IF \E ks \in Attempt(p, s, M, k) : TooLong(ks)
        THEN {[rows |-> even, keys |-> ks] : ks \in Attempt(even, s, M, k)}
        ELSE {[rows |-> p, keys |-> ks] : ks \in Attempt(p, s, M, k)}

-----------------------------------------------------------------------------
None == [moved |-> <<>>]

\* Tasks as an import or a template makes them.
Init ==
    /\ dead = {} /\ gone = {} /\ given = {}
    /\ log = <<>> /\ req = [r \in Requests |-> None]
    /\ \E at \in Starts :
         LET bare == [i \in Items |-> [sec |-> at[i], key |-> Open]]
         IN  place = [i \in Items |-> Evenly(bare, Rows(bare, at[i]))[i]]

Busy == {r \in Requests : req[r] # None}
Room ==
    Len(log) + Cardinality({r \in Busy : req[r].back = 0}) + Cardinality(given) < MaxMoves

\* move_tasks: the living tasks M behind the k-th task of section s
Move(r, M, s, k) ==
    /\ req[r] = None /\ Room /\ s \notin gone
    /\ M # {} /\ M \cap dead = {}
    /\ \E new \in KeysFor(place, s, M, k) :
         LET block == Sorted(place, M)
             row   == new.rows
         IN  req' = [req EXCEPT ![r] =
                 [moved |-> block, back |-> 0, late |-> FALSE, read |-> place, was |-> row,
                  put   |-> [i \in Items |->
                               IF i \in M THEN [sec |-> s, key |-> new.keys[Turn(block, i)]]
                               ELSE row[i]],
                  above |-> Above(place, s, M, k), below |-> Below(place, s, M, k)]]
    /\ UNCHANGED <<place, dead, gone, log, given>>

\* _undo_move, for all rows of a batch or none
MoveBack(r, n) ==
    /\ req[r] = None /\ ~log[n].undone
    /\ \A i \in ToSet(log[n].moved) :
           i \notin dead /\ place[i] = log[n].now[i] /\ log[n].was[i].sec \notin gone
    /\ req' = [req EXCEPT ![r] =
           [moved |-> log[n].moved, back |-> n, late |-> FALSE, read |-> place, was |-> place,
            put   |-> [i \in Items |-> IF i \in ToSet(log[n].moved) THEN log[n].was[i] ELSE place[i]],
            above |-> 0, below |-> 0]]
    /\ UNCHANGED <<place, dead, gone, log, given>>

\* A column is written when its value is not the one that was read.
Merged(q) ==
    [i \in Items |->
       [sec |-> IF q.put[i].sec = q.read[i].sec THEN place[i].sec ELSE q.put[i].sec,
        key |-> IF q.put[i].key = q.read[i].key THEN place[i].key ELSE q.put[i].key]]

\* What another commit does to the history: before, the rows before a move,
\* stands as long as nobody else has committed in between, or since.
Older == [n \in DOMAIN log |-> [log[n] EXCEPT !.before = <<>>]]
Later == [o \in Requests |-> IF req[o] = None THEN None ELSE [req[o] EXCEPT !.late = TRUE]]

\* The transaction commits.
Commit(r) ==
    LET q    == req[r]
        mine == [moved |-> q.moved, was |-> q.was, now |-> q.put, undone |-> FALSE,
                 before |-> IF q.late THEN <<>> ELSE place]
    IN  /\ req[r] # None
        /\ place' = Merged(q)
        /\ log' = IF q.back = 0 THEN Append(Older, mine) ELSE [Older EXCEPT ![q.back].undone = TRUE]
        /\ req' = [Later EXCEPT ![r] = None]
        /\ UNCHANGED <<dead, gone, given>>

\* The request fails, its transaction rolls back.
Abort(r) ==
    /\ req[r] # None /\ req' = [req EXCEPT ![r] = None]
    /\ UNCHANGED <<place, dead, gone, log, given>>

\* delete_task
DeleteTask(i) ==
    /\ i \notin dead /\ Cardinality(dead) < MaxDead /\ dead' = dead \cup {i}
    /\ UNCHANGED <<place, gone, log, req, given>>

\* delete_section, once its tasks are moved (a Move) or deleted; one section stays
DeleteSection(s) ==
    /\ s \in Closing \ gone /\ Sections \ (gone \cup {s}) # {} /\ Rows(place, s) \subseteq dead
    /\ gone' = gone \cup {s}
    /\ UNCHANGED <<place, dead, log, req, given>>

\* _undo_delete of a section
RestoreSection(s) ==
    /\ s \in gone /\ gone' = gone \ {s}
    /\ UNCHANGED <<place, dead, log, req, given>>

\* The task goes to the end of section s, with a key that nobody measures.
ToEnd(i, s) ==
    \E keys \in Attempt(place, s, {i}, Len(Listed(place, s, {i}))) :
        /\ place' = [place EXCEPT ![i] = [sec |-> s, key |-> keys[1]]]
        /\ given' = given \cup {keys[1]}

\* _undo_delete of a task: the key stays what it is, unless its section is gone;
\* then the task comes back in the first section there is
RestoreTask(i) ==
    /\ i \in dead /\ dead' = dead \ {i} /\ UNCHANGED gone
    /\ \/ place[i].sec \notin gone /\ UNCHANGED <<place, log, req, given>>
       \/ /\ place[i].sec \in gone /\ Room
          /\ \E s \in Sections : First(s) /\ ToEnd(i, s)
          /\ log' = Older /\ req' = Later

Next ==
    \/ \E r \in Requests, M \in SUBSET Items, s \in Sections :
           \E k \in 0 .. Len(Listed(place, s, M)) : Move(r, M, s, k)
    \/ \E r \in Requests, n \in DOMAIN log : MoveBack(r, n)
    \/ \E r \in Requests : Commit(r) \/ Abort(r)
    \/ \E i \in Items : DeleteTask(i) \/ RestoreTask(i)
    \/ \E s \in Sections : DeleteSection(s) \/ RestoreSection(s)

Spec == Init /\ [][Next]_vars

-----------------------------------------------------------------------------
(* Properties                                                                 *)

\* Every key can be a neighbour: it is made of digits, does not end in the zero
\* digit, and is short, whatever moves, undos and overlapping requests made of
\* it (ordering.py: _validate, needs_rebalance).  The only keys over
\* MAX_KEY_LENGTH are those _undo_delete gave to tasks whose section was gone:
\* it measures no key and spaces nothing anew.
KeysSound ==
    \A i \in Items :
        LET k == place[i].key
        IN  /\ k \in Keys /\ k # Open /\ k[Len(k)] # 0
            /\ Len(k) <= MaxLength \/ k \in given

\* Does not hold: tasks restored one after the other, each behind the last.
AllShort == \A i \in Items : Len(place[i].key) <= MaxLength

\* Does not hold: a bulk move takes its keys by bisection, with no random digits, and
\* a move taken back brings its old key along.  Two tasks with one key stay next to
\* each other; a move between them is an OrderingError.
KeysDiffer ==
    \A i, j \in Items : i # j /\ place[i].sec = place[j].sec => place[i].key # place[j].key

Commits(r) == req[r] # None /\ req'[r] = None /\ log' # log

\* The tasks of a move, between the two neighbours it was asked for.
Line(q) ==
    (IF q.above = 0 THEN <<>> ELSE <<q.above>>) \o q.moved
        \o (IF q.below = 0 THEN <<>> ELSE <<q.below>>)

PlaceKept ==
    \A r \in Requests :
        LET q    == req[r]
            line == Line(q)
        IN  Commits(r) /\ q.back = 0 =>
              /\ (\A n \in DOMAIN line : place'[line[n]] = q.put[line[n]]) =>
                    \A n \in 1 .. Len(line) - 1 :
                        Less(place'[line[n]].key, place'[line[n + 1]].key)
              /\ ~q.late =>
                    \A i, j \in Items \ ToSet(q.moved) :
                        place[i].sec = place[j].sec => (Before(place, i, j) <=> Before(place', i, j))

\* A move puts its tasks, in their order, between the two neighbours it was
\* asked for (as long as these are where it found them), and leaves the order of
\* all the others alone, deleted ones too, also when it spaces the section
\* anew (as long as no other request has committed in between).
KeepsPlace == [][PlaceKept]_vars

OrderRestored ==
    \A r \in Requests :
        Commits(r) /\ req[r].back # 0 /\ ~req[r].late /\ log[req[r].back].before # <<>> =>
            LET then == log[req[r].back].before
            IN  \A i, j \in Items :
                   /\ place'[i].sec = then[i].sec
                   /\ then[i].sec = then[j].sec => (Before(then, i, j) <=> Before(place', i, j))

\* Taking back a move at once puts every task, deleted ones too, where it was
\* among the others, also when the move had spaced the section anew (_rebalance:
\* "so their undo positions stay consistent").
UndoRestores == [][OrderRestored]_vars
=============================================================================
