------------------------------- MODULE Marbles -------------------------------
(* The marbles of chaincode/marbles02/go and their color~name index, through  *)
(* which all marbles of a color are transferred at once.  Transactions are    *)
(* endorsed on one state and take effect on a later one, when what they read, *)
(* the result of the range query included, still holds.                       *)
EXTENDS Integers

CONSTANTS
  Names,
  Colors,
  Owners,
  MaxTxs,      \* bound: the transactions
  Nothing      \* no value under a key

Marble == [color : Colors, owner : Owners, version : Nat]
ColorRange == [color : Colors, names : SUBSET Names, owner : Owners]

ASSUME MarblesAssumption == MaxTxs \in Nat /\ Nothing \notin Marble /\ Nothing \notin ColorRange

VARIABLES
  marble,      \* [color, owner, version], or nothing, under each name
  index,       \* the color~name keys
  inFlight,    \* transactions that are endorsed and not yet committed
  sent,        \* the transactions so far
  lastMove     \* color and owner when the last commit moved a color

marbleVars == <<marble, index, inFlight, sent, lastMove>>

MarblesInit ==
  /\ marble = [n \in Names |-> Nothing]
  /\ index = {}
  /\ inFlight = {}
  /\ sent = 0
  /\ lastMove = Nothing

\* reads: what the names had; puts: what they get; color: the range that was
\* read and the names that were in it.
Submit(reads, puts, adds, dels, range) ==
  /\ sent < MaxTxs
  /\ sent' = sent + 1
  /\ inFlight' = inFlight \cup
       {[reads |-> reads, puts |-> puts, adds |-> adds, dels |-> dels, range |-> range, tx |-> sent]}
  /\ UNCHANGED <<marble, index, lastMove>>

Seen(S) == [n \in S |-> marble[n]]
Put(name, value) == [n \in {name} |-> value]

initMarble(name, color, owner) ==
  /\ marble[name] = Nothing
  /\ Submit(Seen({name}), Put(name, [color |-> color, owner |-> owner, version |-> sent]),
            {<<color, name>>}, {}, Nothing)

\* A plausible mistake: the index is not maintained.
deleteKeepsIndex(name) ==
  /\ marble[name] # Nothing
  /\ Submit(Seen({name}), Put(name, Nothing), {}, {}, Nothing)

delete(name) ==
  /\ marble[name] # Nothing
  /\ Submit(Seen({name}), Put(name, Nothing), {}, {<<marble[name].color, name>>}, Nothing)

Moved(S, owner) == [n \in S |-> [marble[n] EXCEPT !.owner = owner, !.version = sent]]

transferMarble(name, owner) ==
  /\ marble[name] # Nothing
  /\ Submit(Seen({name}), Moved({name}, owner), {}, {}, Nothing)

\* transferMarble for every name in the index; one that fails, fails all.
transferMarblesBasedOnColor(color, owner) ==
  LET found == {n \in Names : <<color, n>> \in index} IN
  /\ \A n \in found : marble[n] # Nothing
  /\ Submit(Seen(found), Moved(found, owner), {}, {},
            [color |-> color, names |-> found, owner |-> owner])

Valid(t) ==
  /\ \A n \in DOMAIN t.reads : marble[n] = t.reads[n]
  /\ t.range # Nothing => t.range.names = {n \in Names : <<t.range.color, n>> \in index}

CommitMarbles(t) ==
  /\ inFlight' = inFlight \ {t}
  /\ IF Valid(t)
     THEN /\ marble' = [n \in Names |-> IF n \in DOMAIN t.puts THEN t.puts[n] ELSE marble[n]]
          /\ index' = (index \cup t.adds) \ t.dels
          /\ lastMove' = t.range
     ELSE UNCHANGED <<marble, index, lastMove>>
  /\ UNCHANGED sent

MarblesNext ==
  \/ \E n \in Names :
       \/ \E c \in Colors, o \in Owners : initMarble(n, c, o)
       \/ delete(n)
       \/ \E o \in Owners : transferMarble(n, o)
  \/ \E c \in Colors, o \in Owners : transferMarblesBasedOnColor(c, o)
  \/ \E t \in inFlight : CommitMarbles(t)

MarblesSpec == MarblesInit /\ [][MarblesNext]_marbleVars

(* The index has a key for each marble there is, under its color, and no      *)
(* other; and when all marbles of a color are transferred, no marble of the   *)
(* color is left with another owner, though marbles were created, deleted or  *)
(* transferred between the endorsement and the commit.                        *)
ColorMovesAsOne ==
  /\ index = {<<marble[n].color, n>> : n \in {m \in Names : marble[m] # Nothing}}
  /\ lastMove # Nothing =>
       \A n \in Names :
         marble[n] # Nothing /\ marble[n].color = lastMove.color => marble[n].owner = lastMove.owner

=============================================================================
