---------------------------- MODULE Samples_proofs ---------------------------
(* The sample contracts, for any accounts, organizations, assets and prices.  *)
EXTENDS Samples, Sums_proofs

-----------------------------------------------------------------------------
(* token-erc-721: the token's owner, the keys that BalanceOf counts and the   *)
(* Transfer events never disagree.                                            *)

(* The types alone are not inductive enough for the books: a burn or transfer *)
(* deletes the key of the owner it reads, so each step needs that this is the *)
(* only key of the token.                                                     *)
NftInv == NftTypeOK /\ OneOwnerPerToken

\* What OneOwnerPerToken says of one account and one token.
LEMMA Books ==
  ASSUME OneOwnerPerToken, NEW a \in Accounts, NEW t \in NftIds
  PROVE  /\ <<a, t>> \in balance <=> nft[t] # NoNft /\ nft[t].owner = a
         /\ toldOwner[t] = IF nft[t] # NoNft THEN nft[t].owner ELSE NoAccount
  BY DEF OneOwnerPerToken, BalanceOf, TotalSupply, NftExists

\* A step keeps the books when it keeps them for every account and token.
LEMMA BooksAfter ==
  ASSUME \A a \in Accounts, t \in NftIds :
           <<a, t>> \in balance' <=> nft'[t] # NoNft /\ nft'[t].owner = a,
         \A t \in NftIds : toldOwner'[t] = IF nft'[t] # NoNft THEN nft'[t].owner ELSE NoAccount
  PROVE  OneOwnerPerToken'
  BY DEF OneOwnerPerToken, BalanceOf, TotalSupply, NftExists

LEMMA NftStarts == NftInit => NftInv
  BY DEF NftInit, NftInv, NftTypeOK, OneOwnerPerToken, BalanceOf, TotalSupply, NftExists

LEMMA MintKeeps ==
  ASSUME NftInv, NEW c \in Accounts, NEW u \in NftIds, MintWithTokenURI(c, u)
  PROVE  NftInv'
<1>1. [owner |-> c, approved |-> NoAccount] \in Nft
  BY DEF Nft
<1>2. NftTypeOK'
  BY <1>1 DEF NftInv, NftTypeOK, MintWithTokenURI, EmitTransfer
<1>3. ASSUME NEW a \in Accounts, NEW t \in NftIds
      PROVE  /\ <<a, t>> \in balance' <=> nft'[t] # NoNft /\ nft'[t].owner = a
             /\ toldOwner'[t] = IF nft'[t] # NoNft THEN nft'[t].owner ELSE NoAccount
  <2>1. /\ <<a, t>> \in balance <=> nft[t] # NoNft /\ nft[t].owner = a
        /\ toldOwner[t] = IF nft[t] # NoNft THEN nft[t].owner ELSE NoAccount
    BY Books DEF NftInv
  <2> QED
    BY <1>1, <2>1, NoNftAssumption DEF NftInv, NftTypeOK, MintWithTokenURI, EmitTransfer, NftExists
<1>4. OneOwnerPerToken'
  BY <1>3, BooksAfter
<1> QED
  BY <1>2, <1>4 DEF NftInv

LEMMA BurnKeeps ==
  ASSUME NftInv, NEW c \in Accounts, NEW u \in NftIds, Burn(c, u)
  PROVE  NftInv'
<1>1. NftTypeOK'
  BY DEF NftInv, NftTypeOK, Burn, EmitTransfer
<1>2. ASSUME NEW a \in Accounts, NEW t \in NftIds
      PROVE  /\ <<a, t>> \in balance' <=> nft'[t] # NoNft /\ nft'[t].owner = a
             /\ toldOwner'[t] = IF nft'[t] # NoNft THEN nft'[t].owner ELSE NoAccount
  <2>1. /\ <<a, t>> \in balance <=> nft[t] # NoNft /\ nft[t].owner = a
        /\ toldOwner[t] = IF nft[t] # NoNft THEN nft[t].owner ELSE NoAccount
    BY Books DEF NftInv
  <2> QED
    BY <2>1 DEF NftInv, NftTypeOK, Burn, EmitTransfer, NftExists
<1>3. OneOwnerPerToken'
  BY <1>2, BooksAfter
<1> QED
  BY <1>1, <1>3 DEF NftInv

LEMMA ApproveKeeps ==
  ASSUME NftInv, NEW c \in Accounts, NEW o \in Accounts \cup {NoAccount}, NEW u \in NftIds,
         Approve(c, o, u)
  PROVE  NftInv'
<1>1. nft[u] \in Nft
  BY DEF NftInv, NftTypeOK, Approve, NftExists
<1>2. /\ [nft[u] EXCEPT !.approved = o] \in Nft
      /\ [nft[u] EXCEPT !.approved = o].owner = nft[u].owner
  BY <1>1 DEF Nft
<1>3. nft' = [nft EXCEPT ![u] = [nft[u] EXCEPT !.approved = o]]
  BY DEF Approve
<1>4. NftTypeOK'
  BY <1>2, <1>3 DEF NftInv, NftTypeOK, Approve
<1>5. ASSUME NEW a \in Accounts, NEW t \in NftIds
      PROVE  /\ <<a, t>> \in balance' <=> nft'[t] # NoNft /\ nft'[t].owner = a
             /\ toldOwner'[t] = IF nft'[t] # NoNft THEN nft'[t].owner ELSE NoAccount
  <2>1. /\ <<a, t>> \in balance <=> nft[t] # NoNft /\ nft[t].owner = a
        /\ toldOwner[t] = IF nft[t] # NoNft THEN nft[t].owner ELSE NoAccount
    BY Books DEF NftInv
  <2>2. /\ nft'[t] # NoNft <=> nft[t] # NoNft
        /\ nft[t] # NoNft => nft'[t].owner = nft[t].owner
    BY <1>2, <1>3, NoNftAssumption DEF NftInv, NftTypeOK, Approve, NftExists
  <2> QED
    BY <2>1, <2>2 DEF Approve
<1>6. OneOwnerPerToken'
  BY <1>5, BooksAfter
<1> QED
  BY <1>4, <1>6 DEF NftInv

\* The transfer to the owner itself is the case to = from.
LEMMA TransferKeeps ==
  ASSUME NftInv, NEW c \in Accounts, NEW from \in Accounts, NEW to \in Accounts, NEW u \in NftIds,
         TransferFrom(c, from, to, u)
  PROVE  NftInv'
<1>1. [owner |-> to, approved |-> NoAccount] \in Nft
  BY DEF Nft
<1>2. NftTypeOK'
  BY <1>1 DEF NftInv, NftTypeOK, TransferFrom, EmitTransfer
<1>3. ASSUME NEW a \in Accounts, NEW t \in NftIds
      PROVE  /\ <<a, t>> \in balance' <=> nft'[t] # NoNft /\ nft'[t].owner = a
             /\ toldOwner'[t] = IF nft'[t] # NoNft THEN nft'[t].owner ELSE NoAccount
  <2>1. /\ <<a, t>> \in balance <=> nft[t] # NoNft /\ nft[t].owner = a
        /\ toldOwner[t] = IF nft[t] # NoNft THEN nft[t].owner ELSE NoAccount
    BY Books DEF NftInv
  <2>2. CASE t = u
    BY <1>1, <2>1, <2>2, NoNftAssumption DEF NftInv, NftTypeOK, TransferFrom, EmitTransfer, NftExists
  <2>3. CASE t # u
    BY <2>1, <2>3 DEF NftInv, NftTypeOK, TransferFrom, EmitTransfer
  <2> QED
    BY <2>2, <2>3
<1>4. OneOwnerPerToken'
  BY <1>3, BooksAfter
<1> QED
  BY <1>2, <1>4 DEF NftInv

\* Steps that leave tokens, keys and events alone.
LEMMA OthersKeep ==
  ASSUME NftInv, UNCHANGED <<nft, balance, toldOwner>>,
         nameSet' \in BOOLEAN, approvals' \subseteq Accounts \X Accounts
  PROVE  NftInv'
  BY DEF NftInv, NftTypeOK, OneOwnerPerToken, BalanceOf, TotalSupply, NftExists

LEMMA NftStep == NftInv /\ [NftNext]_nftVars => NftInv'
<1> SUFFICES ASSUME NftInv, [NftNext]_nftVars PROVE NftInv'
  OBVIOUS
<1>1. CASE UNCHANGED nftVars
  BY <1>1, OthersKeep DEF nftVars, NftInv, NftTypeOK
<1>2. ASSUME NEW c \in Accounts, Initialize(c) PROVE NftInv'
  BY <1>2, OthersKeep DEF Initialize, NftInv, NftTypeOK
<1>3. ASSUME NEW c \in Accounts, NEW o \in Accounts, NEW b \in BOOLEAN,
             SetApprovalForAll(c, o, b)
      PROVE  NftInv'
  <2>1. approvals' \subseteq Accounts \X Accounts
    BY <1>3 DEF SetApprovalForAll, NftInv, NftTypeOK
  <2> QED
    BY <1>3, <2>1, OthersKeep DEF SetApprovalForAll, NftInv, NftTypeOK
<1> QED
  BY <1>1, <1>2, <1>3, MintKeeps, BurnKeeps, ApproveKeeps, TransferKeeps DEF NftNext

-----------------------------------------------------------------------------
(* The three records of who owns a token agree after any sequence of calls by *)
(* any number of clients about any number of tokens.                          *)
THEOREM OwnershipAgrees == NftSpec => []OneOwnerPerToken
<1>1. NftInv => OneOwnerPerToken
  BY DEF NftInv
<1> QED
  BY <1>1, NftStarts, NftStep, PTL DEF NftSpec

(* A token's owner is a client that was named as one: types hold.             *)
THEOREM NftTypeCorrect == NftSpec => []NftTypeOK
<1>1. NftInv => NftTypeOK
  BY DEF NftInv
<1> QED
  BY <1>1, NftStarts, NftStep, PTL DEF NftSpec

-----------------------------------------------------------------------------
(* asset-transfer-secured-agreement: who has the asset and its secrets.       *)

DeedTypes ==
  /\ deed \in Orgs \cup {Unset}
  /\ props \in [Orgs -> Properties \cup {Unset}]
  /\ ask \in [Orgs -> Prices \cup {Unset}]
  /\ bid \in [Orgs -> Prices \cup {Unset}]

DeedInv == DeedTypes /\ SaleEndsAgreement

LEMMA DeedStarts == DeedInit => DeedInv
BY DEF DeedInit, DeedInv, DeedTypes, SaleEndsAgreement

LEMMA CreateAssetKeeps ==
  ASSUME DeedInv, NEW org \in Orgs, CreateAsset(org)
  PROVE  DeedInv'
BY DeedAssumption DEF DeedInv, DeedTypes, SaleEndsAgreement, CreateAsset, EndorsedByOwnPeer,
   setAssetStateBasedEndorsement

LEMMA AgreeToSellKeeps ==
  ASSUME DeedInv, NEW org \in Orgs, NEW price \in Prices, AgreeToSell(org, price)
  PROVE  DeedInv'
BY DeedAssumption DEF DeedInv, DeedTypes, SaleEndsAgreement, AgreeToSell

LEMMA AgreeToBuyKeeps ==
  ASSUME DeedInv, NEW org \in Orgs, NEW price \in Prices, NEW properties \in Properties,
         AgreeToBuy(org, properties, price)
  PROVE  DeedInv'
BY DeedAssumption DEF DeedInv, DeedTypes, SaleEndsAgreement, AgreeToBuy

LEMMA TransferAssetKeeps ==
  ASSUME DeedInv, NEW org \in Orgs, NEW buyer \in Orgs, NEW price \in Prices,
         TransferAsset(org, buyer, price)
  PROVE  DeedInv'
BY DeedAssumption DEF DeedInv, DeedTypes, SaleEndsAgreement, TransferAsset,
   verifyTransferConditions, transferAssetState, setAssetStateBasedEndorsement

LEMMA DeedStep == DeedInv /\ [DeedNext]_deedVars => DeedInv'
<1> SUFFICES ASSUME DeedInv, [DeedNext]_deedVars PROVE DeedInv'
  OBVIOUS
<1>1. CASE DeedNext
  BY <1>1, CreateAssetKeeps, AgreeToSellKeeps, AgreeToBuyKeeps, TransferAssetKeeps DEF DeedNext
<1>2. CASE UNCHANGED deedVars
  BY <1>2 DEF deedVars, DeedInv, DeedTypes, SaleEndsAgreement
<1> QED BY <1>1, <1>2

\* An organization that buys an asset back does not find it for sale at the old
\* price, and the owner alone controls the asset and has its properties
\* (asset_transfer.go:428-470), for any organizations, prices and properties.
THEOREM AgreementEndsWithSale == DeedSpec => []SaleEndsAgreement
<1>1. DeedInv => SaleEndsAgreement
  BY DEF DeedInv
<1> QED BY <1>1, DeedStarts, DeedStep, PTL DEF DeedSpec

-----------------------------------------------------------------------------
(* marbles02: transactions are endorsed on one state and commit on another.   *)

\* A name has what it had when the transaction was endorsed.
AsSeen(t) == \A n \in DOMAIN t.reads : marble[n] = t.reads[n]

\* What a transaction writes, in terms of what it has read.
Creates(t) ==
  \E n \in Names, m \in Marble :
    /\ t.reads = [x \in {n} |-> Nothing]
    /\ t.puts = [x \in {n} |-> m]
    /\ t.adds = {<<m.color, n>>} /\ t.dels = {} /\ t.range = Nothing

Deletes(t) ==
  \E n \in Names, m \in Marble :
    /\ t.reads = [x \in {n} |-> m]
    /\ t.puts = [x \in {n} |-> Nothing]
    /\ t.adds = {} /\ t.dels = {<<m.color, n>>} /\ t.range = Nothing

\* The marbles change hands and keep their color.
HandsOver(t, owners) ==
  /\ DOMAIN t.reads \in SUBSET Names /\ DOMAIN t.puts = DOMAIN t.reads
  /\ \A n \in DOMAIN t.reads :
       /\ t.reads[n] \in Marble /\ t.puts[n] \in Marble
       /\ t.puts[n].color = t.reads[n].color /\ t.puts[n].owner \in owners
  /\ t.adds = {} /\ t.dels = {}

Moves(t) ==
  \/ HandsOver(t, Owners) /\ t.range = Nothing
  \/ t.range \in ColorRange /\ t.range.names = DOMAIN t.reads /\ HandsOver(t, {t.range.owner})

MarblesInv ==
  /\ marble \in [Names -> Marble \cup {Nothing}]
  /\ index \subseteq Colors \X Names
  /\ sent \in Nat
  /\ lastMove \in ColorRange \cup {Nothing}
  /\ \A t \in inFlight : Creates(t) \/ Deletes(t) \/ Moves(t)
  /\ ColorMovesAsOne


LEMMA MarblesStart == MarblesInit => MarblesInv
BY MarblesAssumption DEF MarblesInit, MarblesInv, ColorMovesAsOne

\* An endorsement changes nothing on the ledger.
LEMMA SubmitKeeps ==
  ASSUME MarblesInv, NEW reads, NEW puts, NEW adds, NEW dels, NEW range,
         Submit(reads, puts, adds, dels, range),
         \A tx : LET t == [reads |-> reads, puts |-> puts, adds |-> adds, dels |-> dels,
                           range |-> range, tx |-> tx]
                 IN  Creates(t) \/ Deletes(t) \/ Moves(t)
  PROVE  MarblesInv'
<1> DEFINE t == [reads |-> reads, puts |-> puts, adds |-> adds, dels |-> dels, range |-> range, tx |-> sent]
<1>1. /\ UNCHANGED <<marble, index, lastMove>> /\ sent' = sent + 1 /\ inFlight' = inFlight \cup {t}
  BY DEF Submit
<1>2. Creates(t) \/ Deletes(t) \/ Moves(t)
  OBVIOUS
<1> HIDE DEF t
<1>3. ColorMovesAsOne'
  BY <1>1 DEF MarblesInv, ColorMovesAsOne
<1>4. \A x \in inFlight' : Creates(x) \/ Deletes(x) \/ Moves(x)
  BY <1>1, <1>2 DEF MarblesInv
<1>5. /\ marble' \in [Names -> Marble \cup {Nothing}]
      /\ index' \subseteq Colors \X Names
      /\ sent' \in Nat
      /\ lastMove' \in ColorRange \cup {Nothing}
  BY <1>1 DEF MarblesInv
<1> QED BY <1>3, <1>4, <1>5 DEF MarblesInv, Creates, Deletes, Moves, HandsOver

LEMMA CreatesMarble ==
  ASSUME MarblesInv, NEW n \in Names, NEW c \in Colors, NEW o \in Owners, initMarble(n, c, o)
  PROVE  MarblesInv'
<1> DEFINE m == [color |-> c, owner |-> o, version |-> sent]
<1>1. m \in Marble /\ m.color = c
  BY DEF MarblesInv, Marble
<1>2. Seen({n}) = [x \in {n} |-> Nothing] /\ Put(n, m) = [x \in {n} |-> m]
  BY DEF initMarble, Seen, Put
<1> HIDE DEF m
<1>3. Submit([x \in {n} |-> Nothing], [x \in {n} |-> m], {<<c, n>>}, {}, Nothing)
  BY <1>2 DEF initMarble, m
<1>4. ASSUME NEW tx
      PROVE  Creates([reads |-> [x \in {n} |-> Nothing], puts |-> [x \in {n} |-> m],
                      adds |-> {<<c, n>>}, dels |-> {}, range |-> Nothing, tx |-> tx])
  BY <1>1 DEF Creates
<1> QED BY <1>3, <1>4, SubmitKeeps

LEMMA DeletesMarble ==
  ASSUME MarblesInv, NEW n \in Names, delete(n)
  PROVE  MarblesInv'
<1> DEFINE m == marble[n]
<1>1. m \in Marble
  BY DEF MarblesInv, delete
<1>2. Seen({n}) = [x \in {n} |-> m] /\ Put(n, Nothing) = [x \in {n} |-> Nothing]
  BY DEF Seen, Put
<1>3. Submit([x \in {n} |-> m], [x \in {n} |-> Nothing], {}, {<<m.color, n>>}, Nothing)
  BY <1>2 DEF delete
<1> HIDE DEF m
<1>4. ASSUME NEW tx
      PROVE  Deletes([reads |-> [x \in {n} |-> m], puts |-> [x \in {n} |-> Nothing],
                      adds |-> {}, dels |-> {<<m.color, n>>}, range |-> Nothing, tx |-> tx])
  BY <1>1 DEF Deletes
<1> QED BY <1>3, <1>4, SubmitKeeps

\* Every marble that is read and put with a new owner keeps its color.
LEMMA MovedIs ==
  ASSUME MarblesInv, NEW S \in SUBSET Names, NEW o \in Owners, \A n \in S : marble[n] # Nothing
  PROVE  /\ DOMAIN Seen(S) = S /\ DOMAIN Moved(S, o) = S
         /\ \A n \in S : /\ Seen(S)[n] \in Marble /\ Moved(S, o)[n] \in Marble
                         /\ Moved(S, o)[n].color = Seen(S)[n].color
                         /\ Moved(S, o)[n].owner = o
<1>1. ASSUME NEW n \in S
      PROVE  /\ marble[n] \in Marble
             /\ [marble[n] EXCEPT !.owner = o, !.version = sent] \in Marble
             /\ [marble[n] EXCEPT !.owner = o, !.version = sent].color = marble[n].color
             /\ [marble[n] EXCEPT !.owner = o, !.version = sent].owner = o
  BY DEF MarblesInv, Marble
<1> QED BY <1>1 DEF Seen, Moved

LEMMA TransfersMarble ==
  ASSUME MarblesInv, NEW n \in Names, NEW o \in Owners, transferMarble(n, o)
  PROVE  MarblesInv'
<1> DEFINE reads == Seen({n})
           puts == Moved({n}, o)
<1>1. Submit(reads, puts, {}, {}, Nothing) /\ \A x \in {n} : marble[x] # Nothing
  BY DEF transferMarble
<1>2. {n} \in SUBSET Names
  OBVIOUS
<1>3. HandsOver([reads |-> reads, puts |-> puts, adds |-> {}, dels |-> {}, range |-> Nothing, tx |-> 0], Owners)
  BY <1>1, <1>2, MovedIs DEF HandsOver
<1> HIDE DEF reads, puts
<1>4. ASSUME NEW tx
      PROVE  Moves([reads |-> reads, puts |-> puts, adds |-> {}, dels |-> {}, range |-> Nothing, tx |-> tx])
  BY <1>3 DEF Moves, HandsOver
<1> QED BY <1>1, <1>4, SubmitKeeps

LEMMA TransfersColor ==
  ASSUME MarblesInv, NEW c \in Colors, NEW o \in Owners, transferMarblesBasedOnColor(c, o)
  PROVE  MarblesInv'
<1> DEFINE found == {n \in Names : <<c, n>> \in index}
           reads == Seen(found)
           puts == Moved(found, o)
           range == [color |-> c, names |-> found, owner |-> o]
<1>1. Submit(reads, puts, {}, {}, range) /\ \A x \in found : marble[x] # Nothing
  BY DEF transferMarblesBasedOnColor
<1>2. found \in SUBSET Names /\ range \in ColorRange /\ range.names = found /\ range.owner = o
  BY DEF ColorRange
<1> HIDE DEF found, range
<1>3. HandsOver([reads |-> reads, puts |-> puts, adds |-> {}, dels |-> {}, range |-> range, tx |-> 0], {o})
      /\ DOMAIN reads = found
  BY <1>1, <1>2, MovedIs DEF HandsOver
<1> HIDE DEF reads, puts
<1>4. ASSUME NEW tx
      PROVE  Moves([reads |-> reads, puts |-> puts, adds |-> {}, dels |-> {}, range |-> range, tx |-> tx])
  BY <1>2, <1>3 DEF Moves, HandsOver
<1> QED BY <1>1, <1>4, SubmitKeeps


\* What ColorMovesAsOne says of one key of the index, and of a set of them.
LEMMA IndexKey ==
  ASSUME MarblesInv
  PROVE  \A n \in Names, c \in Colors :
           <<c, n>> \in index <=> marble[n] # Nothing /\ marble[n].color = c
BY DEF MarblesInv, ColorMovesAsOne

LEMMA IndexOf ==
  ASSUME NEW m \in [Names -> Marble \cup {Nothing}], NEW i, i \in SUBSET (Colors \X Names),
         \A n \in Names, c \in Colors : <<c, n>> \in i <=> m[n] # Nothing /\ m[n].color = c
  PROVE  i = {<<m[n].color, n>> : n \in {x \in Names : m[x] # Nothing}}
<1> DEFINE keys == {<<m[n].color, n>> : n \in {x \in Names : m[x] # Nothing}}
<1>1. ASSUME NEW n \in Names, m[n] # Nothing PROVE m[n].color \in Colors
  BY <1>1 DEF Marble
<1>2. ASSUME NEW k \in i PROVE k \in keys
  <2>1. PICK c \in Colors, n \in Names : k = <<c, n>>
    BY <1>2
  <2> QED BY <1>2, <2>1
<1>3. ASSUME NEW k \in keys PROVE k \in i
  <2>1. PICK n \in Names : m[n] # Nothing /\ k = <<m[n].color, n>>
    BY <1>3
  <2> QED BY <1>1, <2>1
<1> QED BY <1>2, <1>3

\* The marbles after a valid transaction; its effect is one ColorMovesAsOne allows.
After(t) == [n \in Names |-> IF n \in DOMAIN t.puts THEN t.puts[n] ELSE marble[n]]

Good(t, m) ==
  /\ m \in [Names -> Marble \cup {Nothing}] /\ t.range \in ColorRange \cup {Nothing}
  /\ t.adds \cup t.dels \in SUBSET (Colors \X Names)
  /\ \A n \in Names, c \in Colors :
       <<c, n>> \in (index \cup t.adds) \ t.dels <=> m[n] # Nothing /\ m[n].color = c
  /\ t.range # Nothing =>
       \A n \in Names : m[n] # Nothing /\ m[n].color = t.range.color => m[n].owner = t.range.owner

LEMMA CommitMakes ==
  ASSUME MarblesInv, NEW t \in inFlight, CommitMarbles(t), Valid(t),
         NEW m, m = After(t), Good(t, m)
  PROVE  MarblesInv'
<1> DEFINE i == (index \cup t.adds) \ t.dels
<1>1. marble' = m /\ index' = i /\ lastMove' = t.range /\ inFlight' = inFlight \ {t} /\ sent' = sent
  BY DEF CommitMarbles, After
<1>2. i \in SUBSET (Colors \X Names) /\ m \in [Names -> Marble \cup {Nothing}]
  BY DEF MarblesInv, Good
<1> HIDE DEF i
<1>3. \A n \in Names, c \in Colors : <<c, n>> \in i <=> m[n] # Nothing /\ m[n].color = c
  BY DEF i, Good
<1>4. i = {<<m[n].color, n>> : n \in {x \in Names : m[x] # Nothing}}
  BY <1>2, <1>3, IndexOf
<1>5. ColorMovesAsOne'
  BY <1>1, <1>4 DEF ColorMovesAsOne, Good
<1>6. \A x \in inFlight' : Creates(x) \/ Deletes(x) \/ Moves(x)
  BY <1>1 DEF MarblesInv
<1>7. marble' \in [Names -> Marble \cup {Nothing}] /\ index' \subseteq Colors \X Names /\ sent' \in Nat
      /\ lastMove' \in ColorRange \cup {Nothing}
  BY <1>1, <1>2 DEF MarblesInv, Good
<1> QED BY <1>5, <1>6, <1>7 DEF MarblesInv, Creates, Deletes, Moves, HandsOver

LEMMA CommitKeepsBooks ==
  ASSUME MarblesInv, NEW t \in inFlight, CommitMarbles(t), Valid(t)
  PROVE  MarblesInv'
<1> DEFINE m == After(t)
<1>1. marble \in [Names -> Marble \cup {Nothing}] /\ index \in SUBSET (Colors \X Names)
  BY DEF MarblesInv
<1>2. \A n \in DOMAIN t.reads : marble[n] = t.reads[n]
  BY DEF Valid
<1>3. \A n \in Names, c \in Colors : <<c, n>> \in index <=> marble[n] # Nothing /\ marble[n].color = c
  BY IndexKey
<1>4. CASE Creates(t)
  <2>1. PICK a \in Names, b \in Marble :
          /\ t.reads = [x \in {a} |-> Nothing]
          /\ t.puts = [x \in {a} |-> b]
          /\ t.adds = {<<b.color, a>>} /\ t.dels = {} /\ t.range = Nothing
    BY <1>4 DEF Creates
  <2>2. marble[a] = Nothing /\ b # Nothing /\ b.color \in Colors
    BY <1>2, <2>1, MarblesAssumption DEF Marble
  <2>3. m = [marble EXCEPT ![a] = b]
    BY <1>1, <2>1 DEF After
  <2> HIDE DEF m
  <2>4. m \in [Names -> Marble \cup {Nothing}]
    BY <1>1, <2>3
  <2>5. ASSUME NEW n \in Names, NEW c \in Colors
        PROVE  <<c, n>> \in (index \cup t.adds) \ t.dels <=> m[n] # Nothing /\ m[n].color = c
    <3>1. CASE n = a
      BY <1>1, <1>3, <2>1, <2>2, <2>3, <3>1
    <3>2. CASE n # a
      BY <1>1, <1>3, <2>1, <2>3, <3>2
    <3> QED BY <3>1, <3>2
  <2>6. t.adds \cup t.dels \in SUBSET (Colors \X Names)
    BY <2>1, <2>2
  <2>7. Good(t, m)
    BY <2>1, <2>4, <2>5, <2>6 DEF Good
  <2> QED BY <2>7, CommitMakes DEF m
<1>5. CASE Deletes(t)
  <2>1. PICK a \in Names, b \in Marble :
          /\ t.reads = [x \in {a} |-> b]
          /\ t.puts = [x \in {a} |-> Nothing]
          /\ t.adds = {} /\ t.dels = {<<b.color, a>>} /\ t.range = Nothing
    BY <1>5 DEF Deletes
  <2>2. marble[a] = b /\ b # Nothing /\ b.color \in Colors
    BY <1>2, <2>1, MarblesAssumption DEF Marble
  <2>3. m = [marble EXCEPT ![a] = Nothing]
    BY <1>1, <2>1 DEF After
  <2> HIDE DEF m
  <2>4. m \in [Names -> Marble \cup {Nothing}]
    BY <1>1, <2>3
  <2>5. ASSUME NEW n \in Names, NEW c \in Colors
        PROVE  <<c, n>> \in (index \cup t.adds) \ t.dels <=> m[n] # Nothing /\ m[n].color = c
    <3>1. CASE n = a
      BY <1>1, <1>3, <2>1, <2>2, <2>3, <3>1
    <3>2. CASE n # a
      BY <1>1, <1>3, <2>1, <2>3, <3>2
    <3> QED BY <3>1, <3>2
  <2>6. t.adds \cup t.dels \in SUBSET (Colors \X Names)
    BY <2>1, <2>2
  <2>7. Good(t, m)
    BY <2>1, <2>4, <2>5, <2>6 DEF Good
  <2> QED BY <2>7, CommitMakes DEF m
<1>6. CASE Moves(t)
  <2>1. PICK owners : HandsOver(t, owners) /\ (t.range # Nothing => owners = {t.range.owner})
        /\ t.range \in ColorRange \cup {Nothing} /\ (t.range # Nothing => t.range.names = DOMAIN t.reads)
    BY <1>6 DEF Moves
  <2>2. \A n \in Names : n \in DOMAIN t.puts =>
          /\ marble[n] \in Marble /\ t.puts[n] \in Marble /\ marble[n] # Nothing /\ t.puts[n] # Nothing
          /\ t.puts[n].color = marble[n].color /\ t.puts[n].owner \in owners
    BY <1>2, <2>1, MarblesAssumption DEF HandsOver
  <2>3. \A n \in Names : m[n] = IF n \in DOMAIN t.puts THEN t.puts[n] ELSE marble[n]
    BY DEF After
  <2>4. m \in [Names -> Marble \cup {Nothing}]
    BY <1>1, <2>2 DEF After
  <2>5. (index \cup t.adds) \ t.dels = index /\ t.adds \cup t.dels = {}
    BY <2>1 DEF HandsOver
  <2> HIDE DEF m
  <2>6. \A n \in Names, c \in Colors :
          <<c, n>> \in (index \cup t.adds) \ t.dels <=> m[n] # Nothing /\ m[n].color = c
    BY <1>3, <2>2, <2>3, <2>5
  <2>7. ASSUME t.range # Nothing, NEW n \in Names, m[n] # Nothing, m[n].color = t.range.color
        PROVE  m[n].owner = t.range.owner
    <3>1. t.range.names = {x \in Names : <<t.range.color, x>> \in index} /\ t.range.color \in Colors
      BY <2>1, <2>7 DEF Valid, ColorRange
    <3>2. marble[n] # Nothing /\ marble[n].color = t.range.color
      BY <2>2, <2>3, <2>7
    <3>3. n \in DOMAIN t.puts
      BY <1>3, <2>1, <2>7, <3>1, <3>2 DEF HandsOver
    <3> QED BY <2>1, <2>2, <2>3, <2>7, <3>3
  <2>8. t.adds \cup t.dels \in SUBSET (Colors \X Names)
    BY <2>5
  <2>9. Good(t, m)
    BY <2>1, <2>4, <2>6, <2>7, <2>8 DEF Good
  <2> QED BY <2>9, CommitMakes DEF m
<1> QED BY <1>4, <1>5, <1>6 DEF MarblesInv

LEMMA CommitMarblesKeeps ==
  ASSUME MarblesInv, NEW t \in inFlight, CommitMarbles(t)
  PROVE  MarblesInv'
<1>1. CASE ~Valid(t)
  <2>1. UNCHANGED <<marble, index, lastMove, sent>> /\ inFlight' = inFlight \ {t}
    BY <1>1 DEF CommitMarbles
  <2> QED BY <2>1 DEF MarblesInv, ColorMovesAsOne, Creates, Deletes, Moves, HandsOver
<1> QED BY <1>1, CommitKeepsBooks

LEMMA MarblesStep == MarblesInv /\ [MarblesNext]_marbleVars => MarblesInv'
<1> SUFFICES ASSUME MarblesInv, [MarblesNext]_marbleVars PROVE MarblesInv'
  OBVIOUS
<1>1. CASE MarblesNext
  BY <1>1, CreatesMarble, DeletesMarble, TransfersMarble, TransfersColor, CommitMarblesKeeps
     DEF MarblesNext
<1>2. CASE UNCHANGED marbleVars
  BY <1>2 DEF marbleVars, MarblesInv, ColorMovesAsOne, Creates, Deletes, Moves, HandsOver
<1> QED BY <1>1, <1>2

\* The color index has the marbles of each color, and transferring a color leaves
\* none of its marbles behind, whatever happened between the endorsement and the
\* commit (marbles_chaincode.go:444-494), for any number of marbles, colors,
\* owners and transactions.
THEOREM ColorsMoveAsOne == MarblesSpec => []ColorMovesAsOne
<1>1. MarblesInv => ColorMovesAsOne
  BY DEF MarblesInv
<1> QED BY <1>1, MarblesStart, MarblesStep, PTL DEF MarblesSpec

-----------------------------------------------------------------------------
(* interest_rate_swaps: who has endorsed what becomes of a swap.              *)

SwapSpec == Swaps!SwapInit /\ [][Swaps!SwapNext]_(Swaps!swapVars)

\* Nothing that t has read was written since.
SeenHolds(t) == \A k \in DOMAIN t.seen : touched[k] = t.seen[k]

\* What a transaction does to the swap and its payment.
SwapTxOK(t) ==
  /\ t.fun \in {"createSwap", "calculatePayment", "settlePayment", "setReferenceRate"}
  /\ DOMAIN t.seen \subseteq Swaps!SwapKeys
  /\ t.fun = "createSwap" => t.new.parties # {}
  /\ t.fun = "settlePayment" => t.new = Swaps!None
  /\ t.fun = "calculatePayment" =>
       /\ DOMAIN t.seen = Swaps!SwapKeys
       /\ SeenHolds(t) => payment = Swaps!None /\ t.new = {Swaps!Due(swap, rate)}

\* The swap's policies are those of its parties and, perhaps, the auditor.
PoliciesOK ==
  swap # Nothing =>
    /\ Swaps!EndorsersOf(swap) # {}
    /\ swapPolicy = Swaps!EndorsersOf(swap) /\ payPolicy = Swaps!EndorsersOf(swap)

\* A number stands for one transaction, which has written nothing before it commits.
NumbersOK ==
  /\ txNumber \in Nat
  /\ touched \in [Swaps!SwapKeys -> 0..txNumber]
  /\ \A t \in endorsedTxs :
       /\ t.tx \in 1..txNumber
       /\ \A u \in endorsedTxs : u.tx = t.tx => u = t
       /\ \A k \in Swaps!SwapKeys : touched[k] # t.tx
       /\ \A u \in endorsedTxs : \A k \in DOMAIN u.seen : u.seen[k] # t.tx
       /\ \A k \in DOMAIN t.seen : t.seen[k] \in 0..txNumber

SwapInv == PoliciesOK /\ NumbersOK /\ \A t \in endorsedTxs : SwapTxOK(t)

LEMMA SwapStarts == Swaps!SwapInit => SwapInv
BY DEF Swaps!SwapInit, SwapInv, PoliciesOK, NumbersOK, Swaps!SwapKeys

LEMMA EndorseKeeps ==
  ASSUME SwapInv, NEW fun, NEW reads \in SUBSET Swaps!SwapKeys, NEW new, Swaps!Endorse(fun, reads, new),
         \A by, tx : SwapTxOK([fun |-> fun, by |-> by, seen |-> [k \in reads |-> touched[k]],
                               new |-> new, tx |-> tx])
  PROVE  SwapInv'
<1>1. PICK t : /\ endorsedTxs' = endorsedTxs \cup {t} /\ txNumber' = txNumber + 1
               /\ UNCHANGED <<swap, swapPolicy, payment, payPolicy, rate, touched>>
               /\ SwapTxOK(t) /\ t.seen = [k \in reads |-> touched[k]] /\ t.tx = txNumber'
  <2>1. PICK by : endorsedTxs' = endorsedTxs \cup
          {[fun |-> fun, by |-> by, seen |-> [k \in reads |-> touched[k]], new |-> new, tx |-> txNumber']}
    BY DEF Swaps!Endorse
  <2> DEFINE t == [fun |-> fun, by |-> by, seen |-> [k \in reads |-> touched[k]], new |-> new,
                   tx |-> txNumber']
  <2>2. SwapTxOK(t)
    OBVIOUS
  <2>3. t.seen = [k \in reads |-> touched[k]] /\ t.tx = txNumber'
    OBVIOUS
  <2>4. endorsedTxs' = endorsedTxs \cup {t}
    BY <2>1
  <2> HIDE DEF t
  <2>5. UNCHANGED <<swap, swapPolicy, payment, payPolicy, rate, touched>> /\ txNumber' = txNumber + 1
    BY DEF Swaps!Endorse
  <2> QED BY <2>2, <2>3, <2>4, <2>5
<1>2. PoliciesOK'
  BY <1>1 DEF SwapInv, PoliciesOK, Swaps!EndorsersOf
<1>3. \A u \in endorsedTxs' : SwapTxOK(u)'
  BY <1>1 DEF SwapInv, SwapTxOK, SeenHolds, Swaps!Due
<1>4. NumbersOK'
  <2>1. txNumber \in Nat /\ txNumber' = txNumber + 1 /\ touched' = touched
        /\ touched \in [Swaps!SwapKeys -> 0..txNumber]
    BY <1>1 DEF SwapInv, NumbersOK
  <2>2. \A k \in DOMAIN t.seen : k \in Swaps!SwapKeys /\ t.seen[k] = touched[k] /\ t.seen[k] \in 0..txNumber
    BY <1>1, <2>1
  <2>3. \A u \in endorsedTxs : /\ u.tx \in 1..txNumber
                               /\ \A k \in Swaps!SwapKeys : touched[k] # u.tx
                               /\ \A v \in endorsedTxs : \A k \in DOMAIN v.seen : v.seen[k] # u.tx
                               /\ \A k \in DOMAIN u.seen : u.seen[k] \in 0..txNumber
    BY DEF SwapInv, NumbersOK
  <2>4. ASSUME NEW u \in endorsedTxs' PROVE
          /\ u.tx \in 1..txNumber'
          /\ \A k \in Swaps!SwapKeys : touched[k] # u.tx
          /\ \A k \in DOMAIN u.seen : u.seen[k] \in 0..txNumber
    BY <1>1, <2>1, <2>2, <2>3
  <2>5. ASSUME NEW u \in endorsedTxs', NEW v \in endorsedTxs', NEW k \in DOMAIN v.seen
        PROVE  v.seen[k] # u.tx
    <3>1. CASE u = t
      BY <1>1, <2>1, <2>4, <3>1
    <3>2. CASE u # t
      BY <1>1, <2>2, <2>3, <3>2
    <3> QED BY <3>1, <3>2
  <2>6. ASSUME NEW u \in endorsedTxs', NEW v \in endorsedTxs', u.tx = v.tx PROVE u = v
    <3>1. \A x, y \in endorsedTxs : x.tx = y.tx => x = y
      BY DEF SwapInv, NumbersOK
    <3> QED BY <1>1, <2>1, <2>3, <2>6, <3>1
  <2> QED BY <2>1, <2>4, <2>5, <2>6 DEF NumbersOK
<1> QED BY <1>2, <1>3, <1>4 DEF SwapInv

\* An endorsement is of a transaction as SwapInv has them.
LEMMA EndorsementsKeep ==
  ASSUME SwapInv,
         \/ \E S \in {T \in SUBSET Parties : Cardinality(T) = 2}, p \in Principals : Swaps!createSwap(S, p)
         \/ Swaps!calculatePayment
         \/ Swaps!settlePayment
         \/ \E r \in Rates : Swaps!setReferenceRate(r)
  PROVE  SwapInv'
<1>1. ASSUME NEW S, Cardinality(S) = 2, NEW p, Swaps!createSwap(S, p) PROVE SwapInv'
  <2>1. S # {}
    BY <1>1, FS_EmptySet
  <2> QED BY <1>1, <2>1, EndorseKeeps DEF Swaps!createSwap, SwapTxOK, Swaps!SwapKeys
<1>2. CASE Swaps!calculatePayment
  BY <1>2, EndorseKeeps DEF Swaps!calculatePayment, SwapTxOK
<1>3. CASE Swaps!settlePayment
  BY <1>3, EndorseKeeps DEF Swaps!settlePayment, SwapTxOK, Swaps!SwapKeys
<1>4. ASSUME NEW r, Swaps!setReferenceRate(r) PROVE SwapInv'
  BY <1>4, EndorseKeeps DEF Swaps!setReferenceRate, SwapTxOK, Swaps!SwapKeys
<1> QED BY <1>1, <1>2, <1>3, <1>4

LEMMA CommitSwapKeeps ==
  ASSUME SwapInv, NEW t \in endorsedTxs, Swaps!CommitSwapTx(t)
  PROVE  SwapInv'
<1>1. endorsedTxs' = endorsedTxs \ {t} /\ txNumber' = txNumber /\ SwapTxOK(t)
  BY DEF Swaps!CommitSwapTx, SwapInv
<1>2. PICK keys \in SUBSET Swaps!SwapKeys :
        /\ touched' = [k \in Swaps!SwapKeys |-> IF k \in keys THEN t.tx ELSE touched[k]]
        /\ "swap" \notin keys => swap' = swap
        /\ "payment" \notin keys => payment' = payment
        /\ "rate" \notin keys => rate' = rate
  <2>1. CASE ~Swaps!SwapTxValid(t)
    <3>1. touched' = [k \in Swaps!SwapKeys |-> IF k \in {} THEN t.tx ELSE touched[k]]
      BY <2>1 DEF Swaps!CommitSwapTx, SwapInv, NumbersOK
    <3>2. {} \in SUBSET Swaps!SwapKeys /\ UNCHANGED <<swap, payment, rate>>
      BY <2>1 DEF Swaps!CommitSwapTx
    <3> QED BY <3>1, <3>2
  <2>2. CASE Swaps!SwapTxValid(t)
    BY <2>2, <1>1 DEF Swaps!CommitSwapTx, Swaps!Touch, SwapTxOK, Swaps!SwapKeys
  <2> QED BY <2>1, <2>2
<1>3. NumbersOK'
  <2>1. /\ txNumber \in Nat /\ touched \in [Swaps!SwapKeys -> 0..txNumber]
        /\ t.tx \in 1..txNumber /\ \A k \in Swaps!SwapKeys : touched'[k] \in {t.tx, touched[k]}
    BY <1>2 DEF SwapInv, NumbersOK
  <2>2. touched' \in [Swaps!SwapKeys -> 0..txNumber]
    BY <1>2, <2>1
  <2>3. ASSUME NEW u \in endorsedTxs'
        PROVE  /\ u.tx \in 1..txNumber
               /\ \A k \in Swaps!SwapKeys : touched[k] # u.tx
               /\ \A v \in endorsedTxs' : \A k \in DOMAIN v.seen : v.seen[k] # u.tx
               /\ \A k \in DOMAIN u.seen : u.seen[k] \in 0..txNumber
               /\ t.tx # u.tx
               /\ \A v \in endorsedTxs' : v.tx = u.tx => v = u
    BY <1>1 DEF SwapInv, NumbersOK
  <2> QED BY <1>1, <2>1, <2>2, <2>3 DEF NumbersOK
<1>4. PoliciesOK'
  <2>1. CASE Swaps!SwapTxValid(t) /\ t.fun = "createSwap"
    BY <1>1, <2>1 DEF Swaps!CommitSwapTx, Swaps!PutSwap, PoliciesOK, Swaps!EndorsersOf, SwapTxOK
  <2>2. CASE ~(Swaps!SwapTxValid(t) /\ t.fun = "createSwap")
    <3>1. UNCHANGED <<swap, swapPolicy, payPolicy>>
      BY <2>2 DEF Swaps!CommitSwapTx
    <3> QED BY <3>1 DEF SwapInv, PoliciesOK, Swaps!EndorsersOf
  <2> QED BY <2>1, <2>2
<1>5. ASSUME NEW u \in endorsedTxs' PROVE SwapTxOK(u)'
  <2>1. SwapTxOK(u) /\ u \in endorsedTxs /\ \A k \in DOMAIN u.seen : u.seen[k] # t.tx
    BY <1>1 DEF SwapInv, NumbersOK
  <2>2. ASSUME u.fun = "calculatePayment", SeenHolds(u)'
        PROVE  payment' = Swaps!None /\ u.new = {Swaps!Due(swap, rate)}'
    <3>1. DOMAIN u.seen = Swaps!SwapKeys /\ Swaps!SwapKeys = {"swap", "payment", "rate"}
      BY <2>1, <2>2 DEF SwapTxOK, Swaps!SwapKeys
    <3>2. keys = {}
      BY <1>2, <2>1, <2>2, <3>1 DEF SeenHolds
    <3>3. UNCHANGED <<swap, payment, rate>> /\ SeenHolds(u)
      BY <1>2, <2>2, <3>1, <3>2 DEF SeenHolds
    <3> QED BY <2>1, <2>2, <3>3 DEF SwapTxOK, Swaps!Due
  <2> QED BY <2>1, <2>2 DEF SwapTxOK
<1> QED BY <1>3, <1>4, <1>5 DEF SwapInv

LEMMA SwapCount == \A S : Swaps!Cardinality(S) = Cardinality(S)
BY DEF Swaps!Cardinality, Cardinality

LEMMA SwapStep == SwapInv /\ [Swaps!SwapNext]_(Swaps!swapVars) => SwapInv'
<1> SUFFICES ASSUME SwapInv, [Swaps!SwapNext]_(Swaps!swapVars) PROVE SwapInv'
  OBVIOUS
<1>1. CASE Swaps!SwapNext
  BY <1>1, EndorsementsKeep, CommitSwapKeeps, SwapCount DEF Swaps!SwapNext
<1>2. CASE UNCHANGED Swaps!swapVars
  BY <1>2 DEF Swaps!swapVars, SwapInv, PoliciesOK, NumbersOK, SwapTxOK, SeenHolds, Swaps!EndorsersOf,
              Swaps!Due
<1> QED BY <1>1, <1>2

LEMMA ConsentStep == SwapInv /\ [Swaps!SwapNext]_(Swaps!swapVars) => Swaps!PartiesConsent
<1> SUFFICES ASSUME SwapInv, [Swaps!SwapNext]_(Swaps!swapVars), NEW t \in endorsedTxs \ endorsedTxs'
             PROVE  /\ swap # Nothing /\ (swap' # swap \/ payment' # payment)
                         => Swaps!EndorsersOf(swap) \subseteq t.by
                    /\ payment' # payment /\ payment' # Swaps!None
                         => payment = Swaps!None /\ payment' = {Swaps!Due(swap, rate)}
  BY DEF Swaps!PartiesConsent
<1>1. Swaps!CommitSwapTx(t)
  <2>1. Swaps!SwapNext
    BY DEF Swaps!swapVars
  <2>2. ~(endorsedTxs \subseteq endorsedTxs')
    OBVIOUS
  <2>3. PICK u \in endorsedTxs : Swaps!CommitSwapTx(u)
    BY <2>1, <2>2 DEF Swaps!SwapNext, Swaps!createSwap, Swaps!calculatePayment, Swaps!settlePayment,
                      Swaps!setReferenceRate, Swaps!Endorse
  <2> QED BY <2>3 DEF Swaps!CommitSwapTx
<1>2. SwapTxOK(t) /\ PoliciesOK
  BY DEF SwapInv
<1>3. CASE ~Swaps!SwapTxValid(t) \/ t.fun = "setReferenceRate"
  BY <1>1, <1>3 DEF Swaps!CommitSwapTx
<1>4. CASE Swaps!SwapTxValid(t) /\ t.fun = "createSwap"
  BY <1>1, <1>2, <1>4 DEF Swaps!CommitSwapTx, Swaps!PutSwap, Swaps!SwapTxValid, Swaps!Meets, PoliciesOK
<1>5. CASE Swaps!SwapTxValid(t) /\ t.fun = "settlePayment"
  BY <1>1, <1>2, <1>5 DEF Swaps!CommitSwapTx, Swaps!SwapTxValid, Swaps!Meets, PoliciesOK, SwapTxOK
<1>6. CASE Swaps!SwapTxValid(t) /\ t.fun = "calculatePayment"
  <2>1. SeenHolds(t) /\ payment' = t.new /\ swap' = swap
    BY <1>1, <1>6 DEF Swaps!CommitSwapTx, Swaps!SwapTxValid, SeenHolds
  <2> QED BY <1>2, <1>6, <2>1 DEF Swaps!SwapTxValid, Swaps!Meets, PoliciesOK, SwapTxOK
<1> QED BY <1>2, <1>3, <1>4, <1>5, <1>6 DEF SwapTxOK

\* Nothing happens to a swap or its payment without its parties, and its auditor
\* when it has one; what becomes due is due under the terms and the rate of then
\* (chaincode.go:130-269), for any organizations, terms, rates and transactions.
THEOREM SwapsNeedConsent == SwapSpec => [][Swaps!PartiesConsent]_(Swaps!swapVars)
BY SwapStarts, SwapStep, ConsentStep, PTL DEF SwapSpec

-----------------------------------------------------------------------------
(* asset-transfer-private-data: when the asset passes on.                     *)

PrivateSpec == Private!ItemInit /\ [][Private!ItemNext]_(Private!itemVars)

\* The client the asset would pass to has agreed.
AgreedTo == agreement # Nothing => agreement \in consent

LEMMA AgreedStep == AgreedTo /\ [Private!ItemNext]_(Private!itemVars) => AgreedTo'
BY DEF AgreedTo, Private!ItemNext, Private!itemVars, Private!CreateAsset, Private!AgreeToTransfer,
   Private!TransferAsset, Private!DeleteAsset, Private!DeleteTranferAgreement, Private!Expire,
   Private!DeleteAgreement

LEMMA TransferStep ==
  AgreedTo /\ [Private!ItemNext]_(Private!itemVars) => Private!OneTransferPerAgreement
BY DEF AgreedTo, Private!ItemNext, Private!itemVars, Private!CreateAsset, Private!AgreeToTransfer,
   Private!TransferAsset, Private!DeleteAsset, Private!DeleteTranferAgreement, Private!Expire,
   Private!OneTransferPerAgreement

\* The asset passes only to a client that agreed to buy it, once for each time it
\* agreed and not after it withdrew (asset_transfer.go:252-350), for any clients,
\* organizations and values.
THEOREM AgreementsAreUsedOnce == PrivateSpec => [][Private!OneTransferPerAgreement]_(Private!itemVars)
<1>1. Private!ItemInit => AgreedTo
  BY DEF Private!ItemInit, AgreedTo
<1> QED BY <1>1, AgreedStep, TransferStep, PTL DEF PrivateSpec

-----------------------------------------------------------------------------
(* auction-simple: bids of which only their organization knows the price.     *)

SimpleSpec == Simple!SaleInit /\ [][Simple!SaleNext]_(Simple!saleVars)

\* Prices have a bound, so that there is a highest.
BidsOK ==
  /\ saleBids \in Seq([org : {MSP(c) : c \in Clients}, price : SalePrices, bidder : Clients])
  /\ \E top \in Nat : \A b \in DOMAIN saleBids : saleBids[b].price \in Int /\ saleBids[b].price <= top

\* Whoever has submitted a bid has to endorse the end.
SubmittedOK ==
  sale # Nothing =>
    /\ DOMAIN sale = {"seller", "orgs", "privateBids", "revealedBids", "winner", "price", "status"}
    /\ sale.revealedBids \subseteq sale.privateBids /\ sale.privateBids \subseteq DOMAIN saleBids
    /\ sale.orgs \subseteq salePolicy
    /\ \A b \in sale.privateBids : saleBids[b].org \in salePolicy

SaleInv == BidsOK /\ SubmittedOK /\ Simple!HighestBidWins

LEMMA SaleStarts == Simple!SaleInit => SaleInv
BY DEF Simple!SaleInit, SaleInv, BidsOK, SubmittedOK, Simple!HighestBidWins

\* There is a price as EndAuction looks for it.
LEMMA PriceIs ==
  ASSUME SaleInv, sale # Nothing
  PROVE  /\ Simple!Price \in {saleBids[b].price : b \in sale.revealedBids} \cup {0}
         /\ \A b \in sale.revealedBids : saleBids[b].price <= Simple!Price
<1> DEFINE above(p) == \A b \in sale.revealedBids : saleBids[b].price <= p
           U == {p \in Nat : above(p)}
           prices == {saleBids[b].price : b \in sale.revealedBids}
<1>1. PICK top \in Nat : \A b \in DOMAIN saleBids : saleBids[b].price \in Int /\ saleBids[b].price <= top
  BY DEF SaleInv, BidsOK
<1>2. \A b \in sale.revealedBids : saleBids[b].price \in Int /\ saleBids[b].price <= top
  BY <1>1 DEF SaleInv, SubmittedOK
<1>3. top \in U
  BY <1>2
<1>4. PICK u \in U : \A p \in U : u =< p
  <2>1. U \in SUBSET Nat
    OBVIOUS
  <2> HIDE DEF U
  <2> QED BY <1>3, <2>1, LeastOf
<1>5. u \in prices \cup {0}
  <2>1. SUFFICES ASSUME u \notin prices, u # 0 PROVE FALSE
    OBVIOUS
  <2>2. u - 1 \in Nat /\ u \in Nat
    BY <1>4, <2>1
  <2>3. above(u - 1)
    BY <1>2, <1>4, <2>1, <2>2
  <2> QED BY <1>4, <2>2, <2>3
<1>6. u >= 0 /\ above(u)
  BY <1>4
<1> QED BY <1>5, <1>6 DEF Simple!Price

\* A new auction has no bids, whatever was under its key.
LEMMA SaleCreated ==
  ASSUME SaleInv, NEW c \in Clients, Simple!CreateAuction(c) PROVE SaleInv'
<1>1. /\ DOMAIN sale' = {"seller", "orgs", "privateBids", "revealedBids", "winner", "price", "status"}
      /\ sale'.revealedBids = {} /\ sale'.privateBids = {} /\ sale'.orgs = {MSP(c)}
      /\ sale'.status = "open" /\ salePolicy' = {MSP(c)} /\ saleBids' = saleBids
  BY DEF Simple!CreateAuction
<1>2. BidsOK'
  BY <1>1 DEF SaleInv, BidsOK
<1>3. SubmittedOK'
  BY <1>1 DEF SubmittedOK
<1>4. Simple!HighestBidWins'
  BY <1>1 DEF Simple!HighestBidWins
<1> QED BY <1>2, <1>3, <1>4 DEF SaleInv

LEMMA SaleCloses ==
  ASSUME SaleInv, NEW c \in Clients, Simple!CloseAuction(c) PROVE SaleInv'
<1>1. /\ DOMAIN sale' = DOMAIN sale /\ sale # Nothing
      /\ sale'.revealedBids = sale.revealedBids /\ sale'.privateBids = sale.privateBids
      /\ sale'.orgs = sale.orgs
      /\ sale'.status = "closed" /\ salePolicy' = salePolicy /\ saleBids' = saleBids
  BY DEF Simple!CloseAuction, SaleInv, SubmittedOK
<1>2. BidsOK'
  BY <1>1 DEF SaleInv, BidsOK
<1>3. SubmittedOK'
  BY <1>1 DEF SaleInv, SubmittedOK
<1>4. Simple!HighestBidWins'
  BY <1>1 DEF Simple!HighestBidWins
<1> QED BY <1>2, <1>3, <1>4 DEF SaleInv

\* A bid is added after the others: none changes, and the highest price may rise.
LEMMA SaleBidPut ==
  ASSUME SaleInv, SalePrices \subseteq Int,
         NEW c \in Clients, NEW p \in SalePrices, NEW w \in Clients, Simple!Bid(c, p, w)
  PROVE  SaleInv'
<1> DEFINE added == [org |-> MSP(c), price |-> p, bidder |-> w]
           Bids == [org : {MSP(k) : k \in Clients}, price : SalePrices, bidder : Clients]
<1>1. added \in Bids /\ added.price = p
  OBVIOUS
<1>2. saleBids' = Append(saleBids, added) /\ sale' = sale /\ salePolicy' = salePolicy
  BY DEF Simple!Bid
<1>3. saleBids \in Seq(Bids)
  BY DEF SaleInv, BidsOK
<1> HIDE DEF added, Bids
<1>4. /\ saleBids' \in Seq(Bids) /\ DOMAIN saleBids' = DOMAIN saleBids \cup {Len(saleBids) + 1}
      /\ \A b \in DOMAIN saleBids : saleBids'[b] = saleBids[b]
      /\ saleBids'[Len(saleBids) + 1] = added
  BY <1>1, <1>2, <1>3
<1>5. BidsOK'
  <2>1. PICK top \in Nat : \A b \in DOMAIN saleBids : saleBids[b].price \in Int /\ saleBids[b].price <= top
    BY DEF SaleInv, BidsOK
  <2>p. p \in Int
    OBVIOUS
  <2>2. PICK high \in Nat : high >= top /\ high >= p
    BY <2>1, <2>p
  <2>3. ASSUME NEW b \in DOMAIN saleBids' PROVE saleBids'[b].price \in Int /\ saleBids'[b].price <= high
    <3>1. CASE b \in DOMAIN saleBids
      <4>1. saleBids'[b] = saleBids[b] /\ saleBids[b].price \in Int /\ saleBids[b].price <= top
        BY <1>4, <2>1, <3>1
      <4> QED BY <4>1, <2>1, <2>2
    <3>2. CASE b = Len(saleBids) + 1
      BY <1>1, <1>4, <3>2, <2>2, <2>p
    <3> QED BY <1>4, <2>3, <3>1, <3>2
  <2>4. \E n \in Nat : \A b \in DOMAIN saleBids' : saleBids'[b].price \in Int /\ saleBids'[b].price <= n
    BY <2>3
  <2>5. saleBids' \in Seq([org : {MSP(k) : k \in Clients}, price : SalePrices, bidder : Clients])
    BY <1>4 DEF Bids
  <2> QED BY <2>4, <2>5 DEF BidsOK
<1>6. SubmittedOK'
  BY <1>2, <1>4 DEF SaleInv, SubmittedOK
<1>7. Simple!HighestBidWins'
  BY <1>2, <1>4 DEF SaleInv, SubmittedOK, Simple!HighestBidWins
<1> QED BY <1>5, <1>6, <1>7 DEF SaleInv

\* The organization of a submitted bid is one of the auction's, and so of its policy.
LEMMA SaleBidSubmitted ==
  ASSUME SaleInv, NEW c \in Clients, NEW b \in DOMAIN saleBids, Simple!SubmitBid(c, b)
  PROVE  SaleInv'
<1>1. /\ DOMAIN sale' = DOMAIN sale /\ sale # Nothing
      /\ sale'.revealedBids = sale.revealedBids /\ sale'.privateBids = sale.privateBids \cup {b}
      /\ sale'.orgs = sale.orgs \cup {MSP(c)}
      /\ sale'.status = "open" /\ saleBids' = saleBids
  BY DEF Simple!SubmitBid, SaleInv, SubmittedOK
<1>2. saleBids[b].org = MSP(c)
  BY DEF Simple!SubmitBid
<1>3. salePolicy' = salePolicy \cup {MSP(c)}
  BY DEF Simple!SubmitBid, Simple!addAssetStateBasedEndorsement, SaleInv, SubmittedOK
<1>4. BidsOK'
  BY <1>1 DEF SaleInv, BidsOK
<1>5. SubmittedOK'
  BY <1>1, <1>2, <1>3 DEF SaleInv, SubmittedOK
<1>6. Simple!HighestBidWins'
  BY <1>1 DEF Simple!HighestBidWins
<1> QED BY <1>4, <1>5, <1>6 DEF SaleInv

LEMMA SaleBidRevealed ==
  ASSUME SaleInv, NEW c \in Clients, NEW b \in DOMAIN saleBids, Simple!RevealBid(c, b)
  PROVE  SaleInv'
<1>1. /\ DOMAIN sale' = DOMAIN sale /\ sale # Nothing
      /\ sale'.revealedBids = sale.revealedBids \cup {b} /\ b \in sale.privateBids
      /\ sale'.privateBids = sale.privateBids /\ sale'.orgs = sale.orgs
      /\ sale'.status = "closed" /\ saleBids' = saleBids /\ salePolicy' = salePolicy
  BY DEF Simple!RevealBid, SaleInv, SubmittedOK
<1>2. BidsOK'
  BY <1>1 DEF SaleInv, BidsOK
<1>3. SubmittedOK'
  BY <1>1 DEF SaleInv, SubmittedOK
<1>4. Simple!HighestBidWins'
  BY <1>1 DEF Simple!HighestBidWins
<1> QED BY <1>2, <1>3, <1>4 DEF SaleInv

\* A bid that is not revealed is in the collection of one of the organizations
\* that endorse, and it compares the bid with the price.
LEMMA SaleEnds ==
  ASSUME SaleInv, NEW c \in Clients, Simple!EndAuction(c) PROVE SaleInv'
<1> DEFINE price == Simple!Price
<1>1. PICK w \in Simple!Winners :
        sale' = [sale EXCEPT !.winner = w, !.price = price, !.status = "ended"]
  BY DEF Simple!EndAuction
<1>2. sale # Nothing /\ saleBids' = saleBids /\ salePolicy' = salePolicy
  BY DEF Simple!EndAuction
<1>3. \A b \in sale.revealedBids : saleBids[b].price <= price
  BY <1>2, PriceIs
<1>4. \A b \in sale.privateBids : saleBids[b].price <= price
  BY <1>2, <1>3 DEF Simple!EndAuction, Simple!checkForHigherBid, SaleInv, SubmittedOK
<1>5. w # Nothing => \E b \in sale.revealedBids : saleBids[b].bidder = w /\ saleBids[b].price = price
  <2>1. CASE price = 0
    BY <1>1, <2>1 DEF Simple!Winners
  <2>2. CASE price # 0
    BY <1>1, <2>2 DEF Simple!Winners
  <2> QED BY <2>1, <2>2
<1> HIDE DEF price
<1>6. /\ DOMAIN sale' = DOMAIN sale
      /\ sale'.revealedBids = sale.revealedBids /\ sale'.privateBids = sale.privateBids
      /\ sale'.orgs = sale.orgs /\ sale'.price = price /\ sale'.winner = w
  BY <1>1, <1>2 DEF SaleInv, SubmittedOK
<1>7. BidsOK'
  BY <1>2 DEF SaleInv, BidsOK
<1>8. SubmittedOK'
  BY <1>2, <1>6 DEF SaleInv, SubmittedOK
<1>9. Simple!HighestBidWins'
  BY <1>2, <1>4, <1>5, <1>6 DEF Simple!HighestBidWins
<1> QED BY <1>7, <1>8, <1>9 DEF SaleInv

(* An auction that has ended was won by a highest of all the bids submitted   *)
(* to it, revealed or not, for any organizations and any bids.                *)
THEOREM HighestBidsWin ==
  ASSUME SalePrices \subseteq Int PROVE SimpleSpec => []Simple!HighestBidWins
<1>1. ASSUME SaleInv, [Simple!SaleNext]_(Simple!saleVars) PROVE SaleInv'
  <2>1. CASE UNCHANGED Simple!saleVars
    BY <1>1, <2>1 DEF Simple!saleVars, SaleInv, BidsOK, SubmittedOK, Simple!HighestBidWins
  <2>2. CASE Simple!SaleNext
    BY <1>1, <2>2, SaleCreated, SaleCloses, SaleBidPut, SaleBidSubmitted, SaleBidRevealed, SaleEnds
       DEF Simple!SaleNext
  <2> QED BY <1>1, <2>1, <2>2
<1>2. SaleInv => Simple!HighestBidWins
  BY DEF SaleInv
<1> QED BY <1>1, <1>2, SaleStarts, PTL DEF SimpleSpec

-----------------------------------------------------------------------------
(* high-throughput: rows of a variable that is updated by adding rows.        *)

DeltaSpec == Delta!DeltaInit /\ [][Delta!DeltaNext]_(Delta!deltaVars)

LEMMA RowSum == \A S : Delta!Sum(S) = Total([r \in S |-> Delta!Signed(r)], S)
BY DEF Delta!Sum, Delta!FoldFunctionOnSet, Delta!MapThenFoldSet, Total, MapThenSumSet, MapThenFoldSet

\* A finite set of rows with values.
RowsOK(S) == IsFiniteSet(S) /\ \A r \in S : Delta!Signed(r) \in Int

LEMMA RowSumFacts ==
  ASSUME NEW S, RowsOK(S)
  PROVE  /\ Delta!Sum(S) \in Int
         /\ Delta!Sum({}) = 0
         /\ \A R \in SUBSET S : RowsOK(R) /\ Delta!Sum(S) = Delta!Sum(R) + Delta!Sum(S \ R)
         /\ \A r \in S : Delta!Sum({r}) = Delta!Signed(r)
<1> DEFINE f(T) == [r \in T |-> Delta!Signed(r)]
<1>1. \A T \in SUBSET S : /\ Numbered(f(S), T) /\ Numbered(f(T), T) /\ RowsOK(T)
                          /\ Delta!Sum(T) = Total(f(S), T)
  <2> SUFFICES ASSUME NEW T \in SUBSET S
               PROVE  /\ Numbered(f(S), T) /\ Numbered(f(T), T) /\ RowsOK(T)
                      /\ Delta!Sum(T) = Total(f(S), T)
    OBVIOUS
  <2>1. IsFiniteSet(T)
    BY FS_Subset DEF RowsOK
  <2>2. Numbered(f(S), T) /\ Numbered(f(T), T) /\ RowsOK(T) /\ \A x \in T : f(S)[x] = f(T)[x]
    BY <2>1 DEF RowsOK, Numbered
  <2>3. Delta!Sum(T) = Total(f(T), T)
    BY RowSum
  <2> HIDE DEF f
  <2> QED BY <2>2, <2>3, NumberSame
<1>2. \A r \in S : f(S)[r] = Delta!Signed(r) /\ Delta!Signed(r) \in Int
  BY DEF RowsOK
<1> HIDE DEF f
<1>3. S \in SUBSET S /\ {} \in SUBSET S
  OBVIOUS
<1>4. Delta!Sum(S) \in Int
  BY <1>1, <1>3, NumberFacts
<1>5. Delta!Sum({}) = 0
  BY <1>1, <1>3, NumberFacts
<1>6. ASSUME NEW R \in SUBSET S
      PROVE  RowsOK(R) /\ Delta!Sum(S) = Delta!Sum(R) + Delta!Sum(S \ R)
  <2>1. Total(f(S), S) = Total(f(S), R) + Total(f(S), S \ R)
    BY <1>1, <1>3, NumberSplits
  <2>2. S \ R \in SUBSET S
    OBVIOUS
  <2> QED BY <1>1, <1>3, <2>1, <2>2
<1>7. ASSUME NEW r \in S PROVE Delta!Sum({r}) = Delta!Signed(r)
  <2>1. {r} \in SUBSET S /\ Total(f(S), {r}) = f(S)[r]
    BY <1>2, NumberOfOne
  <2> QED BY <1>1, <1>2, <2>1
<1> QED BY <1>4, <1>5, <1>6, <1>7

\* What a transaction under way takes away and adds.
Replaces(t) ==
  /\ \A r \in t.adds : r.tx = t.tx
  /\ CASE t.kind = "update" -> \E r : t.adds = {r} /\ t.deletes = {} /\ Delta!Signed(r) \in Int
       [] t.kind = "prune"  -> \E r : /\ t.adds = {r} /\ t.deletes = t.range
                                      /\ Delta!Signed(r) = Delta!Sum(t.range)
       [] OTHER -> t.kind = "delete" /\ t.adds = {} /\ t.deletes = t.range

\* Rows carry the number of their transaction, so no two write the same row.
DeltaInv ==
  /\ txCount \in Nat
  /\ RowsOK(rows) /\ \A r \in rows : r.tx \in Nat /\ r.tx < txCount
  /\ \A t \in endorsed : t.tx \in Nat /\ t.tx < txCount /\ Replaces(t) /\ \A r \in rows : r.tx # t.tx
  /\ \A t, u \in endorsed : t.tx = u.tx => t = u
  /\ Delta!ValueIsSumOfUpdates

LEMMA DeltaStarts == Delta!DeltaInit => DeltaInv
<1>1. RowsOK({})
  BY FS_EmptySet DEF RowsOK
<1> QED BY <1>1, RowSumFacts DEF Delta!DeltaInit, DeltaInv, Delta!ValueIsSumOfUpdates, Delta!get

LEMMA DeltaEndorsed ==
  ASSUME DeltaInv, NEW kind, NEW range, NEW deletes, NEW adds, Delta!Endorse(kind, range, deletes, adds),
         Replaces([kind |-> kind, tx |-> txCount, range |-> range, deletes |-> deletes, adds |-> adds])
  PROVE  DeltaInv'
<1> DEFINE t == [kind |-> kind, tx |-> txCount, range |-> range, deletes |-> deletes, adds |-> adds]
<1>1. /\ endorsed' = endorsed \cup {t} /\ t.tx = txCount /\ Replaces(t)
      /\ txCount' = txCount + 1 /\ rows' = rows /\ net' = net
  BY DEF Delta!Endorse
<1> HIDE DEF t
<1>2. txCount \in Nat /\ txCount' \in Nat /\ txCount < txCount'
  BY <1>1 DEF DeltaInv
<1>3. RowsOK(rows') /\ \A r \in rows' : r.tx \in Nat /\ r.tx < txCount /\ r.tx < txCount' /\ r.tx # t.tx
  BY <1>1, <1>2 DEF DeltaInv
<1>4. \A u \in endorsed : /\ u.tx \in Nat /\ u.tx < txCount /\ u.tx < txCount' /\ u.tx # t.tx
                          /\ Replaces(u) /\ \A r \in rows' : r.tx # u.tx
  BY <1>1, <1>2 DEF DeltaInv
<1>5. \A u, v \in endorsed' : u.tx = v.tx => u = v
  BY <1>1, <1>4 DEF DeltaInv
<1>6. Delta!ValueIsSumOfUpdates'
  BY <1>1 DEF DeltaInv, Delta!ValueIsSumOfUpdates
<1> QED BY <1>1, <1>2, <1>3, <1>4, <1>5, <1>6 DEF DeltaInv

LEMMA DeltaCalled ==
  ASSUME DeltaInv,
         \/ \E v \in Deltas, op \in {"+", "-"} : Delta!update(v, op)
         \/ Delta!prune
         \/ Delta!delete
  PROVE  DeltaInv'
<1>1. ASSUME NEW v \in Deltas, NEW op \in {"+", "-"}, Delta!update(v, op) PROVE DeltaInv'
  <2>1. v \in Int
    BY SamplesAssumption
  <2>2. Delta!Signed(Delta!Row(op, v)) \in Int /\ Delta!Row(op, v).tx = txCount
    BY <2>1 DEF Delta!Signed, Delta!Row
  <2> QED BY <1>1, <2>2, DeltaEndorsed DEF Delta!update, Replaces
<1>2. CASE Delta!prune
  <2> DEFINE r == Delta!Row("+", Delta!get(rows))
  <2>1. r.tx = txCount /\ Delta!Signed(r) = Delta!Sum(rows)
    BY DEF Delta!Signed, Delta!Row, Delta!get
  <2> HIDE DEF r
  <2>2. Delta!Endorse("prune", rows, rows, {r})
    BY <1>2 DEF Delta!prune, r
  <2> QED BY <2>1, <2>2, DeltaEndorsed DEF Replaces
<1>3. CASE Delta!delete
  BY <1>3, DeltaEndorsed DEF Delta!delete, Replaces
<1> QED BY <1>1, <1>2, <1>3

LEMMA DeltaCommitted ==
  ASSUME DeltaInv, NEW t \in endorsed, Delta!Commit(t)
  PROVE  DeltaInv'
<1>1. /\ endorsed' = endorsed \ {t} /\ txCount' = txCount /\ Replaces(t) /\ t.tx \in Nat /\ t.tx < txCount
      /\ \A r \in t.adds : r.tx = t.tx
      /\ \A r \in rows : r.tx # t.tx
      /\ \A u \in endorsed' : u.tx # t.tx
  BY DEF Delta!Commit, DeltaInv, Replaces
<1>2. CASE rows' = rows /\ net' = net
  BY <1>1, <1>2 DEF DeltaInv, Delta!ValueIsSumOfUpdates
<1>3. CASE ~(rows' = rows /\ net' = net)
  <2>1. /\ t.kind = "update" \/ t.range = rows
        /\ rows' = (rows \ t.deletes) \cup t.adds
        /\ net' = CASE t.kind = "update" -> net + Delta!Sum(t.adds)
                     [] t.kind = "delete" -> 0
                     [] OTHER -> net
    BY <1>3 DEF Delta!Commit
  <2>2. RowsOK(rows) /\ net = Delta!Sum(rows) /\ net \in Int
    BY RowSumFacts DEF DeltaInv, Delta!ValueIsSumOfUpdates, Delta!get
  <2>3. RowsOK(rows') /\ Delta!Sum(rows') = net'
    <3>1. CASE t.kind = "update"
      <4>1. PICK r : t.adds = {r} /\ t.deletes = {} /\ Delta!Signed(r) \in Int
        BY <1>1, <3>1 DEF Replaces
      <4>2. rows' = rows \cup {r} /\ r \notin rows /\ net' = net + Delta!Sum({r})
        BY <1>1, <2>1, <3>1, <4>1
      <4>3. RowsOK(rows')
        BY <2>2, <4>1, <4>2, FS_AddElement DEF RowsOK
      <4>4. {r} \in SUBSET rows' /\ rows' \ {r} = rows
        BY <4>2
      <4>5. Delta!Sum(rows') = Delta!Sum({r}) + Delta!Sum(rows) /\ Delta!Sum({r}) = Delta!Signed(r)
        BY <4>3, <4>4, RowSumFacts
      <4> QED BY <2>2, <4>1, <4>2, <4>3, <4>5
    <3>2. CASE t.kind = "prune"
      <4>1. PICK r : t.adds = {r} /\ t.deletes = t.range /\ Delta!Signed(r) = Delta!Sum(t.range)
        BY <1>1, <3>2 DEF Replaces
      <4>2. rows' = {r} /\ Delta!Signed(r) = net /\ net' = net
        BY <2>1, <2>2, <3>2, <4>1
      <4>3. RowsOK({r})
        BY <2>2, <4>2, FS_Singleton DEF RowsOK
      <4> QED BY <4>2, <4>3, RowSumFacts
    <3>3. CASE t.kind \notin {"update", "prune"}
      <4>1. t.kind = "delete" /\ rows' = {} /\ net' = 0
        BY <1>1, <2>1, <3>3 DEF Replaces
      <4>2. RowsOK({})
        BY FS_EmptySet DEF RowsOK
      <4> QED BY <4>1, <4>2, RowSumFacts
    <3> QED BY <3>1, <3>2, <3>3
  <2>4. \A r \in rows' : r \in rows \/ r.tx = t.tx
    BY <1>1, <2>1
  <2>5. \A u \in endorsed' : \A r \in rows' : r.tx # u.tx
    BY <1>1, <2>4 DEF DeltaInv
  <2>6. Delta!ValueIsSumOfUpdates'
    BY <2>3 DEF Delta!ValueIsSumOfUpdates, Delta!get
  <2> QED BY <1>1, <2>3, <2>4, <2>5, <2>6 DEF DeltaInv
<1> QED BY <1>2, <1>3

LEMMA DeltaStep == DeltaInv /\ [Delta!DeltaNext]_(Delta!deltaVars) => DeltaInv'
<1>1. DeltaInv /\ Delta!DeltaNext => DeltaInv'
  BY DeltaCalled, DeltaCommitted DEF Delta!DeltaNext
<1>2. DeltaInv /\ UNCHANGED Delta!deltaVars => DeltaInv'
  BY DEF Delta!deltaVars, DeltaInv, Delta!ValueIsSumOfUpdates
<1> QED BY <1>1, <1>2

\* Whatever is endorsed before and committed after a prune, or the other way
\* round, the rows of a variable add up to its updates since it was deleted
\* (high-throughput.go), for any updates and any number of transactions.
THEOREM RowsAddUp == DeltaSpec => []Delta!ValueIsSumOfUpdates
<1>1. DeltaInv => Delta!ValueIsSumOfUpdates
  BY DEF DeltaInv
<1> QED BY <1>1, DeltaStarts, DeltaStep, PTL DEF DeltaSpec

-----------------------------------------------------------------------------
(* token-erc-20: sums of ints that wrap.                                      *)

\* What is left of a division.
LEMMA RemainderFits ==
  ASSUME NEW W \in Nat \ {0}, NEW x \in Int
  PROVE  x % W \in 0..(W-1)
OBVIOUS

LEMMA RemainderOfSmall ==
  ASSUME NEW W \in Nat \ {0}, NEW x \in 0..(W-1)
  PROVE  x % W = x
OBVIOUS

LEMMA Divided ==
  ASSUME NEW W \in Nat \ {0}, NEW x \in Int
  PROVE  x = W * (x \div W) + (x % W) /\ x \div W \in Int
OBVIOUS

LEMMA NoMultipleBetween ==
  ASSUME NEW W \in Nat \ {0}, NEW k \in Int, NEW r \in 0..(W-1), NEW q \in 0..(W-1), W * k + r = q
  PROVE  k = 0
<1>1. CASE k >= 1
  <2>1. W * k >= W
    BY <1>1
  <2> QED BY <2>1
<1>2. CASE k <= -1
  <2>1. W * k <= -W
    BY <1>2
  <2> QED BY <2>1
<1> QED BY <1>1, <1>2

LEMMA RemainderOfSum ==
  ASSUME NEW W \in Nat \ {0}, NEW x \in Int, NEW k \in Int
  PROVE  (x + W * k) % W = x % W
<1> DEFINE y == x + W * k
<1>1. y \in Int /\ x = W * (x \div W) + (x % W) /\ y = W * (y \div W) + (y % W) /\ x \div W \in Int /\ y \div W \in Int
  BY Divided
<1>2. x % W \in 0..(W-1) /\ y % W \in 0..(W-1)
  BY RemainderFits, <1>1
<1>3. PICK a \in Int, b \in Int : a = x \div W /\ b = y \div W
  BY <1>1
<1>4. W * (a + k - b) = W * a + W * k - W * b
  BY <1>3
<1>5. W * (a + k - b) + (x % W) = y % W
  <2> DEFINE p == W * a  q == W * b  r == W * k
  <2>1. p \in Int /\ q \in Int /\ r \in Int 
    BY <1>3
  <2>2. x = p + (x % W) /\ y = q + (y % W) /\ y = x + r
    BY <1>1, <1>3
  <2>3. p + r - q + (x % W) = y % W
    <3> DEFINE s == x % W  t == y % W
    <3>1. s \in Int /\ t \in Int /\ x = p + s /\ y = q + t
      BY <1>2, <2>2
    <3> HIDE DEF p, q, r, y, s, t
    <3>2. p + r - q + s = t
      BY <2>1, <2>2, <3>1
    <3> QED BY <3>2 DEF s, t
  <2> QED BY <2>3, <1>4 DEF p, q, r
<1>6. a + k - b = 0
  <2> DEFINE c == a + k - b
  <2>1. c \in Int
    BY <1>3
  <2>2. W * c + (x % W) = y % W
    BY <1>5
  <2> HIDE DEF c, y
  <2>3. c = 0
    BY <1>2, <2>1, <2>2, NoMultipleBetween
  <2> QED BY <2>3 DEF c
<1>7. W * (a + k - b) = 0
  BY <1>6
<1> HIDE DEF y
<1>8. x % W = y % W
  BY <1>2, <1>5, <1>7
<1> QED BY <1>8 DEF y

\* The ints.
Ints == (-CoinMax - 1)..CoinMax

\* Adding wraps once, whether the terms have wrapped before or not.
LEMMA WrapFacts ==
  ASSUME NEW i \in Int, NEW j \in Int
  PROVE  /\ Coin!Wrapped(i) \in Ints
         /\ i \in Ints => Coin!Wrapped(i) = i
         /\ Coin!Wrapped(Coin!Wrapped(i) + j) = Coin!Wrapped(i + j)
<1> DEFINE W == 2 * CoinMax + 2
           x == i + CoinMax + 1
<1>1. W \in Nat \ {0} /\ x \in Int /\ CoinMax \in Nat
  BY SamplesAssumption
<1>2. \A n \in Int : Coin!Wrapped(n) = ((n + CoinMax + 1) % W) - CoinMax - 1
  BY DEF Coin!Wrapped
<1>3. Coin!Wrapped(i) = (x % W) - CoinMax - 1
  BY <1>2
<1>4. x % W \in 0..(W - 1)
  BY <1>1, RemainderFits
<1>5. W = 2 * CoinMax + 2 /\ x = i + CoinMax + 1
  OBVIOUS
<1> HIDE DEF W, x
<1>6. Coin!Wrapped(i) \in Ints
  BY <1>1, <1>3, <1>4, <1>5 DEF Ints
<1>7. i \in Ints => Coin!Wrapped(i) = i
  <2>1. i \in Ints => x \in 0..(W - 1)
    BY <1>1, <1>5 DEF Ints
  <2>2. i \in Ints => x % W = x
    BY <1>1, <2>1, RemainderOfSmall
  <2> QED BY <1>1, <1>3, <1>5, <2>2
<1>8. Coin!Wrapped(Coin!Wrapped(i) + j) = Coin!Wrapped(i + j)
  <2> DEFINE k == x \div W
             y == i + j + CoinMax + 1
  <2>1. k \in Int /\ x = W * k + (x % W) /\ -k \in Int /\ y \in Int
    BY <1>1, Divided
  <2>2. W * (-k) = -(W * k) /\ W * k \in Int
    BY <1>1, <2>1
  <2>3. y = i + j + CoinMax + 1
    OBVIOUS
  <2> DEFINE p == W * k
             r == x % W
  <2>4. r \in Int /\ p \in Int /\ x = p + r /\ Coin!Wrapped(i) = r - CoinMax - 1 /\ W * (-k) = -p
    BY <1>3, <1>4, <2>1, <2>2
  <2> HIDE DEF k, y, p, r
  <2>5. (Coin!Wrapped(i) + j) + CoinMax + 1 = y + W * (-k)
    BY <1>1, <1>5, <2>3, <2>4
  <2>6. (y + W * (-k)) % W = y % W
    BY <1>1, <2>1, RemainderOfSum
  <2>7. Coin!Wrapped(i) + j \in Int /\ i + j \in Int
    BY <1>1, <1>6 DEF Ints
  <2>8. Coin!Wrapped(Coin!Wrapped(i) + j) = ((y + W * (-k)) % W) - CoinMax - 1
    BY <1>2, <2>5, <2>7
  <2>9. Coin!Wrapped(i + j) = (y % W) - CoinMax - 1
    BY <1>2, <2>3, <2>7
  <2> QED BY <2>6, <2>8, <2>9
<1> QED BY <1>6, <1>7, <1>8

LEMMA NoWrap == ASSUME NEW i \in Ints PROVE Coin!Wrapped(i) = i /\ i \in Int
BY SamplesAssumption, WrapFacts DEF Ints

\* The check of add finds an overflow of ints that are not negative.
LEMMA AddChecked ==
  ASSUME NEW b \in Ints, NEW q \in Ints, q >= 0, ~Coin!AddFails(b, q)
  PROVE  b + q \in Ints
<1>1. CoinMax \in Nat /\ b \in Int /\ q \in Int /\ b + q \in Int
  BY SamplesAssumption DEF Ints
<1>2. CASE b < 0
  BY <1>1, <1>2 DEF Ints
<1>3. CASE b >= 0 /\ b + q > CoinMax
  <2> DEFINE z == b + q - (2 * CoinMax + 2)
  <2>1. z \in Ints /\ z < q /\ z \in Int
    BY <1>1, <1>3 DEF Ints
  <2>2. Coin!Wrapped(z) = z
    BY <2>1, WrapFacts
  <2>3. Coin!Wrapped(b + q) = Coin!Wrapped(z)
    <3>1. ((b + q + CoinMax + 1) + (2 * CoinMax + 2) * (-1)) % (2 * CoinMax + 2)
            = (b + q + CoinMax + 1) % (2 * CoinMax + 2)
      <4>1. 2 * CoinMax + 2 \in Nat \ {0} /\ b + q + CoinMax + 1 \in Int /\ -1 \in Int
        BY <1>1
      <4> QED BY <4>1, RemainderOfSum
    <3>2. (b + q + CoinMax + 1) + (2 * CoinMax + 2) * (-1) = z + CoinMax + 1
      BY <1>1
    <3> QED BY <3>1, <3>2 DEF Coin!Wrapped
  <2>4. Coin!Wrapped(b + q) < q
    BY <2>1, <2>2, <2>3
  <2>5. (Coin!Wrapped(b + q) < q) = (b >= 0 /\ q >= 0)
    BY <1>3, <2>4
  <2> QED BY <2>5 DEF Coin!AddFails
<1>4. CASE b >= 0 /\ b + q <= CoinMax
  BY <1>1, <1>4 DEF Ints
<1> QED BY <1>1, <1>2, <1>3, <1>4

\* The balance that an account without a key has is 0.
CoinSum == Total(balanceOf, DOMAIN balanceOf)

LEMMA CoinSums == \A f : Coin!FoldFunction(+, 0, f) = Total(f, DOMAIN f)
BY DEF Coin!FoldFunction, Coin!FoldFunctionOnSet, Coin!MapThenFoldSet, Total, MapThenSumSet,
       MapThenFoldSet

\* Keys are those of accounts and hold ints.
CoinTypes ==
  /\ balanceOf \in [DOMAIN balanceOf -> Ints]
  /\ DOMAIN balanceOf \subseteq CoinAccounts /\ IsFiniteSet(DOMAIN balanceOf)
  /\ totalSupply \in Ints
  /\ toldBalance \in [CoinAccounts -> Ints]

CoinInv == CoinTypes /\ Coin!SupplyIsBalances

LEMMA CoinFacts ==
  ASSUME CoinInv
  PROVE  /\ CoinMax \in Nat /\ CoinSum \in Int /\ totalSupply = Coin!Wrapped(CoinSum)
         /\ Numbered(balanceOf, DOMAIN balanceOf)
         /\ \A a \in CoinAccounts : Coin!Account(a) \in Ints /\ Coin!Account(a) = toldBalance[a]
<1>1. CoinMax \in Nat /\ 0 \in Ints /\ Ints \subseteq Int
  BY SamplesAssumption DEF Ints
<1>2. Numbered(balanceOf, DOMAIN balanceOf)
  BY <1>1 DEF CoinInv, CoinTypes, Numbered
<1>3. CoinSum \in Int
  BY <1>2, NumberFacts DEF CoinSum
<1>4. \A a \in CoinAccounts : Coin!Account(a) \in Ints
  BY <1>1 DEF CoinInv, CoinTypes, Coin!Account
<1> QED BY <1>1, <1>2, <1>3, <1>4, CoinSums DEF CoinInv, Coin!SupplyIsBalances, CoinSum

\* A step keeps the books when it keeps them for every account and for the sum.
LEMMA CoinBooks ==
  ASSUME CoinTypes', totalSupply' = Coin!Wrapped(CoinSum'),
         \A a \in CoinAccounts : Coin!Account(a)' = toldBalance'[a]
  PROVE  CoinInv'
<1>1. totalSupply' = Coin!Wrapped(Coin!FoldFunction(+, 0, balanceOf))'
  BY DEF CoinSum, Coin!FoldFunction, Coin!FoldFunctionOnSet, Coin!MapThenFoldSet, Total, MapThenSumSet,
         MapThenFoldSet, Coin!Wrapped
<1> QED BY <1>1 DEF CoinInv, Coin!SupplyIsBalances

LEMMA CoinStarts == Coin!CoinInit => CoinInv
<1> SUFFICES ASSUME Coin!CoinInit PROVE CoinInv
  OBVIOUS
<1>1. balanceOf = [a \in {} |-> 0] /\ DOMAIN balanceOf = {} /\ totalSupply = 0
      /\ toldBalance = [a \in CoinAccounts |-> 0]
  BY DEF Coin!CoinInit
<1>2. 0 \in Ints /\ 0 \in Int
  BY SamplesAssumption DEF Ints
<1>3. CoinTypes /\ Numbered(balanceOf, DOMAIN balanceOf)
  BY <1>1, <1>2, FS_EmptySet DEF CoinTypes, Numbered
<1>4. CoinSum = 0
  BY <1>1, <1>3, NumberFacts DEF CoinSum
<1>5. Coin!Wrapped(0) = 0
  BY <1>2, WrapFacts
<1> QED BY <1>1, <1>3, <1>4, <1>5, CoinSums DEF CoinInv, Coin!SupplyIsBalances, Coin!Account, CoinSum

\* One balance changes: the sum follows.
LEMMA PutsOne ==
  ASSUME CoinInv, NEW x \in CoinAccounts, NEW v \in Ints, Coin!PutBalances([a \in {x} |-> v])
  PROVE  /\ balanceOf' \in [DOMAIN balanceOf' -> Ints]
         /\ DOMAIN balanceOf' \subseteq CoinAccounts /\ IsFiniteSet(DOMAIN balanceOf')
         /\ CoinSum' = CoinSum - Coin!Account(x) + v
         /\ \A a \in CoinAccounts : Coin!Account(a)' = IF a = x THEN v ELSE Coin!Account(a)
<1> DEFINE D == DOMAIN balanceOf
<1>1. /\ DOMAIN balanceOf' = D \cup {x} /\ balanceOf'[x] = v
      /\ \A y \in D \ {x} : balanceOf'[y] = balanceOf[y]
      /\ balanceOf' = [a \in D \cup {x} |-> balanceOf'[a]]
  BY DEF Coin!PutBalances
<1>2. balanceOf' \in [DOMAIN balanceOf' -> Ints] /\ DOMAIN balanceOf' \subseteq CoinAccounts
  BY <1>1 DEF CoinInv, CoinTypes
<1>3. IsFiniteSet(DOMAIN balanceOf')
  BY <1>1, FS_AddElement DEF CoinInv, CoinTypes
<1>4. CoinSum' = CoinSum - Coin!Account(x) + v
  <2>1. /\ balanceOf'[x] \in Int /\ Numbered(balanceOf, D)
        /\ \A y \in D \ {x} : balanceOf[y] = balanceOf'[y]
    BY <1>1, SamplesAssumption, CoinFacts DEF Ints
  <2> HIDE DEF D
  <2>2. Total(balanceOf', D \cup {x})
          = Total(balanceOf, D) - (IF x \in D THEN balanceOf[x] ELSE 0) + balanceOf'[x]
    BY <2>1, NumberPut
  <2> QED BY <1>1, <2>2 DEF CoinSum, Coin!Account, D
<1>5. ASSUME NEW a \in CoinAccounts PROVE Coin!Account(a)' = IF a = x THEN v ELSE Coin!Account(a)
  BY <1>1 DEF Coin!Account
<1> QED BY <1>2, <1>3, <1>4, <1>5

\* A balance grows by an amount that fits, and the supply with it.
LEMMA CoinMinted ==
  ASSUME CoinInv, NEW c \in CoinAccounts, NEW v \in CoinValues, Coin!Mint(c, v)
  PROVE  CoinInv'
<1>1. v \in Ints /\ v \in Int /\ v > 0 /\ Coin!Account(c) \in Ints /\ totalSupply \in Ints /\ CoinMax \in Nat
      /\ CoinSum \in Int /\ totalSupply = Coin!Wrapped(CoinSum)
  BY SamplesAssumption, CoinFacts DEF Ints, Coin!Mint, CoinInv, CoinTypes
<1>2. Coin!Account(c) + v \in Ints /\ totalSupply + v \in Ints
  <2>1. ~Coin!AddFails(Coin!Account(c), v) /\ ~Coin!AddFails(totalSupply, v) /\ v >= 0
    BY <1>1 DEF Coin!Mint
  <2> QED BY <1>1, <2>1, AddChecked
<1>3. totalSupply' = totalSupply + v /\ Coin!PutBalances([a \in {c} |-> Coin!Account(c) + v])
  BY DEF Coin!Mint
<1>4. /\ balanceOf' \in [DOMAIN balanceOf' -> Ints]
      /\ DOMAIN balanceOf' \subseteq CoinAccounts /\ IsFiniteSet(DOMAIN balanceOf')
      /\ CoinSum' = CoinSum - Coin!Account(c) + (Coin!Account(c) + v)
      /\ \A a \in CoinAccounts :
           Coin!Account(a)' = IF a = c THEN Coin!Account(c) + v ELSE Coin!Account(a)
  BY <1>2, <1>3, PutsOne
<1>5. totalSupply' = Coin!Wrapped(CoinSum')
  <2>1. CoinSum' = CoinSum + v
    BY <1>1, <1>4 DEF Ints
  <2>2. Coin!Wrapped(Coin!Wrapped(CoinSum) + v) = Coin!Wrapped(CoinSum + v)
    BY <1>1, WrapFacts
  <2>3. Coin!Wrapped(totalSupply + v) = totalSupply + v
    BY <1>2, NoWrap
  <2> QED BY <1>1, <1>3, <2>1, <2>2, <2>3
<1>6. toldBalance' = [a \in CoinAccounts |->
        Coin!Wrapped(toldBalance[a] - 0 + (IF a \in {c} THEN v ELSE 0))]
  BY DEF Coin!Mint, Coin!EmitTransfer
<1>7. ASSUME NEW a \in CoinAccounts
      PROVE  toldBalance'[a] = Coin!Account(a)' /\ toldBalance'[a] \in Ints
  <2>1. Coin!Account(a) \in Ints /\ Coin!Account(a) = toldBalance[a] /\ Coin!Account(a) \in Int
    BY <1>1, CoinFacts DEF Ints
  <2>2. CASE a = c
    <3>1. toldBalance'[a] = Coin!Wrapped(Coin!Account(c) + v)
      BY <1>6, <2>1, <2>2
    <3>2. Coin!Wrapped(Coin!Account(c) + v) = Coin!Account(c) + v
      BY <1>2, NoWrap
    <3> QED BY <1>2, <1>4, <2>2, <3>1, <3>2
  <2>3. CASE a # c
    <3>1. toldBalance'[a] = Coin!Wrapped(Coin!Account(a))
      BY <1>6, <2>1, <2>3
    <3> QED BY <1>4, <2>1, <2>3, <3>1, NoWrap
  <2> QED BY <2>2, <2>3
<1>8. CoinTypes'
  BY <1>2, <1>3, <1>4, <1>6, <1>7 DEF CoinTypes
<1> QED BY <1>5, <1>7, <1>8, CoinBooks

\* The two sums wrap alike, also where sub lets the balance wrap.
LEMMA CoinBurnt ==
  ASSUME CoinInv, NEW c \in CoinAccounts, NEW v \in CoinValues, Coin!Burn(c, v)
  PROVE  CoinInv'
<1> DEFINE left == Coin!Wrapped(Coin!Account(c) - v)
<1>1. v \in Int /\ Coin!Account(c) \in Int /\ CoinSum \in Int /\ totalSupply = Coin!Wrapped(CoinSum)
      /\ totalSupply \in Int
  BY SamplesAssumption, CoinFacts DEF Ints, CoinInv, CoinTypes
<1>2. left \in Ints /\ left \in Int /\ Coin!Wrapped(totalSupply - v) \in Ints
  <2>1. Coin!Account(c) - v \in Int /\ totalSupply - v \in Int /\ 0 \in Int
    BY <1>1
  <2> QED BY <2>1, WrapFacts, NoWrap
<1>3. totalSupply' = Coin!Wrapped(totalSupply - v) /\ Coin!PutBalances([a \in {c} |-> left])
  BY DEF Coin!Burn
<1>4. /\ balanceOf' \in [DOMAIN balanceOf' -> Ints]
      /\ DOMAIN balanceOf' \subseteq CoinAccounts /\ IsFiniteSet(DOMAIN balanceOf')
      /\ CoinSum' = CoinSum - Coin!Account(c) + left
      /\ \A a \in CoinAccounts : Coin!Account(a)' = IF a = c THEN left ELSE Coin!Account(a)
  <2> HIDE DEF left
  <2> QED BY <1>2, <1>3, PutsOne
<1>5. totalSupply' = Coin!Wrapped(CoinSum')
  <2> DEFINE d == Coin!Account(c) - v
             e == CoinSum - Coin!Account(c)
  <2>1. d \in Int /\ e \in Int /\ d + e = CoinSum - v /\ -v \in Int /\ CoinSum + (-v) = CoinSum - v
        /\ totalSupply + (-v) = totalSupply - v
    BY <1>1
  <2>2. Coin!Wrapped(Coin!Wrapped(d) + e) = Coin!Wrapped(d + e)
    <3> HIDE DEF d, e
    <3> QED BY <2>1, WrapFacts
  <2>3. Coin!Wrapped(Coin!Wrapped(CoinSum) + (-v)) = Coin!Wrapped(CoinSum + (-v))
    BY <1>1, <2>1, WrapFacts
  <2>4. CoinSum' = left + e
    <3>1. left \in Int /\ CoinSum' = CoinSum - Coin!Account(c) + left
      BY <1>2, <1>4
    <3> HIDE DEF left
    <3> QED BY <1>1, <3>1
  <2>5. Coin!Wrapped(CoinSum') = Coin!Wrapped(CoinSum - v)
    BY <2>1, <2>2, <2>4
  <2>6. Coin!Wrapped(totalSupply - v) = Coin!Wrapped(CoinSum - v)
    BY <1>1, <2>1, <2>3
  <2> QED BY <1>3, <2>5, <2>6
<1>6. toldBalance' = [a \in CoinAccounts |->
        Coin!Wrapped(toldBalance[a] - (IF a \in {c} THEN v ELSE 0) + 0)]
  BY DEF Coin!Burn, Coin!EmitTransfer
<1>7. ASSUME NEW a \in CoinAccounts
      PROVE  toldBalance'[a] = Coin!Account(a)' /\ toldBalance'[a] \in Ints
  <2>1. Coin!Account(a) \in Ints /\ Coin!Account(a) = toldBalance[a] /\ Coin!Account(a) \in Int
    BY CoinFacts, NoWrap
  <2>2. CASE a = c
    <3>1. toldBalance'[a] = left
      BY <1>1, <1>6, <2>1, <2>2
    <3> QED BY <1>2, <1>4, <2>2, <3>1
  <2>3. CASE a # c
    <3>1. toldBalance'[a] = Coin!Wrapped(Coin!Account(a))
      BY <1>6, <2>1, <2>3
    <3> QED BY <1>4, <2>1, <2>3, <3>1, NoWrap
  <2> QED BY <2>2, <2>3
<1>8. CoinTypes'
  BY <1>2, <1>3, <1>4, <1>6, <1>7 DEF CoinTypes
<1> QED BY <1>5, <1>7, <1>8, CoinBooks

\* Two balances change.
LEMMA PutsTwo ==
  ASSUME CoinInv, NEW x \in CoinAccounts, NEW y \in CoinAccounts, x # y, NEW v \in Ints, NEW w \in Ints,
         Coin!PutBalances([a \in {x, y} |-> IF a = x THEN v ELSE w])
  PROVE  /\ balanceOf' \in [DOMAIN balanceOf' -> Ints]
         /\ DOMAIN balanceOf' \subseteq CoinAccounts /\ IsFiniteSet(DOMAIN balanceOf')
         /\ CoinSum' = CoinSum - Coin!Account(x) + v - Coin!Account(y) + w
         /\ \A a \in CoinAccounts :
              Coin!Account(a)' = IF a = x THEN v ELSE IF a = y THEN w ELSE Coin!Account(a)
<1> DEFINE D == DOMAIN balanceOf
           g == [a \in D \cup {x} |-> IF a = x THEN v ELSE balanceOf[a]]
           E == D \cup {x}
<1>1. /\ DOMAIN balanceOf' = E \cup {y} /\ balanceOf'[x] = v /\ balanceOf'[y] = w
      /\ \A z \in D \ {x, y} : balanceOf'[z] = balanceOf[z]
      /\ balanceOf' = [a \in E \cup {y} |-> balanceOf'[a]]
  BY DEF Coin!PutBalances
<1>2. balanceOf' \in [DOMAIN balanceOf' -> Ints] /\ DOMAIN balanceOf' \subseteq CoinAccounts
  <2>1. \A z \in E \cup {y} : balanceOf'[z] \in Ints /\ z \in CoinAccounts
    BY <1>1 DEF CoinInv, CoinTypes
  <2> HIDE DEF E
  <2> QED BY <1>1, <2>1
<1>3. IsFiniteSet(E) /\ IsFiniteSet(DOMAIN balanceOf')
  BY <1>1, FS_AddElement DEF CoinInv, CoinTypes
<1>4. CoinSum' = CoinSum - Coin!Account(x) + v - Coin!Account(y) + w
  <2>1. /\ v \in Int /\ w \in Int /\ Numbered(balanceOf, D) /\ CoinSum \in Int
        /\ Coin!Account(x) \in Int /\ Coin!Account(y) \in Int
    BY CoinFacts, NoWrap
  <2>2. g[x] \in Int /\ g[x] = v /\ \A z \in D \ {x} : balanceOf[z] = g[z]
    BY <2>1
  <2>3. /\ balanceOf'[y] \in Int /\ balanceOf'[y] = w
        /\ \A z \in E \ {y} : g[z] = balanceOf'[z]
    BY <1>1, <2>1
  <2>4. /\ (IF x \in D THEN balanceOf[x] ELSE 0) = Coin!Account(x)
        /\ (IF y \in E THEN g[y] ELSE 0) = Coin!Account(y)
    BY DEF Coin!Account
  <2>5. Numbered(g, E) /\ Total(g, E) = Total(balanceOf, D) - (IF x \in D THEN balanceOf[x] ELSE 0) + g[x]
    <3>1. Numbered(balanceOf, D) /\ g[x] \in Int
      BY <2>1, <2>2
    <3>2. \A z \in D \ {x} : balanceOf[z] = g[z]
      BY <2>2
    <3>3. E = D \cup {x}
      OBVIOUS
    <3> HIDE DEF g, D, E
    <3> QED BY <3>1, <3>2, <3>3, NumberPut
  <2>6. Total(balanceOf', E \cup {y}) = Total(g, E) - (IF y \in E THEN g[y] ELSE 0) + balanceOf'[y]
    <3>1. Numbered(g, E) /\ balanceOf'[y] \in Int
      BY <2>3, <2>5
    <3>2. \A z \in E \ {y} : g[z] = balanceOf'[z]
      BY <2>3
    <3> HIDE DEF g, D, E
    <3> QED BY <3>1, <3>2, NumberPut
  <2> HIDE DEF g, D, E
  <2>7. CoinSum = Total(balanceOf, D) /\ CoinSum' = Total(balanceOf', E \cup {y})
    BY <1>1 DEF CoinSum, D
  <2> QED BY <2>1, <2>2, <2>3, <2>4, <2>5, <2>6, <2>7
<1>5. ASSUME NEW a \in CoinAccounts
      PROVE  Coin!Account(a)' = IF a = x THEN v ELSE IF a = y THEN w ELSE Coin!Account(a)
  BY <1>1 DEF Coin!Account
<1> QED BY <1>2, <1>3, <1>4, <1>5

\* A transfer takes from one account what it gives to another.
LEMMA CoinMoved ==
  ASSUME CoinInv, NEW x \in CoinAccounts, NEW y \in CoinAccounts, NEW v \in CoinValues,
         Coin!transferHelper(x, y, v), Coin!EmitTransfer({x}, {y}, v), totalSupply' = totalSupply
  PROVE  CoinInv'
<1> DEFINE p == Coin!Account(x)
           q == Coin!Account(y)
<1>1. /\ x # y /\ v \in Int /\ v >= 0 /\ p >= v /\ ~Coin!AddFails(q, v)
      /\ p \in Ints /\ q \in Ints /\ p \in Int /\ q \in Int /\ v \in Ints /\ CoinMax \in Nat
      /\ CoinSum \in Int
  BY SamplesAssumption, CoinFacts, NoWrap DEF Coin!transferHelper, Ints
<1>2. p - v \in Ints /\ q + v \in Ints
  <2> HIDE DEF p, q
  <2>1. p - v \in Ints
    BY <1>1 DEF Ints
  <2> QED BY <1>1, <2>1, AddChecked
<1>3. Coin!PutBalances([a \in {x, y} |-> IF a = x THEN p - v ELSE q + v])
  BY DEF Coin!transferHelper
<1>4. /\ balanceOf' \in [DOMAIN balanceOf' -> Ints]
      /\ DOMAIN balanceOf' \subseteq CoinAccounts /\ IsFiniteSet(DOMAIN balanceOf')
      /\ CoinSum' = CoinSum - p + (p - v) - q + (q + v)
      /\ \A a \in CoinAccounts :
           Coin!Account(a)' = IF a = x THEN p - v ELSE IF a = y THEN q + v ELSE Coin!Account(a)
  BY <1>1, <1>2, <1>3, PutsTwo
<1>5. totalSupply' = Coin!Wrapped(CoinSum')
  <2>1. CoinSum' = CoinSum
    <3> HIDE DEF p, q
    <3> QED BY <1>1, <1>4
  <2> QED BY <2>1, CoinFacts
<1>6. toldBalance' = [a \in CoinAccounts |->
        Coin!Wrapped(toldBalance[a] - (IF a \in {x} THEN v ELSE 0) + (IF a \in {y} THEN v ELSE 0))]
  BY DEF Coin!EmitTransfer
<1>7. ASSUME NEW a \in CoinAccounts
      PROVE  toldBalance'[a] = Coin!Account(a)' /\ toldBalance'[a] \in Ints
  <2> DEFINE b == IF a = x THEN p - v ELSE IF a = y THEN q + v ELSE Coin!Account(a)
  <2>1. Coin!Account(a) \in Ints /\ Coin!Account(a) = toldBalance[a] /\ Coin!Account(a) \in Int
    BY CoinFacts, NoWrap
  <2>2. toldBalance[a] - (IF a \in {x} THEN v ELSE 0) + (IF a \in {y} THEN v ELSE 0) = b
    BY <1>1, <2>1
  <2>3. b \in Ints
    BY <1>2, <2>1
  <2>4. toldBalance'[a] = Coin!Wrapped(b) /\ Coin!Account(a)' = b
    BY <1>4, <1>6, <2>2
  <2> HIDE DEF b
  <2> QED BY <2>3, <2>4, NoWrap
<1>8. CoinTypes'
  BY <1>4, <1>6, <1>7 DEF CoinTypes, CoinInv
<1> QED BY <1>5, <1>7, <1>8, CoinBooks

LEMMA CoinStep == CoinInv /\ [Coin!CoinNext]_(Coin!coinVars) => CoinInv'
<1> SUFFICES ASSUME CoinInv, [Coin!CoinNext]_(Coin!coinVars) PROVE CoinInv'
  OBVIOUS
<1>1. ASSUME UNCHANGED <<balanceOf, totalSupply, toldBalance>> PROVE CoinInv'
  <2>1. CoinTypes' /\ CoinSum' = CoinSum /\ \A a \in CoinAccounts : Coin!Account(a)' = Coin!Account(a)
    BY <1>1 DEF CoinInv, CoinTypes, CoinSum, Coin!Account
  <2> QED BY <1>1, <2>1, CoinFacts, CoinBooks
<1>2. CASE UNCHANGED Coin!coinVars
  BY <1>1, <1>2 DEF Coin!coinVars
<1>3. ASSUME NEW c \in CoinAccounts, Coin!Initialize(c) PROVE CoinInv'
  BY <1>1, <1>3 DEF Coin!Initialize
<1>4. ASSUME NEW c \in CoinAccounts, NEW a \in CoinAccounts, NEW v \in CoinValues, Coin!Approve(c, a, v)
      PROVE  CoinInv'
  BY <1>1, <1>4 DEF Coin!Approve
<1>5. ASSUME NEW c \in CoinAccounts, NEW a \in CoinAccounts, NEW v \in CoinValues, Coin!Transfer(c, a, v)
      PROVE  CoinInv'
  BY <1>5, CoinMoved DEF Coin!Transfer
<1>6. ASSUME NEW c \in CoinAccounts, NEW from \in CoinAccounts, NEW to \in CoinAccounts,
             NEW v \in CoinValues, Coin!TransferFrom(c, from, to, v)
      PROVE  CoinInv'
  BY <1>6, CoinMoved DEF Coin!TransferFrom
<1> QED BY <1>2, <1>3, <1>4, <1>5, <1>6, CoinMinted, CoinBurnt DEF Coin!CoinNext

CoinSpec == Coin!CoinInit /\ [][Coin!CoinNext]_(Coin!coinVars)

\* The supply of token-erc-20 is the sum of its balances as an int adds up, and
\* each balance is what its Transfer events add up to (token_contract.go), for any
\* width of the ints and up to their ends, for any accounts and amounts.
THEOREM SupplyAddsUp == CoinSpec => []Coin!SupplyIsBalances
<1>1. CoinInv => Coin!SupplyIsBalances
  BY DEF CoinInv
<1> QED BY <1>1, CoinStarts, CoinStep, PTL DEF CoinSpec

-----------------------------------------------------------------------------
(* token-utxo: outputs and their value.                                       *)

\* The largest of 1..k is k, and the others are 1..(k - 1).
LEMMA LastPlace ==
  ASSUME NEW k \in Nat \ {0}
  PROVE  Utxo!Max(1..k) = k /\ (1..k) \ {k} = 1..(k - 1)
<1>1. Utxo!Max(1..k) = k
  <2> DEFINE P(x) == x \in 1..k /\ \A y \in 1..k : x >= y
  <2>1. P(k) /\ \A x : P(x) => x = k
    OBVIOUS
  <2>2. (CHOOSE x : P(x)) = k
    <3> HIDE DEF P
    <3> QED BY <2>1
  <2> QED BY <2>2 DEF Utxo!Max
<1> QED BY <1>1

LEMMA MaxPicked ==
  ASSUME NEW n \in Nat, NEW s \in SUBSET (1..n), s # {}
  PROVE  Utxo!Max(s) \in s
<1> DEFINE T == {n - x : x \in s}
<1>1. T \in SUBSET Nat /\ T # {}
  <2>1. \A x \in s : n - x \in Nat
    OBVIOUS
  <2> QED BY <2>1
<1>2. PICK m \in T : \A y \in T : m =< y
  <2> HIDE DEF T
  <2> QED BY <1>1, LeastOf
<1>3. PICK x \in s : m = n - x
  OBVIOUS
<1>4. \A y \in s : x >= y
  <2> SUFFICES ASSUME NEW y \in s PROVE x >= y
    OBVIOUS
  <2>1. n - y \in T /\ x \in Nat /\ y \in Nat
    OBVIOUS
  <2> HIDE DEF T
  <2> QED BY <1>2, <1>3, <2>1
<1> QED BY <1>4 DEF Utxo!Max

\* The two sums of a list that Transfer makes, step by step.
LEMMA ValueSteps ==
  ASSUME NEW n \in Nat, NEW outs, DOMAIN outs = 1..n, \A i \in 1..n : outs[i].amount \in Nat
  PROVE  \E t : /\ t[0] = 0 /\ Utxo!Value(outs) = t[n]
                /\ \A k \in 1..n : t[k] = t[k - 1] + outs[k].amount
<1> DEFINE D == 1..n
           c == [s \in SUBSET D |-> Utxo!Max(s)]
           F == [p \in D \X Nat |-> p[2] + outs[p[1]].amount]
           G(h) == h = [s \in SUBSET D |->
                          IF s = {} THEN 0 ELSE h[s \ {Utxo!Max(s)}] + outs[Utxo!Max(s)].amount]
<1>1. /\ F \in [D \X Nat -> Nat]
      /\ \A i \in D, v \in Nat : F[<<i, v>>] = v + outs[i].amount
  OBVIOUS
<1>2. \A s \in SUBSET D : s # {} => c[s] \in s /\ c[s] = Utxo!Max(s)
  BY MaxPicked
<1>3. \E h : G(h)
  <2>1. PICK h \in [SUBSET D -> Nat] : Folds(h, D, 0, c, F)
    <3>1. IsFiniteSet(D) /\ 0 \in Nat
      BY CountUpTo
    <3>2. \A s \in SUBSET D : s # {} => c[s] \in s
      BY <1>2
    <3> HIDE DEF D, c, F
    <3> QED BY <1>1, <3>1, <3>2, FoldsExist
  <2>2. ASSUME NEW s \in SUBSET D
        PROVE  h[s] = IF s = {} THEN 0 ELSE h[s \ {Utxo!Max(s)}] + outs[Utxo!Max(s)].amount
    <3>1. h[s] = IF s = {} THEN 0 ELSE F[<<c[s], h[s \ {c[s]}]>>]
      BY <2>1 DEF Folds
    <3>2. s # {} => Utxo!Max(s) \in D /\ h[s \ {Utxo!Max(s)}] \in Nat /\ c[s] = Utxo!Max(s)
      BY <1>2
    <3> HIDE DEF D, c, F
    <3> QED BY <1>1, <3>1, <3>2
  <2> HIDE DEF D
  <2> QED BY <2>2
<1>4. G(CHOOSE h : G(h))
  <2> HIDE DEF G
  <2> QED BY <1>3
<1>5. Utxo!Value(outs) = (CHOOSE h : G(h))[D]
  BY DEF Utxo!Value, Utxo!FoldLeft, Utxo!MapThenFoldSet
<1> HIDE DEF F, c
<1>6. PICK h : G(h) /\ Utxo!Value(outs) = h[D]
  <2> HIDE DEF G
  <2> QED BY <1>4, <1>5
<1> DEFINE t == [k \in 0..n |-> h[1..k]]
<1>7. t[0] = 0
  <2>1. 1..0 = {} /\ {} \in SUBSET D /\ 0 \in 0..n
    OBVIOUS
  <2>2. h[{}] = 0
    BY <1>6, <2>1
  <2> QED BY <2>1, <2>2
<1>8. ASSUME NEW k \in 1..n PROVE t[k] = t[k - 1] + outs[k].amount
  <2>1. 1..k \in SUBSET D /\ 1..k # {} /\ k \in Nat \ {0} /\ k \in 0..n /\ k - 1 \in 0..n
    OBVIOUS
  <2>2. Utxo!Max(1..k) = k /\ (1..k) \ {k} = 1..(k - 1)
    BY <2>1, LastPlace
  <2> DEFINE r == 1..k
  <2>3. r \in SUBSET D /\ r # {}
    BY <2>1
  <2> HIDE DEF r
  <2>4. h[r] = h[r \ {Utxo!Max(r)}] + outs[Utxo!Max(r)].amount
    BY <1>6, <2>3
  <2>5. h[1..k] = h[1..(k - 1)] + outs[k].amount
    BY <2>2, <2>4 DEF r
  <2> QED BY <2>1, <2>5
<1>9. Utxo!Value(outs) = t[n]
  BY <1>6
<1> HIDE DEF t, G
<1> QED BY <1>7, <1>8, <1>9

LEMMA TotalSteps ==
  ASSUME NEW n \in Nat, NEW outs, DOMAIN outs = 1..n, \A i \in 1..n : outs[i].amount \in Nat
  PROVE  \E t : /\ t[0] = 0 /\ Utxo!Total(outs) = t[n]
                /\ \A k \in 1..n : t[k] = Utxo!add(t[k - 1], outs[k].amount)
<1> DEFINE D == 1..n
           c == [s \in SUBSET D |-> Utxo!Max(s)]
           F == [p \in D \X Nat |-> Utxo!add(p[2], outs[p[1]].amount)]
           G(h) == h = [s \in SUBSET D |->
                          IF s = {} THEN 0 ELSE Utxo!add(h[s \ {Utxo!Max(s)}], outs[Utxo!Max(s)].amount)]
<1>1. /\ F \in [D \X Nat -> Nat]
      /\ \A i \in D, v \in Nat : F[<<i, v>>] = Utxo!add(v, outs[i].amount)
  BY DEF Utxo!add
<1>2. \A s \in SUBSET D : s # {} => c[s] \in s /\ c[s] = Utxo!Max(s)
  BY MaxPicked
<1>3. \E h : G(h)
  <2>1. PICK h \in [SUBSET D -> Nat] : Folds(h, D, 0, c, F)
    <3>1. IsFiniteSet(D) /\ 0 \in Nat
      BY CountUpTo
    <3>2. \A s \in SUBSET D : s # {} => c[s] \in s
      BY <1>2
    <3> HIDE DEF D, c, F
    <3> QED BY <1>1, <3>1, <3>2, FoldsExist
  <2>2. ASSUME NEW s \in SUBSET D
        PROVE  h[s] = IF s = {} THEN 0 ELSE Utxo!add(h[s \ {Utxo!Max(s)}], outs[Utxo!Max(s)].amount)
    <3>1. h[s] = IF s = {} THEN 0 ELSE F[<<c[s], h[s \ {c[s]}]>>]
      BY <2>1 DEF Folds
    <3>2. s # {} => Utxo!Max(s) \in D /\ h[s \ {Utxo!Max(s)}] \in Nat /\ c[s] = Utxo!Max(s)
      BY <1>2
    <3> HIDE DEF D, c, F
    <3> QED BY <1>1, <3>1, <3>2
  <2> HIDE DEF D
  <2> QED BY <2>2
<1>4. G(CHOOSE h : G(h))
  <2> HIDE DEF G
  <2> QED BY <1>3
<1>5. Utxo!Total(outs) = (CHOOSE h : G(h))[D]
  BY DEF Utxo!Total, Utxo!FoldLeft, Utxo!MapThenFoldSet
<1> HIDE DEF F, c
<1>6. PICK h : G(h) /\ Utxo!Total(outs) = h[D]
  <2> HIDE DEF G
  <2> QED BY <1>4, <1>5
<1> DEFINE t == [k \in 0..n |-> h[1..k]]
<1>7. t[0] = 0
  <2>1. 1..0 = {} /\ {} \in SUBSET D /\ 0 \in 0..n
    OBVIOUS
  <2>2. h[{}] = 0
    BY <1>6, <2>1
  <2> QED BY <2>1, <2>2
<1>8. ASSUME NEW k \in 1..n PROVE t[k] = Utxo!add(t[k - 1], outs[k].amount)
  <2>1. 1..k \in SUBSET D /\ 1..k # {} /\ k \in Nat \ {0} /\ k \in 0..n /\ k - 1 \in 0..n
    OBVIOUS
  <2>2. Utxo!Max(1..k) = k /\ (1..k) \ {k} = 1..(k - 1)
    BY <2>1, LastPlace
  <2> DEFINE r == 1..k
  <2>3. r \in SUBSET D /\ r # {}
    BY <2>1
  <2> HIDE DEF r
  <2>4. h[r] = Utxo!add(h[r \ {Utxo!Max(r)}], outs[Utxo!Max(r)].amount)
    BY <1>6, <2>3
  <2>5. h[1..k] = Utxo!add(h[1..(k - 1)], outs[k].amount)
    BY <2>2, <2>4 DEF r
  <2> QED BY <2>1, <2>5
<1>9. Utxo!Total(outs) = t[n]
  BY <1>6
<1> HIDE DEF t, G
<1> QED BY <1>7, <1>8, <1>9

\* As long as the sum is an int the two agree, whatever the order.
LEMMA ListValue ==
  ASSUME NEW n \in Nat, NEW outs, DOMAIN outs = 1..n, \A i \in 1..n : outs[i].amount \in Nat \ {0},
         NEW g, Sums(g, n, [i \in 1..n |-> outs[i].amount])
  PROVE  Utxo!Value(outs) = g[n] /\ (g[n] <= UtxoMax => Utxo!Total(outs) = g[n])
<1> DEFINE a == [i \in 1..n |-> outs[i].amount]
<1>1. /\ a \in [1..n -> Nat \ {0}] /\ UtxoMax \in Nat
      /\ g \in [0..n -> Nat] /\ g[0] = 0 /\ \A k \in 1..n : g[k] = g[k - 1] + outs[k].amount
  BY SamplesAssumption DEF Sums
<1>2. \A i \in 1..n : outs[i].amount \in Nat
  OBVIOUS
<1>3. PICK t : /\ t[0] = 0 /\ Utxo!Value(outs) = t[n]
               /\ \A k \in 1..n : t[k] = t[k - 1] + outs[k].amount
  BY <1>2, ValueSteps
<1>4. PICK u : /\ u[0] = 0 /\ Utxo!Total(outs) = u[n]
               /\ \A k \in 1..n : u[k] = Utxo!add(u[k - 1], outs[k].amount)
  BY <1>2, TotalSteps
<1>5. t[n] = g[n]
  <2> DEFINE B == {k \in 0..n : t[k] # g[k]}
  <2>1. SUFFICES ASSUME B # {} PROVE FALSE
    OBVIOUS
  <2>2. B \in SUBSET Nat
    OBVIOUS
  <2>3. PICK k \in B : \A j \in B : k =< j
    <3> HIDE DEF B
    <3> QED BY <2>1, <2>2, LeastOf
  <2>4. k \in 0..n /\ t[k] # g[k] /\ k # 0
    BY <1>1, <1>3
  <2>5. k \in 1..n /\ k - 1 \in 0..n /\ ~(k =< k - 1)
    BY <2>4
  <2>6. t[k - 1] = g[k - 1]
    BY <2>3, <2>5
  <2> QED BY <1>1, <1>3, <2>4, <2>5, <2>6
<1>6. ASSUME g[n] <= UtxoMax PROVE u[n] = g[n]
  <2> DEFINE B == {k \in 0..n : u[k] # g[k]}
  <2>1. SUFFICES ASSUME B # {} PROVE FALSE
    OBVIOUS
  <2>2. B \in SUBSET Nat
    OBVIOUS
  <2>3. PICK k \in B : \A j \in B : k =< j
    <3> HIDE DEF B
    <3> QED BY <2>1, <2>2, LeastOf
  <2>4. k \in 0..n /\ u[k] # g[k] /\ k # 0
    BY <1>1, <1>4
  <2>5. k \in 1..n /\ k - 1 \in 0..n /\ ~(k =< k - 1)
    BY <2>4
  <2>6. u[k - 1] = g[k - 1]
    BY <2>3, <2>5
  <2>7. g[k] <= g[n]
    <3>1. k = n \/ k < n
      BY <2>4
    <3>2. k < n => g[k] < g[n]
      <4> HIDE DEF a, B
      <4>1. Sums(g, n, a) /\ k \in 0..n /\ n \in 0..n
        BY <2>4 DEF a
      <4> QED BY <1>1, <2>4, <4>1, SumsGrow
    <3> QED BY <1>1, <2>4, <3>1, <3>2
  <2>8. u[k] = Utxo!add(g[k - 1], outs[k].amount) /\ g[k - 1] + outs[k].amount = g[k]
    BY <1>1, <1>4, <2>5, <2>6
  <2>9. ~(g[k] > UtxoMax)
    BY <1>1, <1>6, <2>4, <2>7
  <2> QED BY <2>4, <2>8, <2>9 DEF Utxo!add
<1> QED BY <1>3, <1>4, <1>5, <1>6

\* The value of outputs.
Coins(S) == Total([u \in S |-> u.amount], S)

Coined(S) == IsFiniteSet(S) /\ \A u \in S : u.amount \in Nat \ {0} /\ u.tx \in Nat

LEMMA UtxoSums == \A S : Utxo!FoldFunctionOnSet(+, 0, [u \in S |-> u.amount], S) = Coins(S)
BY DEF Coins, Utxo!FoldFunctionOnSet, Utxo!MapThenFoldSet, Total, MapThenSumSet, MapThenFoldSet

LEMMA CoinsSplit ==
  ASSUME NEW S, Coined(S), NEW R \in SUBSET S
  PROVE  /\ Coined(R) /\ Coined(S \ R)
         /\ Coins(S) \in Int /\ Coins(R) \in Int /\ Coins(S \ R) \in Int
         /\ Coins(S) = Coins(R) + Coins(S \ R)
<1>1. Coined(R) /\ Coined(S \ R)
  BY FS_Subset DEF Coined
<1>2. \A T : Coined(T) => Numbered([u \in T |-> u.amount], T)
  BY DEF Coined, Numbered
<1>3. \A T : Coined(T) => Coins(T) \in Int
  BY <1>2, NumberFacts DEF Coins
<1> DEFINE f == [u \in S |-> u.amount]
<1>4. ASSUME NEW T \in SUBSET S PROVE Total(f, T) = Coins(T)
  <2> DEFINE g == [u \in T |-> u.amount]
  <2>1. Numbered(f, T) /\ \A u \in T : f[u] = g[u]
    <3>1. Numbered(f, S)
      BY <1>2
    <3>2. \A u \in T : f[u] = g[u]
      OBVIOUS
    <3> HIDE DEF f, g
    <3> QED BY <3>1, <3>2, NumberedSubset
  <2> HIDE DEF f, g
  <2>2. Total(f, T) = Total(g, T)
    BY <2>1, NumberSame
  <2> QED BY <2>2 DEF Coins, g
<1>5. Numbered(f, S)
  BY <1>2
<1> HIDE DEF f
<1>6. Total(f, S) = Total(f, R) + Total(f, S \ R)
  BY <1>5, NumberSplits
<1>7. S \in SUBSET S /\ S \ R \in SUBSET S
  OBVIOUS
<1> QED BY <1>1, <1>3, <1>4, <1>6, <1>7

\* Two sets of outputs put together.
LEMMA CoinsJoin ==
  ASSUME NEW S, Coined(S), NEW R, Coined(R), S \cap R = {}
  PROVE  Coined(S \cup R) /\ Coins(S \cup R) = Coins(S) + Coins(R)
<1> DEFINE T == S \cup R
<1>1. Coined(T)
  BY FS_Union DEF Coined
<1>2. R \in SUBSET T /\ T \ R = S
  OBVIOUS
<1> HIDE DEF T
<1>3. Coins(T) = Coins(R) + Coins(T \ R) /\ Coins(R) \in Int /\ Coins(T \ R) \in Int
  BY <1>1, <1>2, CoinsSplit
<1>4. Coins(T \ R) = Coins(S)
  BY <1>2
<1>5. Coins(T) = Coins(S) + Coins(R)
  BY <1>3, <1>4
<1> QED BY <1>1, <1>5 DEF T

\* What a list of different outputs is worth.
LEMMA CoinsOfList ==
  ASSUME NEW n \in Nat, NEW S, Coined(S), NEW q \in [1..n -> S],
         \A i, j \in 1..n : i # j => q[i] # q[j],
         NEW outs, DOMAIN outs = 1..n, \A i \in 1..n : outs[i].amount = q[i].amount
  PROVE  /\ Coins({q[i] : i \in 1..n}) = Utxo!Value(outs)
         /\ Utxo!Value(outs) \in Nat
         /\ Utxo!Value(outs) <= UtxoMax => Utxo!Total(outs) = Utxo!Value(outs)
<1> DEFINE a == [i \in 1..n |-> outs[i].amount]
           f == [u \in S |-> u.amount]
           R == {q[i] : i \in 1..n}
<1>1. \A i \in 1..n : q[i] \in S /\ outs[i].amount \in Nat \ {0}
  BY DEF Coined
<1>2. a \in [1..n -> Nat]
  BY <1>1
<1>3. PICK g : Sums(g, n, a)
  <2> HIDE DEF a
  <2> QED BY <1>2, SumsExist
<1>4. Utxo!Value(outs) = g[n] /\ (g[n] <= UtxoMax => Utxo!Total(outs) = g[n])
  <2>1. \A i \in 1..n : outs[i].amount \in Nat \ {0}
    BY <1>1
  <2>2. Sums(g, n, [i \in 1..n |-> outs[i].amount])
    BY <1>3
  <2> QED BY <2>1, <2>2, ListValue
<1>5. g[n] \in Nat
  BY <1>3 DEF Sums
<1>6. Total(f, R) = g[n]
  <2>1. Summable(f, S)
    BY DEF Coined, Summable
  <2>2. a = [i \in 1..n |-> f[q[i]]]
    BY <1>1
  <2>3. EachOnce(q, n)
    BY DEF EachOnce
  <2> HIDE DEF f, a, R
  <2>4. ListAdds(f, q, n, g)
    BY <1>3, <2>1, <2>2, <2>3, ListAddsUp
  <2> QED BY <2>4 DEF ListAdds, R
<1>7. Total(f, R) = Coins(R)
  <2> DEFINE h == [u \in R |-> u.amount]
  <2>1. R \in SUBSET S
    BY <1>1
  <2>2. Numbered(f, S)
    BY DEF Coined, Numbered
  <2>3. \A u \in R : f[u] = h[u]
    BY <2>1
  <2> HIDE DEF f, h, R
  <2>4. Numbered(f, R)
    BY <2>1, <2>2, NumberedSubset
  <2>5. Total(f, R) = Total(h, R)
    BY <2>3, <2>4, NumberSame
  <2> QED BY <2>5 DEF Coins, h
<1> QED BY <1>4, <1>5, <1>6, <1>7

\* The outputs of a transaction are new.
LEMMA OutputsAreNew ==
  ASSUME txs \in Nat, NEW n \in Nat, NEW outs, DOMAIN outs = 1..n,
         \A i \in 1..n : outs[i].amount \in Nat \ {0}
  PROVE  /\ Coined(Utxo!Outputs(outs))
         /\ \A u \in Utxo!Outputs(outs) : u.tx = txs
         /\ Coins(Utxo!Outputs(outs)) = Utxo!Value(outs)
         /\ Utxo!Value(outs) \in Nat
         /\ Utxo!Value(outs) <= UtxoMax => Utxo!Total(outs) = Utxo!Value(outs)
<1> DEFINE q == [i \in 1..n |-> [owner |-> outs[i].owner, tx |-> txs, index |-> i,
                                 amount |-> outs[i].amount]]
           O == {q[i] : i \in 1..n}
<1>1. Utxo!Outputs(outs) = O
  BY DEF Utxo!Outputs
<1>2. \A i \in 1..n : q[i].tx = txs /\ q[i].index = i /\ q[i].amount = outs[i].amount
  OBVIOUS
<1>3. q \in [1..n -> O]
  OBVIOUS
<1> HIDE DEF q
<1>4. IsFiniteSet(O)
  <2>1. q \in Surjection(1..n, O)
    BY <1>3 DEF Surjection
  <2>2. IsFiniteSet(1..n)
    BY CountUpTo
  <2> HIDE DEF O
  <2> QED BY <2>1, <2>2, FS_Surjection
<1>5. Coined(O) /\ \A u \in O : u.tx = txs
  BY <1>2, <1>4 DEF Coined
<1>6. \A i, j \in 1..n : i # j => q[i] # q[j]
  BY <1>2
<1>7. \A i \in 1..n : outs[i].amount = q[i].amount
  BY <1>2
<1>8. /\ Coins({q[i] : i \in 1..n}) = Utxo!Value(outs)
      /\ Utxo!Value(outs) \in Nat
      /\ Utxo!Value(outs) <= UtxoMax => Utxo!Total(outs) = Utxo!Value(outs)
  <2>1. Coined(O) /\ q \in [1..n -> O]
    BY <1>3, <1>5
  <2> HIDE DEF O
  <2> QED BY <1>6, <1>7, <2>1, CoinsOfList
<1> QED BY <1>1, <1>5, <1>8

UtxoTypes ==
  /\ txs \in Nat /\ issued \in Int /\ overflowed \in BOOLEAN
  /\ Coined(unspent)
  /\ \A u \in unspent : u.tx < txs

UtxoInv == UtxoTypes /\ (overflowed \/ Coins(unspent) = issued)

LEMMA UtxoStarts == Utxo!UtxoInit => UtxoInv
<1> SUFFICES ASSUME Utxo!UtxoInit PROVE UtxoInv
  OBVIOUS
<1>1. unspent = {} /\ txs = 0 /\ issued = 0 /\ overflowed = FALSE
  BY DEF Utxo!UtxoInit
<1>2. Coined({})
  BY FS_EmptySet DEF Coined
<1>3. Coins({}) = 0
  <2> DEFINE f == [u \in {} |-> u.amount]
  <2>1. Numbered(f, {})
    BY <1>2 DEF Coined, Numbered
  <2> HIDE DEF f
  <2>2. Total(f, {}) = 0
    BY <2>1, NumberFacts
  <2> QED BY <2>2 DEF Coins, f
<1>4. Coined(unspent) /\ Coins(unspent) = issued
  BY <1>1, <1>2, <1>3
<1>5. txs \in Nat /\ issued \in Int /\ \A u \in unspent : u.tx < txs
  BY <1>1
<1>6. overflowed \in BOOLEAN
  BY <1>1
<1> QED BY <1>4, <1>5, <1>6 DEF UtxoInv, UtxoTypes

LEMMA MintIsIssued ==
  ASSUME UtxoInv, NEW c, NEW v \in UtxoAmounts, Utxo!Mint(c, v)
  PROVE  UtxoInv'
<1> DEFINE outs == <<[owner |-> c, amount |-> v]>>
           O == Utxo!Outputs(outs)
<1>1. /\ unspent' = unspent \cup O /\ txs' = txs + 1 /\ issued' = issued + v
      /\ overflowed' = overflowed /\ v > 0
  BY DEF Utxo!Mint
<1>2. v \in Nat \ {0}
  BY <1>1, SamplesAssumption
<1>3. DOMAIN outs = 1..1 /\ \A i \in 1..1 : outs[i].amount = v
  OBVIOUS
<1> HIDE DEF outs
<1>4. txs \in Nat /\ Coined(unspent) /\ issued \in Int /\ \A u \in unspent : u.tx < txs /\ u.tx \in Nat
  BY DEF UtxoInv, UtxoTypes, Coined
<1>5. 1 \in Nat /\ \A i \in 1..1 : outs[i].amount \in Nat \ {0}
  BY <1>2, <1>3
<1>6. Coined(O) /\ (\A u \in O : u.tx = txs) /\ Coins(O) = Utxo!Value(outs)
  BY <1>3, <1>4, <1>5, OutputsAreNew
<1>7. Utxo!Value(outs) = v
  <2>1. PICK n \in Nat : n = 1
    OBVIOUS
  <2>2. DOMAIN outs = 1..n /\ \A i \in 1..n : outs[i].amount \in Nat
    BY <1>2, <1>3, <2>1
  <2>3. PICK t : /\ t[0] = 0 /\ Utxo!Value(outs) = t[n]
                 /\ \A k \in 1..n : t[k] = t[k - 1] + outs[k].amount
    BY <2>2, ValueSteps
  <2>4. n \in 1..n /\ n - 1 = 0 /\ 0 + v = v /\ outs[n].amount = v
    BY <1>2, <1>3, <2>1
  <2> QED BY <2>3, <2>4
<1> HIDE DEF O
<1>8. unspent \cap O = {}
  BY <1>4, <1>6
<1>9. Coined(unspent \cup O) /\ Coins(unspent \cup O) = Coins(unspent) + Coins(O)
  BY <1>4, <1>6, <1>8, CoinsJoin
<1>10. \A u \in unspent \cup O : u.tx < txs + 1
  BY <1>4, <1>6
<1>11. UtxoTypes'
  BY <1>1, <1>2, <1>4, <1>9, <1>10 DEF UtxoTypes, UtxoInv
<1>12. overflowed \/ Coins(unspent) = issued
  BY DEF UtxoInv
<1>13. Coins(unspent \cup O) = Coins(unspent) + v
  BY <1>6, <1>7, <1>9
<1>14. overflowed' \/ Coins(unspent') = issued'
  BY <1>1, <1>12, <1>13
<1> QED BY <1>11, <1>14 DEF UtxoInv, Coins

LEMMA TransferMovesValue ==
  ASSUME UtxoInv, NEW c, NEW outs \in Utxo!OutputLists, Utxo!Transfer(c, outs)
  PROVE  UtxoInv'
<1>1. PICK n \in Nat : outs \in [1..n -> [owner : CoinAccounts, amount : UtxoAmounts]]
  BY SamplesAssumption DEF Utxo!OutputLists
<1>2. PICK ins \in Utxo!Inputs(c) :
        /\ Utxo!Total(ins) = Utxo!Total(outs)
        /\ unspent' = (unspent \ Utxo!Range(ins)) \cup Utxo!Outputs(outs)
        /\ overflowed' = (overflowed \/ Utxo!Value(ins) > UtxoMax \/ Utxo!Value(outs) > UtxoMax)
  BY DEF Utxo!Transfer
<1>3. txs' = txs + 1 /\ issued' = issued /\ \A i \in DOMAIN outs : outs[i].amount > 0
  BY DEF Utxo!Transfer
<1>4. /\ txs \in Nat /\ Coined(unspent) /\ IsFiniteSet(unspent) /\ issued \in Int
      /\ \A u \in unspent : u.tx < txs /\ u.tx \in Nat
      /\ overflowed \/ Coins(unspent) = issued
      /\ overflowed \in BOOLEAN /\ UtxoMax \in Nat
  BY SamplesAssumption DEF UtxoInv, UtxoTypes, Coined
<1> DEFINE O == Utxo!Outputs(outs)
           R == Utxo!Range(ins)
<1>5. DOMAIN outs = 1..n /\ \A i \in 1..n : outs[i].amount \in Nat \ {0}
  <2>1. DOMAIN outs = 1..n /\ \A i \in 1..n : outs[i].amount \in UtxoAmounts
    BY <1>1
  <2>2. UtxoAmounts \subseteq Int
    BY SamplesAssumption
  <2>3. ASSUME NEW i \in 1..n PROVE outs[i].amount \in Int /\ outs[i].amount > 0
    BY <1>3, <2>1, <2>2
  <2> QED BY <2>1, <2>3
<1>6. /\ Coined(O) /\ (\A u \in O : u.tx = txs) /\ Coins(O) = Utxo!Value(outs)
      /\ Utxo!Value(outs) \in Nat
      /\ Utxo!Value(outs) <= UtxoMax => Utxo!Total(outs) = Utxo!Value(outs)
  BY <1>4, <1>5, OutputsAreNew
<1>7. PICK S \in SUBSET unspent : ins \in Utxo!SetToSeqs(S)
  BY <1>2 DEF Utxo!Inputs
<1>8. PICK m \in Nat : /\ ins \in [1..m -> S]
                       /\ \A i, j \in 1..m : i # j => ins[i] # ins[j]
  <2>1. Utxo!Cardinality(S) = Cardinality(S)
    BY DEF Utxo!Cardinality, Cardinality
  <2>2. Cardinality(S) \in Nat
    BY <1>4, FS_Subset, FS_CardinalityType
  <2>3. Utxo!Cardinality(S) \in Nat
    BY <2>1, <2>2
  <2>4. /\ ins \in [1..Utxo!Cardinality(S) -> S]
        /\ \A i, j \in 1..Utxo!Cardinality(S) : i # j => ins[i] # ins[j]
    BY <1>7 DEF Utxo!SetToSeqs
  <2> QED BY <2>3, <2>4
<1>9. R = {ins[i] : i \in 1..m} /\ R \in SUBSET unspent /\ DOMAIN ins = 1..m
  BY <1>7, <1>8 DEF Utxo!Range
<1>10. /\ Coins(R) = Utxo!Value(ins)
       /\ Utxo!Value(ins) \in Nat
       /\ Utxo!Value(ins) <= UtxoMax => Utxo!Total(ins) = Utxo!Value(ins)
  <2>1. Coined(S)
    BY <1>4, CoinsSplit
  <2>2. \A i \in 1..m : ins[i].amount = ins[i].amount
    OBVIOUS
  <2>3. /\ Coins({ins[i] : i \in 1..m}) = Utxo!Value(ins)
        /\ Utxo!Value(ins) \in Nat
        /\ Utxo!Value(ins) <= UtxoMax => Utxo!Total(ins) = Utxo!Value(ins)
    BY <1>8, <1>9, <2>1, <2>2, CoinsOfList
  <2> QED BY <1>9, <2>3
<1> HIDE DEF O, R
<1>11. Coined(unspent \ R) /\ Coins(unspent) = Coins(R) + Coins(unspent \ R)
       /\ Coins(unspent \ R) \in Int
  BY <1>4, <1>9, CoinsSplit
<1> DEFINE T == (unspent \ R) \cup O
<1>12. (unspent \ R) \cap O = {}
  BY <1>4, <1>6
<1>13. Coined(T) /\ Coins(T) = Coins(unspent \ R) + Coins(O)
  BY <1>6, <1>11, <1>12, CoinsJoin
<1>14. unspent' = T
  BY <1>2 DEF O, R
<1>15. \A u \in T : u.tx < txs + 1
  BY <1>4, <1>6
<1> HIDE DEF T
<1>16. overflowed' \in BOOLEAN
  BY <1>2
<1>17. UtxoTypes'
  BY <1>3, <1>4, <1>13, <1>14, <1>15, <1>16 DEF UtxoTypes
<1>18. ASSUME ~overflowed' PROVE Coins(unspent') = issued'
  <2>0. ~overflowed /\ ~(Utxo!Value(ins) > UtxoMax) /\ ~(Utxo!Value(outs) > UtxoMax)
    BY <1>2, <1>18
  <2>1. ~overflowed /\ Utxo!Value(ins) <= UtxoMax /\ Utxo!Value(outs) <= UtxoMax
    BY <1>4, <1>6, <1>10, <2>0
  <2>2. Coins(R) = Coins(O)
    BY <1>2, <1>6, <1>10, <2>1
  <2>3. Coins(T) = Coins(unspent)
    BY <1>10, <1>11, <1>13, <2>2
  <2> QED BY <1>3, <1>4, <1>14, <2>1, <2>3
<1>19. (overflowed \/ Coins(unspent) = issued)'
  <2>1. overflowed' \/ Coins(unspent') = issued'
    BY <1>18
  <2> QED BY <2>1 DEF Coins
<1> QED BY <1>17, <1>19 DEF UtxoInv

UtxoSpec == Utxo!UtxoInit /\ [][Utxo!UtxoNext]_(Utxo!utxoVars)

LEMMA UtxoGoesOn == UtxoInv /\ [Utxo!UtxoNext]_(Utxo!utxoVars) => UtxoInv'
<1> SUFFICES ASSUME UtxoInv, [Utxo!UtxoNext]_(Utxo!utxoVars) PROVE UtxoInv'
  OBVIOUS
<1>1. ASSUME UNCHANGED <<unspent, txs, issued, overflowed>> PROVE UtxoInv'
  <2>1. UtxoTypes' /\ (overflowed' \/ Coins(unspent') = issued')
    BY <1>1 DEF UtxoInv, UtxoTypes
  <2> QED BY <2>1 DEF UtxoInv, Coins
<1>2. ASSUME NEW c, Utxo!Initialize(c) PROVE UtxoInv'
  BY <1>1, <1>2 DEF Utxo!Initialize
<1>3. CASE UNCHANGED Utxo!utxoVars
  BY <1>1, <1>3 DEF Utxo!utxoVars
<1>4. CASE Utxo!UtxoNext
  BY <1>2, <1>4, MintIsIssued, TransferMovesValue DEF Utxo!UtxoNext
<1> QED BY <1>3, <1>4

\* token-utxo's transfers neither make nor lose value while no sum of one overflows.
THEOREM ValueStays == UtxoSpec => []Utxo!ValueIsConserved
<1>1. UtxoInv => Utxo!ValueIsConserved
  <2>1. Utxo!InCirculation = Coins(unspent)
    BY UtxoSums DEF Utxo!InCirculation
  <2> QED BY <2>1 DEF UtxoInv, Utxo!ValueIsConserved
<1> QED BY <1>1, UtxoStarts, UtxoGoesOn, PTL DEF UtxoSpec

-----------------------------------------------------------------------------
(* token-erc-1155: what an account holds, over the keys of its senders.       *)

Places == 1..Len(KeyOrder)

\* What an account has of a token with each sender, and in all.
Shares(h, a, id) == [i \in Places |-> h[<<a, id, KeyOrder[i]>>]]
Held(h, a, id) == Total(Shares(h, a, id), Places)

MultiTypes(h) == h \in [Multi!BalanceKeys -> Int]

LEMMA KeyPlaces ==
  /\ Len(KeyOrder) \in Nat /\ IsFiniteSet(Places) /\ DOMAIN KeyOrder = Places
  /\ \A i \in Places : KeyOrder[i] \in Accounts
  /\ \A a \in Accounts : \E i \in Places : KeyOrder[i] = a /\ \A j \in Places : KeyOrder[j] = a => j = i
  /\ \A i, j \in Places : KeyOrder[i] = KeyOrder[j] => i = j
<1>1. /\ KeyOrder \in [Places -> Accounts] /\ Len(KeyOrder) \in Nat
      /\ \A a \in Accounts : \E i \in DOMAIN KeyOrder : KeyOrder[i] = a
      /\ \A i, j \in DOMAIN KeyOrder : i # j => KeyOrder[i] # KeyOrder[j]
  BY SamplesAssumption DEF Places
<1>2. IsFiniteSet(Places)
  BY <1>1, CountUpTo DEF Places
<1> QED BY <1>1, <1>2

LEMMA SharesNumbered ==
  ASSUME NEW h, MultiTypes(h), NEW a \in Accounts, NEW id \in Ids
  PROVE  /\ Numbered(Shares(h, a, id), Places)
         /\ \A i \in Places : Shares(h, a, id)[i] = h[<<a, id, KeyOrder[i]>>]
         /\ \A s \in Accounts : h[<<a, id, s>>] \in Int
         /\ Held(h, a, id) \in Int
<1>1. \A s \in Accounts : <<a, id, s>> \in Multi!BalanceKeys
  BY DEF Multi!BalanceKeys
<1>2. \A s \in Accounts : h[<<a, id, s>>] \in Int
  BY <1>1 DEF MultiTypes
<1>3. \A i \in Places : Shares(h, a, id)[i] = h[<<a, id, KeyOrder[i]>>]
  BY DEF Shares
<1>4. Numbered(Shares(h, a, id), Places)
  BY <1>2, <1>3, KeyPlaces DEF Numbered
<1> QED BY <1>2, <1>3, <1>4, NumberFacts DEF Held

\* One sender's key grows by v.
LEMMA OneShareGrows ==
  ASSUME NEW f, Numbered(f, Places), NEW g, NEW x \in Accounts, NEW v \in Int,
         \A i \in Places : g[i] = f[i] + IF KeyOrder[i] = x THEN v ELSE 0
  PROVE  Numbered(g, Places) /\ Total(g, Places) = Total(f, Places) + v
<1>1. PICK p \in Places : KeyOrder[p] = x /\ \A j \in Places : KeyOrder[j] = x => j = p
  BY KeyPlaces
<1>2. \A i \in Places : f[i] \in Int /\ IsFiniteSet(Places)
  BY DEF Numbered
<1>3. g[p] = f[p] + v
  BY <1>1
<1>4. ASSUME NEW i \in Places \ {p} PROVE f[i] = g[i]
  <2>1. KeyOrder[i] # x /\ i \in Places
    BY <1>1
  <2>2. g[i] = f[i] + 0
    BY <2>1
  <2> QED BY <1>2, <2>1, <2>2
<1>5. Numbered(g, Places)
  <2>1. ASSUME NEW i \in Places PROVE g[i] \in Int
    <3>1. CASE i = p
      BY <1>2, <1>3, <3>1
    <3>2. CASE i # p
      BY <1>2, <1>4, <3>2
    <3> QED BY <3>1, <3>2
  <2> QED BY <1>2, <2>1 DEF Numbered
<1>6. Total(g, Places) = Total(f, Places) - f[p] + g[p]
  BY <1>4, <1>5, NumberChange
<1>7. Total(f, Places) \in Int
  BY NumberFacts
<1> QED BY <1>2, <1>3, <1>5, <1>6, <1>7

\* A deposit goes to the key of its sender.
Deposited(h, k, a, id, x, v) ==
  \A s \in Accounts : k[<<a, id, s>>] = h[<<a, id, s>>] + IF s = x THEN v ELSE 0

LEMMA DepositIsHeld ==
  ASSUME NEW h, MultiTypes(h), NEW k, MultiTypes(k), NEW a \in Accounts, NEW id \in Ids,
         NEW x \in Accounts, NEW v \in Int, Deposited(h, k, a, id, x, v)
  PROVE  Held(k, a, id) = Held(h, a, id) + v
<1> DEFINE f == Shares(h, a, id)
           g == Shares(k, a, id)
<1>1. Numbered(f, Places) /\ \A i \in Places : f[i] = h[<<a, id, KeyOrder[i]>>]
  BY SharesNumbered
<1>2. \A i \in Places : g[i] = k[<<a, id, KeyOrder[i]>>]
  BY SharesNumbered
<1> HIDE DEF f, g
<1>3. ASSUME NEW i \in Places PROVE g[i] = f[i] + IF KeyOrder[i] = x THEN v ELSE 0
  <2>1. PICK s \in Accounts : s = KeyOrder[i]
    BY KeyPlaces
  <2>2. k[<<a, id, s>>] = h[<<a, id, s>>] + IF s = x THEN v ELSE 0
    BY DEF Deposited
  <2>3. f[i] = h[<<a, id, s>>] /\ g[i] = k[<<a, id, s>>]
    BY <1>1, <1>2, <2>1
  <2> QED BY <2>1, <2>2, <2>3
<1>4. Total(g, Places) = Total(f, Places) + v
  BY <1>1, <1>3, OneShareGrows
<1> QED BY <1>4 DEF Held, f, g

\* Nothing changes for one that no key of changes.
LEMMA KeptIsHeld ==
  ASSUME NEW h, NEW k, NEW a, NEW id,
         \A s \in Accounts : k[<<a, id, s>>] = h[<<a, id, s>>]
  PROVE  Held(k, a, id) = Held(h, a, id)
<1>1. \A i \in Places : k[<<a, id, KeyOrder[i]>>] = h[<<a, id, KeyOrder[i]>>]
  BY KeyPlaces
<1>2. Shares(k, a, id) = Shares(h, a, id)
  BY <1>1 DEF Shares
<1> QED BY <1>2 DEF Held

\* The first n keys, and all of them.
LEMMA MultiSums ==
  ASSUME MultiTypes(holding), NEW a \in Accounts, NEW id \in Ids, NEW n \in 0..Len(KeyOrder)
  PROVE  /\ Multi!Partial(a, id, n) = Total(Shares(holding, a, id), 1..n)
         /\ Multi!Balance(a, id) = Held(holding, a, id)
<1>0. \A f, S : Multi!FoldFunctionOnSet(+, 0, f, S) = Total(f, S)
  BY DEF Multi!FoldFunctionOnSet, Multi!MapThenFoldSet, Total, MapThenSumSet, MapThenFoldSet
<1>1. ASSUME NEW m \in 0..Len(KeyOrder)
      PROVE  Multi!Partial(a, id, m) = Total(Shares(holding, a, id), 1..m)
  <2> DEFINE f == [i \in 1..m |-> holding[<<a, id, KeyOrder[i]>>]]
             g == Shares(holding, a, id)
  <2>1. 1..m \in SUBSET Places
    BY KeyPlaces DEF Places
  <2>2. Numbered(g, Places) /\ \A i \in Places : g[i] = holding[<<a, id, KeyOrder[i]>>]
    BY SharesNumbered
  <2>3. \A i \in 1..m : f[i] = holding[<<a, id, KeyOrder[i]>>]
    OBVIOUS
  <2>4. Multi!Partial(a, id, m) = Total(f, 1..m)
    BY <1>0 DEF Multi!Partial
  <2> HIDE DEF f, g
  <2>5. Numbered(g, 1..m)
    BY <2>1, <2>2, NumberedSubset
  <2>6. \A i \in 1..m : g[i] = f[i]
    BY <2>1, <2>2, <2>3
  <2>7. Total(g, 1..m) = Total(f, 1..m)
    BY <2>5, <2>6, NumberSame
  <2> QED BY <2>4, <2>7 DEF g
<1>2. Len(KeyOrder) \in 0..Len(KeyOrder)
  BY KeyPlaces
<1>3. Multi!Balance(a, id) = Held(holding, a, id)
  BY <1>1, <1>2 DEF Multi!Balance, Held, Places
<1> QED BY <1>1, <1>3

\* removeBalance takes what is needed, whichever keys it goes through.
LEMMA RemovalIsHeld ==
  ASSUME MultiTypes(holding), NEW a \in Accounts, NEW id \in Ids, NEW needed \in Int,
         Multi!CanRemove(a, id, needed)
  PROVE  /\ \A s \in Accounts : Multi!Removed(a, id, needed, s) \in Int
         /\ \A k : (MultiTypes(k) /\ \A s \in Accounts : k[<<a, id, s>>] = Multi!Removed(a, id, needed, s))
                     => Held(k, a, id) = Held(holding, a, id) - needed
<1> DEFINE L == Len(KeyOrder)
           N == {n \in 0..L : Multi!Partial(a, id, n) >= needed}
           n == Multi!KeysRead(a, id, needed)
           f == Shares(holding, a, id)
           g == [i \in Places |-> IF i <= n THEN 0 ELSE f[i]]
           rest == Multi!Partial(a, id, n) - needed
<1>1. n \in 0..L
  <2>1. N \in SUBSET Nat
    OBVIOUS
  <2>2. L \in N
    <3>1. needed <= Multi!Balance(a, id)
      BY DEF Multi!CanRemove
    <3>2. Multi!Partial(a, id, L) = Multi!Balance(a, id) /\ L \in 0..L
      BY KeyPlaces DEF Multi!Balance
    <3>3. Multi!Balance(a, id) \in Int
      BY <3>2, MultiSums, SharesNumbered
    <3> QED BY <3>1, <3>2, <3>3
  <2>3. n = Multi!Min(N)
    BY DEF Multi!KeysRead
  <2> HIDE DEF N
  <2>4. \E x \in N : \A y \in N : x =< y
    BY <2>1, <2>2, LeastOf
  <2>5. Multi!Min(N) \in N
    BY <2>4 DEF Multi!Min
  <2> QED BY <2>3, <2>5 DEF N
<1> HIDE DEF n
<1>2. /\ Numbered(f, Places) /\ \A i \in Places : f[i] = holding[<<a, id, KeyOrder[i]>>]
      /\ \A s \in Accounts : holding[<<a, id, s>>] \in Int
  BY SharesNumbered
<1>3. Multi!Partial(a, id, n) = Total(f, 1..n)
  BY <1>1, MultiSums
<1> HIDE DEF f
<1>4. /\ Numbered(g, Places) /\ Total(f, 1..n) \in Int
      /\ Total(g, Places) = Total(f, Places) - Total(f, 1..n)
      /\ \A i \in Places : g[i] = IF i <= n THEN 0 ELSE f[i]
  <2>1. \A i \in 1..L : g[i] = IF i <= n THEN 0 ELSE f[i]
    BY DEF Places
  <2>2. L \in Nat /\ Places = 1..L /\ Numbered(f, 1..L)
    BY <1>2, KeyPlaces DEF Places
  <2> HIDE DEF g, L
  <2>3. /\ Numbered(g, 1..L) /\ Total(f, 1..n) \in Int
        /\ Total(g, 1..L) = Total(f, 1..L) - Total(f, 1..n)
    BY <1>1, <2>1, <2>2, NumberDropped
  <2> QED BY <2>1, <2>2, <2>3
<1> HIDE DEF g
<1>5. rest \in Int
  BY <1>3, <1>4
<1> DEFINE read == {KeyOrder[i] : i \in 1..n}
           kept(s) == IF s \in read THEN 0 ELSE holding[<<a, id, s>>]
<1>6. \A s : Multi!Removed(a, id, needed, s) = IF s = a THEN kept(s) + rest ELSE kept(s)
  BY DEF Multi!Removed, n
<1>7. ASSUME NEW i \in Places PROVE KeyOrder[i] \in read <=> i <= n
  <2>1. \A j \in 1..n : j \in Places
    BY <1>1, KeyPlaces DEF Places
  <2>2. i \in Nat /\ i >= 1
    BY KeyPlaces DEF Places
  <2>3. i <= n => i \in 1..n
    BY <1>1, <2>2
  <2>4. \A j \in 1..n : KeyOrder[j] = KeyOrder[i] => j = i
    BY <2>1, KeyPlaces
  <2>5. i \in 1..n => i <= n
    BY <1>1
  <2> QED BY <2>3, <2>4, <2>5
<1>8. \A s \in Accounts : kept(s) \in Int
  BY <1>2
<1>9. \A i \in Places : kept(KeyOrder[i]) = g[i]
  BY <1>2, <1>4, <1>7
<1> HIDE DEF rest, read, kept
<1>10. \A s \in Accounts : Multi!Removed(a, id, needed, s) \in Int
  BY <1>5, <1>6, <1>8
<1>11. ASSUME NEW k, MultiTypes(k),
              \A s \in Accounts : k[<<a, id, s>>] = Multi!Removed(a, id, needed, s)
       PROVE  Held(k, a, id) = Held(holding, a, id) - needed
  <2> DEFINE q == Shares(k, a, id)
  <2>1. \A i \in Places : q[i] = k[<<a, id, KeyOrder[i]>>]
    BY <1>11, SharesNumbered
  <2> HIDE DEF q
  <2>2. ASSUME NEW i \in Places PROVE q[i] = g[i] + IF KeyOrder[i] = a THEN rest ELSE 0
    <3>1. KeyOrder[i] \in Accounts /\ kept(KeyOrder[i]) = g[i] /\ g[i] \in Int
      BY <1>4, <1>9, KeyPlaces DEF Numbered
    <3>2. q[i] = IF KeyOrder[i] = a THEN kept(KeyOrder[i]) + rest ELSE kept(KeyOrder[i])
      BY <1>6, <1>11, <2>1, <3>1
    <3> QED BY <3>1, <3>2
  <2>3. Total(q, Places) = Total(g, Places) + rest
    BY <1>4, <1>5, <2>2, OneShareGrows
  <2>4. Total(f, Places) \in Int
    BY <1>2, NumberFacts
  <2>5. rest = Total(f, 1..n) - needed
    BY <1>3 DEF rest
  <2>6. Total(q, Places) = Total(f, Places) - needed
    BY <1>4, <2>3, <2>4, <2>5
  <2> QED BY <2>6 DEF Held, q, f
<1> QED BY <1>10, <1>11

\* What a call says it gives to an account, and takes of a token.
LEMMA EntriesAddUp ==
  ASSUME NEW batch \in Multi!Batches, NEW a, NEW id
  PROVE  /\ Multi!AmountTo(batch, a, id) \in Int /\ Multi!AmountOf(batch, id) \in Int
         /\ (\A i \in DOMAIN batch : batch[i].to # a) => Multi!AmountTo(batch, a, id) = 0
         /\ (\A i \in DOMAIN batch : batch[i].id # id) => Multi!AmountOf(batch, id) = 0
<1>0. \A f, S : Multi!FoldFunctionOnSet(+, 0, f, S) = Total(f, S)
  BY DEF Multi!FoldFunctionOnSet, Multi!MapThenFoldSet, Total, MapThenSumSet, MapThenFoldSet
<1>1. PICK n \in Nat : batch \in [1..n -> [to : Accounts, id : Ids, amount : Amounts]]
  BY SamplesAssumption DEF Multi!Batches
<1> DEFINE D == DOMAIN batch
           f == [i \in D |-> batch[i].amount]
           To == {i \in D : batch[i].to = a /\ batch[i].id = id}
           Of == {i \in D : batch[i].id = id}
<1>2. D = 1..n /\ \A i \in D : batch[i].amount \in Int
  <2>1. \A i \in 1..n : batch[i].amount \in Amounts
    BY <1>1
  <2>2. Amounts \subseteq Nat
    BY SamplesAssumption
  <2>3. D = 1..n
    BY <1>1
  <2> HIDE DEF D
  <2>4. ASSUME NEW i \in D PROVE batch[i].amount \in Int
    <3>1. batch[i].amount \in Nat
      BY <2>1, <2>2, <2>3
    <3> QED BY <3>1
  <2> QED BY <2>3, <2>4
<1>3. Numbered(f, D)
  <2>1. IsFiniteSet(D)
    BY <1>2, CountUpTo
  <2> QED BY <1>2, <2>1 DEF Numbered
<1>4. To \in SUBSET D /\ Of \in SUBSET D
  OBVIOUS
<1>5. Multi!AmountTo(batch, a, id) = Total(f, To) /\ Multi!AmountOf(batch, id) = Total(f, Of)
  BY <1>0 DEF Multi!AmountTo, Multi!AmountOf
<1>6. /\ (\A i \in DOMAIN batch : batch[i].to # a) => To = {}
      /\ (\A i \in DOMAIN batch : batch[i].id # id) => Of = {}
  OBVIOUS
<1> HIDE DEF D, f, To, Of
<1>7. Numbered(f, To) /\ Numbered(f, Of)
  BY <1>3, <1>4, NumberedSubset
<1>8. Total(f, To) \in Int /\ Total(f, Of) \in Int /\ (To = {} => Total(f, To) = 0)
      /\ (Of = {} => Total(f, Of) = 0)
  BY <1>7, NumberFacts
<1> QED BY <1>5, <1>6, <1>8

\* Every account holds what the events say.
MultiInv ==
  /\ MultiTypes(holding)
  /\ \A a \in Accounts, id \in Ids : Held(holding, a, id) = toldHolding[<<a, id>>]

LEMMA MultiKept ==
  ASSUME MultiTypes(holding'),
         \A a \in Accounts, id \in Ids : Held(holding', a, id) = toldHolding'[<<a, id>>]
  PROVE  MultiInv'
BY DEF MultiInv, MultiTypes, Held, Shares, Places, Multi!BalanceKeys, Total, MapThenSumSet, MapThenFoldSet

LEMMA MultiStarts == Multi!MultiInit => MultiInv
<1> SUFFICES ASSUME Multi!MultiInit PROVE MultiInv
  OBVIOUS
<1>1. holding = [k \in Multi!BalanceKeys |-> 0] /\ toldHolding = [h \in Accounts \X Ids |-> 0]
  BY DEF Multi!MultiInit
<1>2. MultiTypes(holding)
  BY <1>1 DEF MultiTypes
<1>3. ASSUME NEW a \in Accounts, NEW id \in Ids PROVE Held(holding, a, id) = toldHolding[<<a, id>>]
  <2>1. toldHolding[<<a, id>>] = 0
    BY <1>1
  <2>2. \A i \in Places : Shares(holding, a, id)[i] = 0
    <3>1. \A s \in Accounts : holding[<<a, id, s>>] = 0
      BY <1>1 DEF Multi!BalanceKeys
    <3>2. \A i \in Places : Shares(holding, a, id)[i] = holding[<<a, id, KeyOrder[i]>>]
      BY <1>2, SharesNumbered
    <3>3. ASSUME NEW i \in Places PROVE Shares(holding, a, id)[i] = 0
      <4>1. PICK s \in Accounts : s = KeyOrder[i]
        BY KeyPlaces
      <4>2. holding[<<a, id, s>>] = 0
        BY <3>1
      <4> QED BY <3>2, <4>1, <4>2
    <3> QED BY <3>3
  <2>3. Total(Shares(holding, a, id), Places) = 0
    BY <2>2, KeyPlaces, NumberOfNone
  <2> QED BY <2>1, <2>3 DEF Held
<1> QED BY <1>2, <1>3 DEF MultiInv

Told(from, recipients, batch, a, id) ==
  toldHolding[<<a, id>>]
    + (IF recipients THEN Multi!AmountTo(batch, a, id) ELSE 0)
    - (IF a \in from THEN Multi!AmountOf(batch, id) ELSE 0)

LEMMA EventsTell ==
  ASSUME NEW from, NEW recipients, NEW batch, Multi!Emit(from, recipients, batch),
         NEW a \in Accounts, NEW id \in Ids
  PROVE  toldHolding'[<<a, id>>] = Told(from, recipients, batch, a, id)
<1>1. <<a, id>> \in Accounts \X Ids /\ <<a, id>>[1] = a /\ <<a, id>>[2] = id
  OBVIOUS
<1> DEFINE t(h) == toldHolding[h] + (IF recipients THEN Multi!AmountTo(batch, h[1], h[2]) ELSE 0)
                     - (IF h[1] \in from THEN Multi!AmountOf(batch, h[2]) ELSE 0)
<1>2. toldHolding' = [h \in Accounts \X Ids |-> t(h)]
  BY DEF Multi!Emit
<1>3. toldHolding'[<<a, id>>] = t(<<a, id>>)
  <2> HIDE DEF t
  <2> QED BY <1>1, <1>2
<1>4. t(<<a, id>>) = Told(from, recipients, batch, a, id)
  BY <1>1 DEF Told
<1> QED BY <1>3, <1>4

LEMMA MintIsHeld ==
  ASSUME MultiInv, NEW c \in Accounts, NEW batch \in Multi!Batches, Multi!MintBatch(c, batch)
  PROVE  MultiInv'
<1>1. /\ holding' = [k \in Multi!BalanceKeys |->
            holding[k] + IF k[3] = c THEN Multi!AmountTo(batch, k[1], k[2]) ELSE 0]
      /\ Multi!Emit({}, TRUE, batch)
  BY DEF Multi!MintBatch
<1>2. MultiTypes(holding)
  BY DEF MultiInv
<1>3. ASSUME NEW a \in Accounts, NEW id \in Ids, NEW s \in Accounts
      PROVE  holding'[<<a, id, s>>] = holding[<<a, id, s>>]
                                        + IF s = c THEN Multi!AmountTo(batch, a, id) ELSE 0
  BY <1>1 DEF Multi!BalanceKeys
<1>4. MultiTypes(holding')
  <2>1. ASSUME NEW k \in Multi!BalanceKeys
        PROVE  holding[k] + (IF k[3] = c THEN Multi!AmountTo(batch, k[1], k[2]) ELSE 0) \in Int
    BY <1>2, EntriesAddUp DEF MultiTypes
  <2> QED BY <1>1, <2>1 DEF MultiTypes
<1>5. ASSUME NEW a \in Accounts, NEW id \in Ids
      PROVE  Held(holding', a, id) = toldHolding'[<<a, id>>]
  <2>1. Multi!AmountTo(batch, a, id) \in Int
    BY EntriesAddUp
  <2>2. Held(holding', a, id) = Held(holding, a, id) + Multi!AmountTo(batch, a, id)
    <3>1. Deposited(holding, holding', a, id, c, Multi!AmountTo(batch, a, id))
      BY <1>3 DEF Deposited
    <3> QED BY <1>2, <1>4, <2>1, <3>1, DepositIsHeld
  <2>3. toldHolding'[<<a, id>>] = toldHolding[<<a, id>>]
          + (IF TRUE THEN Multi!AmountTo(batch, a, id) ELSE 0)
          - (IF a \in {} THEN Multi!AmountOf(batch, id) ELSE 0)
    <3>1. Multi!Emit({}, TRUE, batch)
      BY <1>1
    <3>2. toldHolding'[<<a, id>>] = Told({}, TRUE, batch, a, id)
      BY <3>1, EventsTell
    <3> QED BY <3>2 DEF Told
  <2>4. Held(holding, a, id) = toldHolding[<<a, id>>] /\ Held(holding, a, id) \in Int
    BY <1>2, SharesNumbered DEF MultiInv
  <2> QED BY <2>1, <2>2, <2>3, <2>4
<1> QED BY <1>4, <1>5, MultiKept

LEMMA KeysOfBalances ==
  ASSUME NEW k, k = [b \in Multi!BalanceKeys |-> k[b]],
         \A a \in Accounts, id \in Ids, s \in Accounts : k[<<a, id, s>>] \in Int
  PROVE  MultiTypes(k)
BY DEF MultiTypes, Multi!BalanceKeys

LEMMA BurnIsHeld ==
  ASSUME MultiInv, NEW c \in Accounts, NEW batch \in Multi!Batches, Multi!BurnBatch(c, batch)
  PROVE  MultiInv'
<1> DEFINE account == batch[1].to
           burnt == {batch[i].id : i \in DOMAIN batch}
<1>1. /\ holding' = [k \in Multi!BalanceKeys |->
            IF k[1] = account /\ k[2] \in burnt
            THEN Multi!Removed(account, k[2], Multi!AmountOf(batch, k[2]), k[3]) ELSE holding[k]]
      /\ \A id \in burnt : Multi!CanRemove(account, id, Multi!AmountOf(batch, id))
      /\ Multi!Emit({account}, FALSE, batch)
  BY DEF Multi!BurnBatch
<1>2. MultiTypes(holding)
  BY DEF MultiInv
<1>3. ASSUME NEW a \in Accounts, NEW id \in Ids, NEW s \in Accounts
      PROVE  holding'[<<a, id, s>>] =
               IF a = account /\ id \in burnt
               THEN Multi!Removed(a, id, Multi!AmountOf(batch, id), s) ELSE holding[<<a, id, s>>]
  BY <1>1 DEF Multi!BalanceKeys
<1>4. \A id \in Ids : id \notin burnt => \A i \in DOMAIN batch : batch[i].id # id
  OBVIOUS
<1> HIDE DEF account, burnt
<1>5. ASSUME NEW a \in Accounts, NEW id \in Ids, a = account, id \in burnt
      PROVE  /\ \A s \in Accounts : Multi!Removed(a, id, Multi!AmountOf(batch, id), s) \in Int
             /\ MultiTypes(holding') =>
                  Held(holding', a, id) = Held(holding, a, id) - Multi!AmountOf(batch, id)
  <2>1. Multi!AmountOf(batch, id) \in Int
    BY EntriesAddUp
  <2>2. Multi!CanRemove(a, id, Multi!AmountOf(batch, id))
    BY <1>1, <1>5
  <2>3. \A s \in Accounts : holding'[<<a, id, s>>] = Multi!Removed(a, id, Multi!AmountOf(batch, id), s)
    BY <1>3, <1>5
  <2> QED BY <1>2, <2>1, <2>2, <2>3, RemovalIsHeld
<1>6. MultiTypes(holding')
  <2>1. ASSUME NEW a \in Accounts, NEW id \in Ids, NEW s \in Accounts
        PROVE  holding'[<<a, id, s>>] \in Int
    <3>1. holding[<<a, id, s>>] \in Int
      BY <1>2, SharesNumbered
    <3> QED BY <1>3, <1>5, <3>1
  <2>2. holding' = [b \in Multi!BalanceKeys |-> holding'[b]]
    BY <1>1
  <2> QED BY <2>1, <2>2, KeysOfBalances
<1>7. ASSUME NEW a \in Accounts, NEW id \in Ids
      PROVE  Held(holding', a, id) = toldHolding'[<<a, id>>]
  <2>1. Multi!AmountOf(batch, id) \in Int
    BY EntriesAddUp
  <2>2. toldHolding'[<<a, id>>] = toldHolding[<<a, id>>]
          + (IF FALSE THEN Multi!AmountTo(batch, a, id) ELSE 0)
          - (IF a \in {account} THEN Multi!AmountOf(batch, id) ELSE 0)
    <3>1. Multi!Emit({account}, FALSE, batch)
      BY <1>1
    <3>2. toldHolding'[<<a, id>>] = Told({account}, FALSE, batch, a, id)
      BY <3>1, EventsTell
    <3> QED BY <3>2 DEF Told
  <2>3. Held(holding, a, id) = toldHolding[<<a, id>>] /\ Held(holding, a, id) \in Int
    BY <1>2, SharesNumbered DEF MultiInv
  <2>4. CASE a = account /\ id \in burnt
    BY <1>5, <1>6, <2>1, <2>2, <2>3, <2>4
  <2>5. CASE ~(a = account /\ id \in burnt)
    <3>1. Held(holding', a, id) = Held(holding, a, id)
      <4>1. \A s \in Accounts : holding'[<<a, id, s>>] = holding[<<a, id, s>>]
        BY <1>3, <2>5
      <4> QED BY <4>1, KeptIsHeld
    <3>2. a = account => Multi!AmountOf(batch, id) = 0
      BY <1>4, <2>5, EntriesAddUp
    <3> QED BY <2>1, <2>2, <2>3, <3>1, <3>2
  <2> QED BY <2>4, <2>5
<1> QED BY <1>6, <1>7, MultiKept

LEMMA TransferIsHeld ==
  ASSUME MultiInv, NEW c \in Accounts, NEW sender \in Accounts, NEW batch \in Multi!Batches,
         Multi!BatchTransferFromMultiRecipient(c, sender, batch)
  PROVE  MultiInv'
<1> DEFINE given == {batch[i].id : i \in DOMAIN batch}
<1>1. /\ holding' = [k \in Multi!BalanceKeys |->
            IF k[1] = sender
            THEN IF k[2] \in given
                 THEN Multi!Removed(sender, k[2], Multi!AmountOf(batch, k[2]), k[3]) ELSE holding[k]
            ELSE holding[k] + IF k[3] = sender THEN Multi!AmountTo(batch, k[1], k[2]) ELSE 0]
      /\ \A i \in DOMAIN batch : batch[i].to # sender
      /\ \A id \in given : Multi!CanRemove(sender, id, Multi!AmountOf(batch, id))
      /\ Multi!Emit({sender}, TRUE, batch)
  BY DEF Multi!BatchTransferFromMultiRecipient
<1>2. MultiTypes(holding)
  BY DEF MultiInv
<1>3. ASSUME NEW a \in Accounts, NEW id \in Ids, NEW s \in Accounts
      PROVE  holding'[<<a, id, s>>] =
               IF a = sender
               THEN IF id \in given
                    THEN Multi!Removed(a, id, Multi!AmountOf(batch, id), s) ELSE holding[<<a, id, s>>]
               ELSE holding[<<a, id, s>>] + IF s = sender THEN Multi!AmountTo(batch, a, id) ELSE 0
  BY <1>1 DEF Multi!BalanceKeys
<1>4. \A id \in Ids : id \notin given => \A i \in DOMAIN batch : batch[i].id # id
  OBVIOUS
<1> HIDE DEF given
<1>5. ASSUME NEW id \in Ids, id \in given
      PROVE  /\ \A s \in Accounts : Multi!Removed(sender, id, Multi!AmountOf(batch, id), s) \in Int
             /\ MultiTypes(holding') =>
                  Held(holding', sender, id) = Held(holding, sender, id) - Multi!AmountOf(batch, id)
  <2>1. Multi!AmountOf(batch, id) \in Int
    BY EntriesAddUp
  <2>2. Multi!CanRemove(sender, id, Multi!AmountOf(batch, id))
    BY <1>1, <1>5
  <2>3. \A s \in Accounts :
          holding'[<<sender, id, s>>] = Multi!Removed(sender, id, Multi!AmountOf(batch, id), s)
    BY <1>3, <1>5
  <2> QED BY <1>2, <2>1, <2>2, <2>3, RemovalIsHeld
<1>6. MultiTypes(holding')
  <2>1. ASSUME NEW a \in Accounts, NEW id \in Ids, NEW s \in Accounts
        PROVE  holding'[<<a, id, s>>] \in Int
    <3>1. holding[<<a, id, s>>] \in Int /\ Multi!AmountTo(batch, a, id) \in Int
      BY <1>2, SharesNumbered, EntriesAddUp
    <3>2. CASE a = sender
      BY <1>3, <1>5, <3>1, <3>2
    <3>3. CASE a # sender
      <4>1. holding'[<<a, id, s>>]
              = holding[<<a, id, s>>] + IF s = sender THEN Multi!AmountTo(batch, a, id) ELSE 0
        BY <1>3, <3>3
      <4> QED BY <3>1, <4>1
    <3> QED BY <3>2, <3>3
  <2>2. holding' = [b \in Multi!BalanceKeys |-> holding'[b]]
    BY <1>1
  <2> QED BY <2>1, <2>2, KeysOfBalances
<1>7. ASSUME NEW a \in Accounts, NEW id \in Ids
      PROVE  Held(holding', a, id) = toldHolding'[<<a, id>>]
  <2>1. Multi!AmountOf(batch, id) \in Int /\ Multi!AmountTo(batch, a, id) \in Int
    BY EntriesAddUp
  <2>2. toldHolding'[<<a, id>>] = toldHolding[<<a, id>>]
          + (IF TRUE THEN Multi!AmountTo(batch, a, id) ELSE 0)
          - (IF a \in {sender} THEN Multi!AmountOf(batch, id) ELSE 0)
    <3>1. Multi!Emit({sender}, TRUE, batch)
      BY <1>1
    <3>2. toldHolding'[<<a, id>>] = Told({sender}, TRUE, batch, a, id)
      BY <3>1, EventsTell
    <3> QED BY <3>2 DEF Told
  <2>3. Held(holding, a, id) = toldHolding[<<a, id>>] /\ Held(holding, a, id) \in Int
    BY <1>2, SharesNumbered DEF MultiInv
  <2>4. CASE a = sender
    <3>1. Multi!AmountTo(batch, a, id) = 0
      BY <1>1, <2>4, EntriesAddUp
    <3>2. Held(holding', a, id) = Held(holding, a, id) - Multi!AmountOf(batch, id)
      <4>1. CASE id \in given
        BY <1>5, <1>6, <2>4, <4>1
      <4>2. CASE id \notin given
        <5>1. \A s \in Accounts : holding'[<<a, id, s>>] = holding[<<a, id, s>>]
          BY <1>3, <2>4, <4>2
        <5>2. Held(holding', a, id) = Held(holding, a, id)
          BY <5>1, KeptIsHeld
        <5>3. Multi!AmountOf(batch, id) = 0
          BY <1>4, <4>2, EntriesAddUp
        <5> QED BY <2>3, <5>2, <5>3
      <4> QED BY <4>1, <4>2
    <3> QED BY <2>1, <2>2, <2>3, <2>4, <3>1, <3>2
  <2>5. CASE a # sender
    <3>1. \A s \in Accounts :
            holding'[<<a, id, s>>]
              = holding[<<a, id, s>>] + IF s = sender THEN Multi!AmountTo(batch, a, id) ELSE 0
      BY <1>3, <2>5
    <3>2. Held(holding', a, id) = Held(holding, a, id) + Multi!AmountTo(batch, a, id)
      <4>1. Deposited(holding, holding', a, id, sender, Multi!AmountTo(batch, a, id))
        BY <3>1 DEF Deposited
      <4> QED BY <1>2, <1>6, <2>1, <4>1, DepositIsHeld
    <3> QED BY <2>1, <2>2, <2>3, <2>5, <3>2
  <2> QED BY <2>4, <2>5
<1> QED BY <1>6, <1>7, MultiKept

MultiSpec == Multi!MultiInit /\ [][Multi!MultiNext]_(Multi!multiVars)

LEMMA MultiGoesOn == MultiInv /\ [Multi!MultiNext]_(Multi!multiVars) => MultiInv'
<1> SUFFICES ASSUME MultiInv, [Multi!MultiNext]_(Multi!multiVars) PROVE MultiInv'
  OBVIOUS
<1>1. ASSUME UNCHANGED <<holding, toldHolding>> PROVE MultiInv'
  <2>1. /\ MultiTypes(holding')
        /\ \A a \in Accounts, id \in Ids : Held(holding', a, id) = toldHolding'[<<a, id>>]
    BY <1>1 DEF MultiInv
  <2> QED BY <2>1, MultiKept
<1>2. ASSUME NEW c, Multi!Initialize(c) PROVE MultiInv'
  BY <1>1, <1>2 DEF Multi!Initialize
<1>3. ASSUME NEW c, NEW o, NEW v, Multi!SetApprovalForAll(c, o, v) PROVE MultiInv'
  BY <1>1, <1>3 DEF Multi!SetApprovalForAll
<1>4. CASE UNCHANGED Multi!multiVars
  BY <1>1, <1>4 DEF Multi!multiVars
<1>5. CASE Multi!MultiNext
  BY <1>2, <1>3, <1>5, MintIsHeld, BurnIsHeld, TransferIsHeld DEF Multi!MultiNext
<1> QED BY <1>4, <1>5

\* However the units of token-erc-1155 are spread over keys, no call makes or
\* loses any: an account holds what the events say it does.
THEOREM EventsTellHoldings == MultiSpec => []Multi!HoldingsFollowEvents
<1>1. MultiInv => Multi!HoldingsFollowEvents
  <2>1. ASSUME MultiInv, NEW a \in Accounts, NEW id \in Ids
        PROVE  Multi!Balance(a, id) = toldHolding[<<a, id>>]
    <3>1. MultiTypes(holding) /\ 0 \in 0..Len(KeyOrder)
      BY <2>1, KeyPlaces DEF MultiInv
    <3>2. Multi!Balance(a, id) = Held(holding, a, id)
      BY <3>1, MultiSums
    <3> QED BY <2>1, <3>2 DEF MultiInv
  <2> QED BY <2>1 DEF Multi!HoldingsFollowEvents
<1> QED BY <1>1, MultiStarts, MultiGoesOn, PTL DEF MultiSpec

-----------------------------------------------------------------------------
(* auction-dutch: one price for all winners.                                  *)

DutchSpec == Dutch!LotInit /\ [][Dutch!LotNext]_(Dutch!lotVars)

LotRecord == {"seller", "quantity", "orgs", "privateBids", "revealedBids", "winners", "price",
              "status", "auditor"}
LotBids == [org : {MSP(c) : c \in Clients}, quantity : Quantities, price : Prices, buyer : Clients]

\* What a list of winners gives to a bid, and to all; what the bids R ask for.
Got(w, b) == Total([i \in DOMAIN w |-> w[i].quantity], {i \in DOMAIN w : w[i].bid = b})
GotInAll(w) == Total([i \in DOMAIN w |-> w[i].quantity], DOMAIN w)
AskedFor(bids, R) == Total([b \in R |-> bids[b].quantity], R)

\* A price p and winners w clear the market of the bids R for Q units.
ClearsAt(w, p, Q, R, bids) ==
  /\ GotInAll(w) = IF AskedFor(bids, R) < Q THEN AskedFor(bids, R) ELSE Q
  /\ \A b \in R :
       /\ bids[b].price > p => Got(w, b) = bids[b].quantity
       /\ bids[b].price < p => Got(w, b) = 0
       /\ \A d \in R : bids[b].price = bids[d].price /\ bids[b].quantity < bids[d].quantity
                         /\ Got(w, d) > 0 => Got(w, b) = bids[b].quantity

\* No bid above the price is hidden in a collection of those who endorsed.
NoneHidden(l, bids, who) ==
  \A b \in l.privateBids \ l.revealedBids : bids[b].price > l.price => bids[b].org \notin who /\ l.auditor

\* The policy names the participants, and they include whoever submitted a bid.
LotOK(l, policy, bids) ==
  /\ DOMAIN l = LotRecord
  /\ l.quantity \in Nat \ {0}
  /\ l.revealedBids \subseteq l.privateBids /\ l.privateBids \subseteq DOMAIN bids
  /\ policy.orgs = l.orgs /\ policy.auditor = l.auditor
  /\ \A b \in l.privateBids : bids[b].org \in l.orgs

LotEnded(l, bids, who) ==
  l.status = "ended" =>
    ClearsAt(l.winners, l.price, l.quantity, l.revealedBids, bids) /\ NoneHidden(l, bids, who)

LotInv ==
  /\ lotBids \in Seq(LotBids)
  /\ lot # Nothing => LotOK(lot, lotPolicy, lotBids) /\ LotEnded(lot, lotBids, signers)

LEMMA LotStarts == Dutch!LotInit => LotInv
BY DEF Dutch!LotInit, LotInv

\* The bids of an auction are finitely many, with positive quantities.
LEMMA LotFacts ==
  ASSUME LotInv, lot # Nothing
  PROVE  /\ IsFiniteSet(lot.revealedBids)
         /\ lot.quantity \in Nat \ {0}
         /\ \A b \in DOMAIN lotBids : lotBids[b].quantity \in Nat \ {0} /\ lotBids[b].price \in Int
         /\ \A b \in lot.privateBids : b \in DOMAIN lotBids
         /\ \A b \in lot.revealedBids : b \in DOMAIN lotBids
<1>1. Len(lotBids) \in Nat /\ DOMAIN lotBids = 1..Len(lotBids)
  BY DEF LotInv
<1>2. lot.revealedBids \in SUBSET (1..Len(lotBids))
  BY <1>1 DEF LotInv, LotOK
<1>3. IsFiniteSet(lot.revealedBids)
  BY <1>1, <1>2, CountUpTo, FS_Subset
<1>4. \A b \in DOMAIN lotBids : lotBids[b] \in LotBids
  BY <1>1 DEF LotInv
<1>5. Quantities \subseteq Nat \ {0} /\ Prices \subseteq Int
  BY SamplesAssumption
<1>6. \A b \in DOMAIN lotBids : lotBids[b].quantity \in Nat \ {0} /\ lotBids[b].price \in Int
  BY <1>4, <1>5 DEF LotBids
<1> QED BY <1>1, <1>2, <1>3, <1>6 DEF LotInv, LotOK

LEMMA MinMaxOfTwo ==
  ASSUME NEW x \in Int, NEW y \in Int
  PROVE  /\ Dutch!Min({x, y}) = IF x < y THEN x ELSE y
         /\ Dutch!Max({x, y}) = IF y > x THEN y ELSE x
<1>1. Dutch!Min({x, y}) = IF x < y THEN x ELSE y
  <2> DEFINE m == IF x < y THEN x ELSE y
             P(v) == v \in {x, y} /\ \A u \in {x, y} : v <= u
  <2>1. P(m) /\ \A v : P(v) => v = m
    OBVIOUS
  <2>2. (CHOOSE v : P(v)) = m
    <3> HIDE DEF P, m
    <3> QED BY <2>1
  <2> QED BY <2>2 DEF Dutch!Min
<1>2. Dutch!Max({x, y}) = IF y > x THEN y ELSE x
  <2> DEFINE m == IF y > x THEN y ELSE x
             P(v) == v \in {x, y} /\ \A u \in {x, y} : v >= u
  <2>1. P(m) /\ \A v : P(v) => v = m
    OBVIOUS
  <2>2. (CHOOSE v : P(v)) = m
    <3> HIDE DEF P, m
    <3> QED BY <2>1
  <2> QED BY <2>2 DEF Dutch!Max
<1> QED BY <1>1, <1>2

LEMMA DutchSums == \A f, S : /\ Dutch!FoldFunctionOnSet(+, 0, f, S) = Total(f, S)
                             /\ Dutch!FoldFunction(+, 0, f) = Total(f, DOMAIN f)
BY DEF Dutch!FoldFunction, Dutch!FoldFunctionOnSet, Dutch!MapThenFoldSet, Total, MapThenSumSet, MapThenFoldSet

\* A ranking of the revealed bids.
LEMMA RankedBids ==
  ASSUME LotInv, lot # Nothing, NEW s \in Dutch!Ranked
  PROVE  \E L \in Nat :
           /\ s \in [1..L -> lot.revealedBids]
           /\ EachOnce(s, L)
           /\ lot.revealedBids = {s[i] : i \in 1..L}
           /\ \A i, j \in 1..L : i < j => ~Dutch!Before(s[j], s[i])
<1> DEFINE R == lot.revealedBids
           L == Cardinality(R)
<1>1. IsFiniteSet(R) /\ L \in Nat
  BY LotFacts, FS_CardinalityType
<1>2. Dutch!Cardinality(R) = L
  BY DEF Dutch!Cardinality, Cardinality
<1>3. /\ s \in [1..L -> R]
      /\ \A i, j \in 1..L : i # j => s[i] # s[j]
      /\ \A i, j \in DOMAIN s : i < j => ~Dutch!Before(s[j], s[i])
  BY <1>2 DEF Dutch!Ranked, Dutch!SetToSeqs
<1>4. s \in Surjection(1..L, R)
  <2>1. s \in Injection(1..L, R)
    BY <1>3 DEF Injection, IsInjective
  <2>2. IsFiniteSet(1..L) /\ Cardinality(1..L) = Cardinality(R)
    <3>1. IsFiniteSet(1..L) /\ Cardinality(1..L) = L
      BY <1>1, CountUpTo, Zenon
    <3> QED BY <3>1
  <2> HIDE DEF L, R
  <2> QED BY <1>1, <2>1, <2>2, FS_Injection
<1>5. R = {s[i] : i \in 1..L}
  BY <1>3, <1>4 DEF Surjection
<1> QED BY <1>1, <1>3, <1>5 DEF EachOnce

\* What the bids of a ranking ask for, one after another.
Quants(s, L) == [k \in 1..L |-> lotBids[s[k]].quantity]

\* The winners w are the first K bids of s, and get the amounts r.
Gives(w, K, s, r) == w = [i \in 1..K |-> [bid |-> s[i], quantity |-> r[i]]]

\* The first K of the ranking reach the quantity, and win what is left for each.
FirstWin(K, s, L, g) ==
  /\ Reaches(K, L, g, lot.quantity)
  /\ Dutch!PriceOf(s) = lotBids[s[K]].price
  /\ Gives(Dutch!WinnersOf(s), K, s, CutList(K, Quants(s, L), g, lot.quantity))

LEMMA WinnersAre ==
  ASSUME NEW L \in Nat, NEW s, DOMAIN s = 1..L, Quants(s, L) \in [1..L -> Nat \ {0}], L > 0,
         lot.quantity \in Nat \ {0}, NEW g, Sums(g, L, Quants(s, L))
  PROVE  \E K \in 1..L : FirstWin(K, s, L, g)
<1> DEFINE a == Quants(s, L)
           Q == lot.quantity
           w == Dutch!WinnersOf(s)
<1>1. g \in [0..L -> Nat] /\ \A k \in 1..L : a[k] \in Nat \ {0} /\ a[k] = lotBids[s[k]].quantity
  BY DEF Sums, Quants
<1>2. ASSUME NEW i \in 0..L PROVE Dutch!Remaining(s, i) = IF Q - g[i] > 0 THEN Q - g[i] ELSE 0
  <2>1. [k \in DOMAIN s |-> lotBids[s[k]].quantity] = a
    BY DEF Quants
  <2>2. Dutch!FoldFunctionOnSet(+, 0, a, 1..i) = Total(a, 1..i)
    BY DutchSums
  <2>3. a \in [1..L -> Nat]
    BY <1>1 DEF Quants
  <2>4. Total(a, 1..i) = g[i]
    <3>1. Sums(g, L, a)
      OBVIOUS
    <3> HIDE DEF a
    <3> QED BY <2>3, <3>1, FirstOnesAddUp
  <2>5. Dutch!Remaining(s, i) = Dutch!Max({0, Q - g[i]})
    BY <2>1, <2>2, <2>4 DEF Dutch!Remaining
  <2>6. 0 \in Int /\ Q - g[i] \in Int
    BY <1>1
  <2> QED BY <2>5, <2>6, MinMaxOfTwo
<1> HIDE DEF a, Q, w
<1>3. PICK K \in 0..L : /\ {n \in 1..L : g[n - 1] < Q} = 1..K
                        /\ Cardinality({n \in 1..L : g[n - 1] < Q}) = K
                        /\ Reaches(K, L, g, Q)
                        /\ L > 0 => K > 0
  BY FirstPlaces DEF a, Q
<1>4. K \in 1..L /\ Q \in Nat
  BY <1>3 DEF Q
<1>5. {k \in DOMAIN s : Dutch!Remaining(s, k - 1) > 0} = {n \in 1..L : g[n - 1] < Q}
  <2>1. ASSUME NEW k \in 1..L PROVE Dutch!Remaining(s, k - 1) > 0 <=> g[k - 1] < Q
    <3>1. k - 1 \in 0..L /\ g[k - 1] \in Nat
      BY <1>1
    <3>2. Dutch!Remaining(s, k - 1) = IF Q - g[k - 1] > 0 THEN Q - g[k - 1] ELSE 0
      BY <1>2, <3>1
    <3> QED BY <1>4, <3>1, <3>2
  <2> QED BY <2>1
<1>6. Dutch!Cardinality({k \in DOMAIN s : Dutch!Remaining(s, k - 1) > 0}) = K
  <2>1. \A S : Dutch!Cardinality(S) = Cardinality(S)
    BY DEF Dutch!Cardinality, Cardinality
  <2> QED BY <1>3, <1>5, <2>1
<1>7. w = [i \in 1..K |-> [bid |-> s[i],
                           quantity |-> Dutch!Min({lotBids[s[i]].quantity, Dutch!Remaining(s, i - 1)})]]
  BY <1>6 DEF w, Dutch!WinnersOf
<1>8. ASSUME NEW i \in 1..K
      PROVE  Dutch!Min({lotBids[s[i]].quantity, Dutch!Remaining(s, i - 1)}) = CutList(K, a, g, Q)[i]
  <2>1. i \in 1..L /\ i - 1 \in 0..L /\ g[i - 1] \in Nat /\ a[i] \in Nat \ {0}
    BY <1>1, <1>4
  <2>2. g[i - 1] < Q
    BY <1>3
  <2>3. Dutch!Remaining(s, i - 1) = Q - g[i - 1]
    BY <1>2, <1>4, <2>1, <2>2
  <2>4. a[i] \in Int /\ Q - g[i - 1] \in Int
    BY <1>4, <2>1
  <2>5. Dutch!Min({a[i], Q - g[i - 1]}) = IF a[i] < Q - g[i - 1] THEN a[i] ELSE Q - g[i - 1]
    BY <2>4, MinMaxOfTwo
  <2> QED BY <1>1, <2>1, <2>3, <2>5 DEF CutList
<1>9. w = [i \in 1..K |-> [bid |-> s[i], quantity |-> CutList(K, a, g, Q)[i]]]
  BY <1>7, <1>8
<1>10. Len(w) = K
  BY <1>4, <1>9
<1>11. Dutch!PriceOf(s) = lotBids[s[K]].price
  BY <1>10 DEF Dutch!PriceOf, w
<1>12. FirstWin(K, s, L, g)
  BY <1>3, <1>9, <1>11 DEF FirstWin, Gives, a, Q, w
<1> QED BY <1>4, <1>12

\* What the bid at place j of a list of winners gets.
LEMMA GotAt ==
  ASSUME NEW K \in Nat, NEW L \in Nat, K <= L, NEW s, EachOnce(s, L), NEW r, \A i \in 1..K : r[i] \in Nat,
         NEW w, Gives(w, K, s, r), NEW j \in 1..L
  PROVE  Got(w, s[j]) = IF j <= K THEN r[j] ELSE 0
<1> DEFINE f == [i \in DOMAIN w |-> w[i].quantity]
           T == {i \in DOMAIN w : w[i].bid = s[j]}
<1>1. DOMAIN w = 1..K /\ \A i \in 1..K : w[i].bid = s[i] /\ w[i].quantity = r[i]
  BY DEF Gives
<1>2. \A i \in 1..K : s[i] = s[j] => i = j
  BY DEF EachOnce
<1>3. j <= K => T = {j} /\ f[j] = r[j] /\ r[j] \in Nat
  BY <1>1, <1>2
<1>4. ~(j <= K) => T = {}
  BY <1>1, <1>2
<1> HIDE DEF f, T
<1>5. j <= K => Total(f, T) = r[j]
  BY <1>3, TotalOfOne
<1>6. Summable(f, {}) /\ Total(f, {}) = 0
  <2>1. Summable(f, {})
    BY FS_EmptySet DEF Summable
  <2> QED BY <2>1, TotalFacts
<1> QED BY <1>4, <1>5, <1>6 DEF Got, f, T

\* The price that EndAuction takes, and its winners.
LEMMA RankingClears ==
  ASSUME LotInv, lot # Nothing, lot.revealedBids # {}, NEW s \in Dutch!Ranked
  PROVE  /\ ClearsAt(Dutch!WinnersOf(s), Dutch!PriceOf(s), lot.quantity, lot.revealedBids, lotBids)
         /\ Dutch!PriceOf(s) \in Int
<1> DEFINE R == lot.revealedBids
           Q == lot.quantity
           w == Dutch!WinnersOf(s)
           p == Dutch!PriceOf(s)
<1>1. /\ IsFiniteSet(R) /\ Q \in Nat \ {0}
      /\ \A b \in R : lotBids[b].quantity \in Nat \ {0} /\ lotBids[b].price \in Int
  BY LotFacts
<1>2. PICK L \in Nat : /\ s \in [1..L -> R]
                       /\ EachOnce(s, L)
                       /\ R = {s[i] : i \in 1..L}
                       /\ \A i, j \in 1..L : i < j => ~Dutch!Before(s[j], s[i])
  BY RankedBids
<1> DEFINE a == Quants(s, L)
<1>3. /\ L > 0 /\ DOMAIN s = 1..L /\ a \in [1..L -> Nat \ {0}] /\ a \in [1..L -> Nat]
      /\ \A k \in 1..L : a[k] = lotBids[s[k]].quantity /\ s[k] \in R
  <2>1. L # 0
    <3>1. PICK b : b \in R
      OBVIOUS
    <3>2. 1..0 = {}
      OBVIOUS
    <3> HIDE DEF R
    <3> QED BY <1>2, <3>1, <3>2
  <2>2. DOMAIN s = 1..L /\ \A k \in 1..L : s[k] \in R
    <3> HIDE DEF R
    <3> QED BY <1>2
  <2>3. \A k \in 1..L : lotBids[s[k]].quantity \in Nat \ {0}
    <3> HIDE DEF R
    <3> QED BY <1>1, <2>2
  <2>4. a = [k \in 1..L |-> lotBids[s[k]].quantity]
    BY DEF Quants
  <2> HIDE DEF a, R
  <2> QED BY <2>1, <2>2, <2>3, <2>4
<1>4. PICK g : Sums(g, L, a)
  <2> HIDE DEF a
  <2> QED BY <1>3, SumsExist
<1>5. PICK K \in 1..L : FirstWin(K, s, L, g)
  <2>1. /\ DOMAIN s = 1..L /\ L > 0 /\ Quants(s, L) \in [1..L -> Nat \ {0}]
        /\ Sums(g, L, Quants(s, L)) /\ lot.quantity \in Nat \ {0}
    BY <1>1, <1>3, <1>4
  <2> HIDE DEF a, Q, R, p, w
  <2> QED BY <2>1, WinnersAre
<1> DEFINE r == CutList(K, a, g, Q)
<1>9. /\ Reaches(K, L, g, Q)
      /\ p = lotBids[s[K]].price
      /\ Gives(w, K, s, r)
  BY <1>5 DEF FirstWin
<1> HIDE DEF a, Q, w, p
<1>6. Fits(r, K, L, a, g, Q)
  <2> DEFINE q == CutList(K, a, g, Q)
  <2>1. q = CutList(K, a, g, Q)
    OBVIOUS
  <2> HIDE DEF q
  <2>2. Fits(q, K, L, a, g, Q)
    BY <1>1, <1>3, <1>4, <1>9, <1>5, <2>1, CutToFit DEF Q
  <2> QED BY <2>1, <2>2
<1>7. /\ \A n \in 1..K : r[n] \in 1..a[n] /\ r[n] \in Nat \ {0} /\ (n < K => r[n] = a[n])
      /\ DOMAIN r = 1..K
  <2>1. DOMAIN r = 1..K
    BY DEF CutList
  <2>2. \A n \in 1..K : a[n] \in Nat
    BY <1>3
  <2> HIDE DEF r
  <2> QED BY <1>6, <2>1, <2>2 DEF Fits
<1>8. PICK h : Sums(h, K, r) /\ h[K] = IF g[L] < Q THEN g[L] ELSE Q
  BY <1>6 DEF Fits
<1>10. r = [i \in 1..K |-> r[i]]
  BY DEF CutList
<1> HIDE DEF r
<1>11. GotInAll(w) = IF AskedFor(lotBids, R) < Q THEN AskedFor(lotBids, R) ELSE Q
  <2>1. [i \in DOMAIN w |-> w[i].quantity] = r /\ DOMAIN w = 1..K
    BY <1>9, <1>10 DEF Gives
  <2>2. r \in [1..K -> Nat] /\ K \in Nat /\ K \in 0..K
    BY <1>7, <1>10
  <2>3. Total(r, 1..K) = h[K]
    <3> HIDE DEF r
    <3> QED BY <1>8, <2>2, FirstOnesAddUp
  <2>4. GotInAll(w) = h[K]
    BY <2>1, <2>3 DEF GotInAll
  <2> DEFINE f == [b \in R |-> lotBids[b].quantity]
  <2>5. Summable(f, R) /\ a = [i \in 1..L |-> f[s[i]]]
    BY <1>1, <1>3 DEF Summable
  <2> HIDE DEF f
  <2>6. ListAdds(f, s, L, g)
    BY <1>2, <1>4, <2>5, ListAddsUp
  <2>7. Total(f, R) = g[L]
    BY <1>2, <2>6 DEF ListAdds
  <2> QED BY <1>8, <2>4, <2>7 DEF AskedFor, f
<1>12. ASSUME NEW j \in 1..L PROVE Got(w, s[j]) = IF j <= K THEN r[j] ELSE 0
  <2>1. K \in Nat /\ K <= L
    BY <1>9, <1>5
  <2>2. \A i \in 1..K : r[i] \in Nat
    BY <1>7
  <2>3. Gives(w, K, s, r)
    BY <1>9
  <2>4. EachOnce(s, L)
    BY <1>2
  <2> HIDE DEF r, R
  <2> QED BY <2>1, <2>2, <2>3, <2>4, GotAt
<1>13. ASSUME NEW j \in 1..L PROVE j < K => Got(w, s[j]) = lotBids[s[j]].quantity
  <2>1. ASSUME j < K PROVE Got(w, s[j]) = lotBids[s[j]].quantity
    <3>1. j \in 1..K /\ j <= K
      BY <1>9, <1>5, <2>1
    <3>2. r[j] = a[j]
      BY <1>7, <2>1, <3>1
    <3>3. Got(w, s[j]) = r[j]
      BY <1>12, <3>1
    <3> QED BY <1>3, <3>2, <3>3
  <2> QED BY <2>1
<1>14. ASSUME NEW j \in 1..L PROVE Got(w, s[j]) > 0 => j <= K
  BY <1>9, <1>5, <1>12
<1>15. ASSUME NEW b \in R, NEW d \in R
       PROVE  /\ lotBids[b].price > p => Got(w, b) = lotBids[b].quantity
              /\ lotBids[b].price < p => Got(w, b) = 0
              /\ lotBids[b].price = lotBids[d].price /\ lotBids[b].quantity < lotBids[d].quantity
                   /\ Got(w, d) > 0 => Got(w, b) = lotBids[b].quantity
  <2>1. PICK j \in 1..L, m \in 1..L : b = s[j] /\ d = s[m]
    BY <1>2
  <2>2. /\ lotBids[b].price \in Int /\ lotBids[d].price \in Int /\ p \in Int
        /\ lotBids[b].quantity \in Nat /\ lotBids[d].quantity \in Nat
    BY <1>1, <1>3, <1>9, <1>5
  <2>3. \A x, y : Dutch!Before(x, y) <=>
          \/ lotBids[x].price > lotBids[y].price
          \/ lotBids[x].price = lotBids[y].price /\ lotBids[x].quantity < lotBids[y].quantity
    BY DEF Dutch!Before
  <2>4. lotBids[b].price > p => j < K
    <3>1. ASSUME lotBids[b].price > p, ~(j < K) PROVE FALSE
      <4>1. j # K
        BY <1>9, <1>5, <2>1, <2>2, <3>1
      <4>2. K < j
        BY <1>9, <1>5, <3>1, <4>1
      <4>3. ~Dutch!Before(s[j], s[K])
        BY <1>2, <1>9, <1>5, <4>2
      <4> QED BY <1>9, <1>5, <2>1, <2>3, <3>1, <4>3
    <3> QED BY <3>1
  <2>5. lotBids[b].price < p => ~(j <= K)
    <3>1. ASSUME lotBids[b].price < p, j <= K PROVE FALSE
      <4>1. j # K
        BY <1>9, <1>5, <2>1, <2>2, <3>1
      <4>2. j < K
        BY <1>9, <1>5, <3>1, <4>1
      <4>3. ~Dutch!Before(s[K], s[j])
        BY <1>2, <1>9, <1>5, <4>2
      <4> QED BY <1>9, <1>5, <2>1, <2>2, <2>3, <3>1, <4>3
    <3> QED BY <3>1
  <2>6. lotBids[b].price = lotBids[d].price /\ lotBids[b].quantity < lotBids[d].quantity
          /\ Got(w, d) > 0 => j < K
    <3>1. ASSUME lotBids[b].price = lotBids[d].price, lotBids[b].quantity < lotBids[d].quantity,
                 Got(w, d) > 0
          PROVE  j < K
      <4>1. m <= K
        BY <1>14, <2>1, <3>1
      <4>2. Dutch!Before(s[j], s[m])
        BY <2>1, <2>3, <3>1
      <4>3. ~(m < j)
        BY <1>2, <4>2
      <4>4. j # m
        BY <2>1, <2>2, <3>1
      <4> QED BY <1>9, <1>5, <4>1, <4>3, <4>4
    <3> QED BY <3>1
  <2> QED BY <1>12, <1>13, <2>1, <2>4, <2>5, <2>6
<1>16. p \in Int
  BY <1>1, <1>3, <1>9
<1> QED BY <1>11, <1>15, <1>16 DEF ClearsAt, w, p, Q

\* A step keeps the invariant when the auction it leaves is in order.
LEMMA LotKept ==
  ASSUME lotBids' \in Seq(LotBids),
         lot' # Nothing => LotOK(lot', lotPolicy', lotBids') /\ LotEnded(lot', lotBids', signers')
  PROVE  LotInv'
BY DEF LotInv

LEMMA LotCreated ==
  ASSUME LotInv, NEW c \in Clients, NEW q \in Quantities, NEW a \in BOOLEAN, Dutch!CreateAuction(c, q, a)
  PROVE  LotInv'
<1>1. /\ DOMAIN lot' = LotRecord /\ lot'.quantity = q /\ lot'.orgs = {MSP(c)}
      /\ lot'.privateBids = {} /\ lot'.revealedBids = {} /\ lot'.status = "open" /\ lot'.auditor = a
      /\ lotPolicy' = [orgs |-> {MSP(c)}, auditor |-> a] /\ lotBids' = lotBids
  BY DEF Dutch!CreateAuction, Dutch!setAssetStateBasedEndorsement, LotRecord
<1>2. LotOK(lot', lotPolicy', lotBids')
  BY <1>1, SamplesAssumption DEF LotOK
<1>3. LotEnded(lot', lotBids', signers')
  BY <1>1 DEF LotEnded
<1> QED BY <1>1, <1>2, <1>3, LotKept DEF LotInv

LEMMA LotCloses ==
  ASSUME LotInv, NEW c \in Clients, Dutch!CloseAuction(c) PROVE LotInv'
<1>1. DOMAIN lot = LotRecord /\ LotOK(lot, lotPolicy, lotBids)
  BY DEF Dutch!CloseAuction, LotInv, LotOK
<1>2. /\ DOMAIN lot' = LotRecord /\ lot'.quantity = lot.quantity /\ lot'.orgs = lot.orgs
      /\ lot'.privateBids = lot.privateBids /\ lot'.revealedBids = lot.revealedBids
      /\ lot'.status = "closed" /\ lot'.auditor = lot.auditor
      /\ lotPolicy' = lotPolicy /\ lotBids' = lotBids
  BY <1>1 DEF Dutch!CloseAuction, LotRecord
<1>3. LotOK(lot', lotPolicy', lotBids')
  BY <1>1, <1>2 DEF LotOK
<1>4. LotEnded(lot', lotBids', signers')
  BY <1>2 DEF LotEnded
<1> QED BY <1>2, <1>3, <1>4, LotKept DEF LotInv

\* Bids that are left as they were clear the market as before.
LEMMA SameBidsClear ==
  ASSUME NEW w, NEW p, NEW Q, NEW R, NEW old, NEW new, \A b \in R : new[b] = old[b],
         ClearsAt(w, p, Q, R, old)
  PROVE  ClearsAt(w, p, Q, R, new)
<1>1. [b \in R |-> new[b].quantity] = [b \in R |-> old[b].quantity]
  OBVIOUS
<1>2. AskedFor(new, R) = AskedFor(old, R)
  BY <1>1 DEF AskedFor
<1> QED BY <1>2 DEF ClearsAt

\* A bid is put after the others, which stay as they were.
LEMMA LotBidPut ==
  ASSUME LotInv, NEW c \in Clients, NEW q \in Quantities, NEW p \in Prices, NEW buyer \in Clients,
         Dutch!Bid(c, q, p, buyer)
  PROVE  LotInv'
<1> DEFINE added == [org |-> MSP(c), quantity |-> q, price |-> p, buyer |-> buyer]
<1>1. added \in LotBids
  BY DEF LotBids
<1>2. lotBids' = Append(lotBids, added) /\ UNCHANGED <<lot, lotPolicy, signers>>
  BY DEF Dutch!Bid
<1>3. lotBids \in Seq(LotBids)
  BY DEF LotInv
<1> HIDE DEF added
<1>4. /\ lotBids' \in Seq(LotBids) /\ DOMAIN lotBids \subseteq DOMAIN lotBids'
      /\ \A b \in DOMAIN lotBids : lotBids'[b] = lotBids[b]
  BY <1>1, <1>2, <1>3
<1>5. ASSUME lot' # Nothing
      PROVE  LotOK(lot', lotPolicy', lotBids') /\ LotEnded(lot', lotBids', signers')
  <2>1. lot # Nothing /\ lot' = lot /\ lotPolicy' = lotPolicy /\ signers' = signers
    BY <1>2, <1>5
  <2>2. LotOK(lot, lotPolicy, lotBids) /\ LotEnded(lot, lotBids, signers)
    BY <2>1 DEF LotInv
  <2>3. /\ \A b \in lot.privateBids : lotBids'[b] = lotBids[b]
        /\ \A b \in lot.revealedBids : lotBids'[b] = lotBids[b]
    BY <1>4, <2>2 DEF LotOK
  <2>4. LotOK(lot, lotPolicy, lotBids')
    BY <1>4, <2>2, <2>3 DEF LotOK
  <2>5. ASSUME lot.status = "ended"
        PROVE  /\ ClearsAt(lot.winners, lot.price, lot.quantity, lot.revealedBids, lotBids')
               /\ NoneHidden(lot, lotBids', signers)
    <3>1. /\ ClearsAt(lot.winners, lot.price, lot.quantity, lot.revealedBids, lotBids)
          /\ NoneHidden(lot, lotBids, signers)
      BY <2>2, <2>5 DEF LotEnded
    <3>2. ClearsAt(lot.winners, lot.price, lot.quantity, lot.revealedBids, lotBids')
      BY <2>3, <3>1, SameBidsClear
    <3>3. NoneHidden(lot, lotBids', signers)
      BY <2>3, <3>1 DEF NoneHidden
    <3> QED BY <3>2, <3>3
  <2> QED BY <2>1, <2>4, <2>5 DEF LotEnded
<1> QED BY <1>4, <1>5, LotKept

\* The organization of a submitted bid is a participant, and in the policy.
LEMMA LotBidSubmitted ==
  ASSUME LotInv, NEW c \in Clients, NEW b \in DOMAIN lotBids, Dutch!SubmitBid(c, b)
  PROVE  LotInv'
<1>1. DOMAIN lot = LotRecord /\ LotOK(lot, lotPolicy, lotBids) /\ lot # Nothing
  BY DEF Dutch!SubmitBid, LotInv, LotOK
<1>2. /\ DOMAIN lot' = LotRecord /\ lot'.quantity = lot.quantity /\ lot'.orgs = lot.orgs \cup {MSP(c)}
      /\ lot'.privateBids = lot.privateBids \cup {b} /\ lot'.revealedBids = lot.revealedBids
      /\ lot'.status = "open" /\ lot'.auditor = lot.auditor
      /\ lotBids' = lotBids /\ lotBids[b].org = MSP(c)
  BY <1>1 DEF Dutch!SubmitBid, LotRecord
<1>3. lotPolicy'.orgs = lot.orgs \cup {MSP(c)} /\ lotPolicy'.auditor = lot.auditor
  <2>1. CASE MSP(c) \in lot.orgs
    BY <1>1, <2>1 DEF Dutch!SubmitBid, LotOK
  <2>2. CASE MSP(c) \notin lot.orgs
    BY <1>1, <2>2 DEF Dutch!SubmitBid, Dutch!setAssetStateBasedEndorsement
  <2> QED BY <2>1, <2>2
<1>4. LotOK(lot', lotPolicy', lotBids')
  BY <1>1, <1>2, <1>3 DEF LotOK
<1>5. LotEnded(lot', lotBids', signers')
  BY <1>2 DEF LotEnded
<1> QED BY <1>2, <1>4, <1>5, LotKept DEF LotInv

LEMMA LotBidRevealed ==
  ASSUME LotInv, NEW c \in Clients, NEW b \in DOMAIN lotBids, Dutch!RevealBid(c, b)
  PROVE  LotInv'
<1>1. DOMAIN lot = LotRecord /\ LotOK(lot, lotPolicy, lotBids) /\ lot.status = "closed"
  BY DEF Dutch!RevealBid, LotInv, LotOK
<1>2. /\ DOMAIN lot' = LotRecord /\ lot'.quantity = lot.quantity /\ lot'.orgs = lot.orgs
      /\ lot'.privateBids = lot.privateBids /\ lot'.revealedBids = lot.revealedBids \cup {b}
      /\ lot'.status = "closed" /\ lot'.auditor = lot.auditor /\ b \in lot.privateBids
      /\ lotPolicy' = lotPolicy /\ lotBids' = lotBids
  BY <1>1 DEF Dutch!RevealBid, LotRecord
<1>3. LotOK(lot', lotPolicy', lotBids')
  BY <1>1, <1>2 DEF LotOK
<1>4. LotEnded(lot', lotBids', signers')
  BY <1>2 DEF LotEnded
<1> QED BY <1>2, <1>3, <1>4, LotKept DEF LotInv

\* A bid above the price is hidden only in a collection that no endorser read,
\* which an auditor in the policy allows.
LEMMA LotEnds ==
  ASSUME LotInv, NEW c \in Clients, Dutch!EndAuction(c) PROVE LotInv'
<1>1. DOMAIN lot = LotRecord /\ LotOK(lot, lotPolicy, lotBids) /\ lot # Nothing /\ lot.revealedBids # {}
  BY DEF Dutch!EndAuction, LotInv, LotOK
<1>2. PICK s \in Dutch!Ranked, orgs \in Dutch!Endorsers :
        /\ \A org \in orgs \cup IF orgs # lotPolicy.orgs THEN {Auditor} ELSE {} :
             Dutch!checkForHigherBid(org, Dutch!PriceOf(s))
        /\ lot' = [lot EXCEPT !.winners = Dutch!WinnersOf(s), !.price = Dutch!PriceOf(s), !.status = "ended"]
        /\ signers' = orgs
  BY DEF Dutch!EndAuction
<1>3. lotPolicy' = lotPolicy /\ lotBids' = lotBids
  BY DEF Dutch!EndAuction
<1>4. ClearsAt(Dutch!WinnersOf(s), Dutch!PriceOf(s), lot.quantity, lot.revealedBids, lotBids)
  BY <1>1, RankingClears
<1>5. \A b \in lot.revealedBids \cup lot.privateBids : lotBids[b].price \in Int
  BY <1>1, LotFacts
<1>6. Dutch!PriceOf(s) \in Int
  BY <1>1, RankingClears
<1> DEFINE w == Dutch!WinnersOf(s)
           p == Dutch!PriceOf(s)
<1>7. \A org \in orgs, b \in lot.privateBids \ lot.revealedBids : lotBids[b].org = org => lotBids[b].price <= p
  BY <1>2 DEF Dutch!checkForHigherBid
<1> HIDE DEF w, p
<1>8. /\ DOMAIN lot' = LotRecord /\ lot'.quantity = lot.quantity /\ lot'.orgs = lot.orgs
      /\ lot'.privateBids = lot.privateBids /\ lot'.revealedBids = lot.revealedBids
      /\ lot'.auditor = lot.auditor /\ lot'.winners = w /\ lot'.price = p
  BY <1>1, <1>2 DEF LotRecord, w, p
<1>9. LotOK(lot', lotPolicy', lotBids')
  BY <1>1, <1>3, <1>8 DEF LotOK
<1>10. NoneHidden(lot', lotBids', signers')
  <2>1. orgs = lotPolicy.orgs \/ lotPolicy.auditor
    BY DEF Dutch!Endorsers
  <2>2. ASSUME NEW b \in lot.privateBids \ lot.revealedBids, lotBids[b].price > p
        PROVE  lotBids[b].org \notin orgs /\ lot.auditor
    <3>1. lotBids[b].org \notin orgs
      BY <1>5, <1>6, <1>7, <2>2 DEF p
    <3>2. lotBids[b].org \in lotPolicy.orgs /\ (lotPolicy.auditor => lot.auditor)
      BY <1>1 DEF LotOK
    <3> QED BY <2>1, <3>1, <3>2
  <2> QED BY <1>2, <1>3, <1>8, <2>2 DEF NoneHidden
<1>11. LotEnded(lot', lotBids', signers')
  BY <1>3, <1>4, <1>8, <1>10 DEF LotEnded, w, p
<1> QED BY <1>3, <1>9, <1>11, LotKept DEF LotInv

LEMMA LotGoesOn == LotInv /\ [Dutch!LotNext]_(Dutch!lotVars) => LotInv'
<1> SUFFICES ASSUME LotInv, [Dutch!LotNext]_(Dutch!lotVars) PROVE LotInv'
  OBVIOUS
<1>1. CASE UNCHANGED Dutch!lotVars
  BY <1>1 DEF Dutch!lotVars, LotInv
<1>2. CASE Dutch!LotNext
  BY <1>2, LotCreated, LotCloses, LotBidPut, LotBidSubmitted, LotBidRevealed, LotEnds DEF Dutch!LotNext
<1> QED BY <1>1, <1>2

(* An auction-dutch that has ended cleared the market of the revealed bids,   *)
(* and no bid above the price was hidden from those who endorsed the end: a   *)
(* lower price, a larger bid served before a smaller one of its price, or a   *)
(* hidden higher bid is impossible, for any participants, bids and order.     *)
THEOREM MarketClears == DutchSpec => []Dutch!AuctionClearsMarket
<1>1. ASSUME LotInv PROVE Dutch!AuctionClearsMarket
  <2>1. SUFFICES ASSUME lot # Nothing, lot.status = "ended"
                 PROVE  Dutch!AuctionClearsMarket
    BY DEF Dutch!AuctionClearsMarket
  <2>2. /\ ClearsAt(lot.winners, lot.price, lot.quantity, lot.revealedBids, lotBids)
        /\ NoneHidden(lot, lotBids, signers)
    BY <1>1, <2>1 DEF LotInv, LotEnded
  <2>3. Dutch!Sold = GotInAll(lot.winners) /\ \A b : Dutch!Served(b) = Got(lot.winners, b)
    BY DutchSums DEF Dutch!Sold, Dutch!Served, GotInAll, Got
  <2>4. Dutch!FoldFunction(+, 0, [b \in lot.revealedBids |-> lotBids[b].quantity])
          = AskedFor(lotBids, lot.revealedBids)
    BY DutchSums DEF AskedFor
  <2>5. AskedFor(lotBids, lot.revealedBids) \in Int /\ lot.quantity \in Int
    <3> DEFINE f == [b \in lot.revealedBids |-> lotBids[b].quantity]
    <3>1. Summable(f, lot.revealedBids)
      BY <1>1, <2>1, LotFacts DEF Summable
    <3>2. Total(f, lot.revealedBids) \in Nat
      <4> HIDE DEF f
      <4> QED BY <3>1, TotalFacts
    <3> QED BY <1>1, <2>1, <3>2, LotFacts DEF AskedFor
  <2>6. Dutch!Min({lot.quantity, AskedFor(lotBids, lot.revealedBids)}) = GotInAll(lot.winners)
    BY <2>2, <2>5, MinMaxOfTwo DEF ClearsAt
  <2> QED BY <2>2, <2>3, <2>4, <2>6 DEF Dutch!AuctionClearsMarket, ClearsAt, NoneHidden
<1> QED BY <1>1, LotStarts, LotGoesOn, PTL DEF DutchSpec

-----------------------------------------------------------------------------
(* All contracts, when only one of them runs.                                 *)

\* What happens to a contract is one of its calls, or nothing.
LEMMA EachGoesOn ==
  [SamplesNext]_samplesVars
    => /\ [NftNext]_nftVars /\ [Coin!CoinNext]_(Coin!coinVars) /\ [Multi!MultiNext]_(Multi!multiVars)
       /\ [Utxo!UtxoNext]_(Utxo!utxoVars) /\ [Simple!SaleNext]_(Simple!saleVars)
       /\ [Dutch!LotNext]_(Dutch!lotVars) /\ [DeedNext]_deedVars
       /\ [Private!ItemNext]_(Private!itemVars) /\ [Delta!DeltaNext]_(Delta!deltaVars)
       /\ [MarblesNext]_marbleVars /\ [Swaps!SwapNext]_(Swaps!swapVars)
<1> SUFFICES ASSUME [SamplesNext]_samplesVars
    PROVE  /\ [NftNext]_nftVars /\ [Coin!CoinNext]_(Coin!coinVars) /\ [Multi!MultiNext]_(Multi!multiVars)
           /\ [Utxo!UtxoNext]_(Utxo!utxoVars) /\ [Simple!SaleNext]_(Simple!saleVars)
           /\ [Dutch!LotNext]_(Dutch!lotVars) /\ [DeedNext]_deedVars
           /\ [Private!ItemNext]_(Private!itemVars) /\ [Delta!DeltaNext]_(Delta!deltaVars)
           /\ [MarblesNext]_marbleVars /\ [Swaps!SwapNext]_(Swaps!swapVars)
  OBVIOUS
<1> USE DEF samplesVars, SamplesNext
<1>1. [NftNext]_nftVars
  OBVIOUS
<1>2. [Coin!CoinNext]_(Coin!coinVars)
  BY DEF coinState, Coin!coinVars
<1>3. [Multi!MultiNext]_(Multi!multiVars)
  BY DEF multiState, Multi!multiVars
<1>4. [Utxo!UtxoNext]_(Utxo!utxoVars)
  BY DEF utxoState, Utxo!utxoVars
<1>5. [Simple!SaleNext]_(Simple!saleVars)
  BY DEF simpleState, Simple!saleVars
<1>6. [Dutch!LotNext]_(Dutch!lotVars)
  BY DEF dutchState, Dutch!lotVars
<1>7. [DeedNext]_deedVars
  OBVIOUS
<1>8. [Private!ItemNext]_(Private!itemVars)
  BY DEF privateState, Private!itemVars
<1>9. [Delta!DeltaNext]_(Delta!deltaVars)
  BY DEF deltaState, Delta!deltaVars
<1>10. [MarblesNext]_marbleVars
  OBVIOUS
<1>11. [Swaps!SwapNext]_(Swaps!swapVars)
  BY DEF swapState, Swaps!swapVars
<1> QED BY <1>1, <1>2, <1>3, <1>4, <1>5, <1>6, <1>7, <1>8, <1>9, <1>10, <1>11

\* Transfers of private assets and changes of swaps have the consent of the
\* parties concerned: both contracts, for any clients, organizations and values.
THEOREM ConsentIsNeeded == SamplesSpec => NothingWithoutConsent
<1>1. SamplesInit => Private!ItemInit /\ Swaps!SwapInit
  BY DEF SamplesInit
<1>2. [Swaps!PartiesConsent]_(Swaps!swapVars) /\ [Private!OneTransferPerAgreement]_(Private!itemVars)
      => [Private!OneTransferPerAgreement /\ Swaps!PartiesConsent]_samplesVars
  BY DEF Swaps!swapVars, Swaps!PartiesConsent, Private!itemVars, Private!OneTransferPerAgreement
<1> QED BY <1>1, <1>2, EachGoesOn, SwapsNeedConsent, AgreementsAreUsedOnce, PTL
        DEF SamplesSpec, SwapSpec, PrivateSpec, NothingWithoutConsent

\* The books of the four token contracts balance, each as its own theorem says,
\* for any accounts, amounts and lists and however many calls: the supply of
\* token-erc-20, the keys of token-erc-1155, the outputs of token-utxo and the
\* rows of high-throughput.
THEOREM BooksAlwaysBalance == SamplesSpec => []BooksBalance
<1>1. SamplesInit => /\ Coin!CoinInit /\ Multi!MultiInit /\ Utxo!UtxoInit /\ Delta!DeltaInit
  BY DEF SamplesInit
<1>2. /\ Coin!SupplyIsBalances /\ Multi!HoldingsFollowEvents
      /\ Utxo!ValueIsConserved /\ Delta!ValueIsSumOfUpdates
      => BooksBalance
  BY DEF BooksBalance
<1> QED BY <1>1, <1>2, EachGoesOn, SupplyAddsUp, EventsTellHoldings, ValueStays, RowsAddUp, PTL
        DEF SamplesSpec, CoinSpec, MultiSpec, UtxoSpec, DeltaSpec

\* The blind auctions sell to the best bids, each as its own theorem says, for
\* any organizations, prices and quantities and however many bids.
THEOREM BestBidsAlwaysWin == SamplesSpec => []BestBidsWin
<1>1. SamplesInit => Simple!SaleInit /\ Dutch!LotInit
  BY DEF SamplesInit
<1>2. Simple!HighestBidWins /\ Dutch!AuctionClearsMarket => BestBidsWin
  BY DEF BestBidsWin
<1>3. SimpleSpec => []Simple!HighestBidWins
  BY SamplesAssumption, HighestBidsWin
<1> QED BY <1>1, <1>2, <1>3, EachGoesOn, MarketClears, PTL
        DEF SamplesSpec, SimpleSpec, DutchSpec

=============================================================================
