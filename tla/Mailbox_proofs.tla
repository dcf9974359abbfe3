--------------------------- MODULE Mailbox_proofs ---------------------------
(***************************************************************************)
(* What Mailbox keeps, for any accounts, keys, letters and parameters; and *)
(* what the outbox of a phone keeps until a letter gets there (Carry), for *)
(* any phones, letters, hops and limits.                                   *)
(***************************************************************************)
EXTENDS Mailbox, Carry, FiniteSetTheorems, SequenceTheorems, TLAPS

\* What a record says of its keys agrees with its rotations.
BoxFits(box, h) ==
  LET n == Len(box.rotations)
  IN /\ box.registered_height <= h
     /\ \A i \in 1..n : box.rotations[i].height <= h
     /\ n = 0 => box.registration_enc_pub = None /\ box.prev_enc_pub = None
     /\ n > 0 => /\ box.registration_enc_pub # None
                 /\ box.rotations[n].enc_pub = box.enc_pub
                 /\ box.rotations[n].height = box.enc_since
                 /\ box.prev_enc_pub = KeyAt(box, n - 1)

BoxesFit == \A a \in DOMAIN boxes : BoxFits(boxes[a], height)

LettersPast == \A l \in letters : l.height <= height

IInv == TypeOK /\ BoxesFit /\ LettersPast /\ SealedToLiveKey

----------------------------------------------------------------------------
(* Records. *)

\* A new registration makes a well-typed record.
LEMMA NewBoxType ==
  ASSUME NEW h \in Nat, NEW key \in Keys, NEW name \in Name
  PROVE  NewBox(h, key, name) \in Box
BY DEF NewBox, Box

\* What a rotation changes of a record, and what it leaves.
LEMMA RotatedFields ==
  ASSUME height \in Nat, NEW box \in Box, NEW t \in Tx, t.type = "rotate"
  PROVE  LET new == Rotated(box, t) IN
         /\ new \in Box
         /\ new.registered_height = box.registered_height
         /\ new.registration_enc_pub
              = IF box.registration_enc_pub = None THEN box.enc_pub
                ELSE box.registration_enc_pub
         /\ new.prev_enc_pub = box.enc_pub
         /\ new.enc_pub = t.key
         /\ new.enc_since = height
         /\ new.rotations = Append(box.rotations, RotationOf(t))
         /\ new.former_names = box.former_names
         /\ RotationOf(t) \in Rotation
         /\ RotationOf(t).enc_pub = t.key /\ RotationOf(t).height = height
         /\ RotationOf(t).backup = t.backup
<1> DEFINE r == RotationOf(t)
<1>0. /\ t.key \in Keys /\ t.backup \in BOOLEAN
  BY DEF Tx
<1>1. r \in Rotation /\ r.enc_pub = t.key /\ r.height = height /\ r.backup = t.backup
  BY <1>0 DEF RotationOf, Rotation
<1> HIDE DEF r
<1>2. Append(box.rotations, r) \in Seq(Rotation)
  BY <1>1 DEF Box
<1> DEFINE b1 == [box EXCEPT !.registration_enc_pub = IF @ = None THEN box.enc_pub ELSE @]
           b2 == [b1 EXCEPT !.prev_enc_pub = box.enc_pub]
           b3 == [b2 EXCEPT !.enc_pub = t.key]
           b4 == [b3 EXCEPT !.enc_since = height]
           b5 == [b4 EXCEPT !.rotations = Append(@, r)]
<1>3. Rotated(box, t) = b5
  BY DEF Rotated, r
<1>4. /\ b1 \in Box
      /\ b1.registration_enc_pub
           = IF box.registration_enc_pub = None THEN box.enc_pub
             ELSE box.registration_enc_pub
      /\ b1.registered_height = box.registered_height
      /\ b1.rotations = box.rotations
      /\ b1.former_names = box.former_names
  BY DEF Box
<1> HIDE DEF b1
<1>5. /\ b2 \in Box
      /\ b2.prev_enc_pub = box.enc_pub
      /\ b2.registration_enc_pub = b1.registration_enc_pub
      /\ b2.registered_height = b1.registered_height
      /\ b2.rotations = b1.rotations
      /\ b2.former_names = b1.former_names
  BY <1>4 DEF Box
<1> HIDE DEF b2
<1>6. /\ b3 \in Box
      /\ b3.enc_pub = t.key
      /\ b3.prev_enc_pub = b2.prev_enc_pub
      /\ b3.registration_enc_pub = b2.registration_enc_pub
      /\ b3.registered_height = b2.registered_height
      /\ b3.rotations = b2.rotations
      /\ b3.former_names = b2.former_names
  BY <1>0, <1>5 DEF Box
<1> HIDE DEF b3
<1>7. /\ b4 \in Box
      /\ b4.enc_since = height
      /\ b4.enc_pub = b3.enc_pub
      /\ b4.prev_enc_pub = b3.prev_enc_pub
      /\ b4.registration_enc_pub = b3.registration_enc_pub
      /\ b4.registered_height = b3.registered_height
      /\ b4.rotations = b3.rotations
      /\ b4.former_names = b3.former_names
  BY <1>6 DEF Box
<1> HIDE DEF b4
<1>8. b4.rotations = box.rotations
  BY <1>4, <1>5, <1>6, <1>7, Zenon
<1>9. /\ b5 \in Box
      /\ b5.rotations = Append(box.rotations, r)
      /\ b5.enc_since = b4.enc_since
      /\ b5.enc_pub = b4.enc_pub
      /\ b5.prev_enc_pub = b4.prev_enc_pub
      /\ b5.registration_enc_pub = b4.registration_enc_pub
      /\ b5.registered_height = b4.registered_height
      /\ b5.former_names = b4.former_names
  BY <1>2, <1>7, <1>8 DEF Box
<1> HIDE DEF b5
<1>10. /\ b5.registered_height = box.registered_height
       /\ b5.registration_enc_pub
            = IF box.registration_enc_pub = None THEN box.enc_pub
              ELSE box.registration_enc_pub
       /\ b5.prev_enc_pub = box.enc_pub
       /\ b5.enc_pub = t.key
       /\ b5.enc_since = height
       /\ b5.former_names = box.former_names
  BY <1>4, <1>5, <1>6, <1>7, <1>9, Zenon
<1> QED
  BY <1>1, <1>3, <1>9, <1>10, Zenon DEF r

\* Former names: the new one at the end, and no more than the bound of them.
LEMMA RenamedFields ==
  ASSUME height \in Nat, MaxFormerNames \in Nat \ {0}, NEW box \in Box,
         NEW name \in Name, Len(box.former_names) <= MaxFormerNames
  PROVE  LET new == Renamed(box, name) IN
         /\ new \in Box
         /\ Len(new.former_names) <= MaxFormerNames
         /\ new.registered_height = box.registered_height
         /\ new.registration_enc_pub = box.registration_enc_pub
         /\ new.prev_enc_pub = box.prev_enc_pub
         /\ new.enc_pub = box.enc_pub
         /\ new.enc_since = box.enc_since
         /\ new.rotations = box.rotations
<1> DEFINE f == [name |-> box.name, until |-> height]
           names == Append(box.former_names, f)
           k == Kept(names)
           b1 == [box EXCEPT !.former_names = k]
           b2 == [b1 EXCEPT !.name = name]
           b3 == [b2 EXCEPT !.renamed_height = height]
<1>1. f \in FormerName
  BY DEF FormerName, Box
<1> HIDE DEF f
<1>2. names \in Seq(FormerName) /\ Len(names) = Len(box.former_names) + 1
  BY <1>1 DEF Box
<1> HIDE DEF names
<1>3. k \in Seq(FormerName) /\ Len(k) <= MaxFormerNames
  <2>1. CASE Len(names) > MaxFormerNames
    <3>1. names # << >>
      BY <2>1, <1>2
    <3>2. Tail(names) \in Seq(FormerName) /\ Len(Tail(names)) = Len(names) - 1
      BY <1>2, <3>1, HeadTailProperties
    <3> QED
      BY <1>2, <2>1, <3>2 DEF Kept, Box
  <2>2. CASE ~(Len(names) > MaxFormerNames)
    BY <1>2, <2>2 DEF Kept
  <2> QED
    BY <2>1, <2>2
<1>4. Renamed(box, name) = b3
  BY DEF Renamed, names, f
<1> HIDE DEF k
<1>5. /\ b1 \in Box
      /\ b1.former_names = k
      /\ b1.registered_height = box.registered_height
      /\ b1.registration_enc_pub = box.registration_enc_pub
      /\ b1.prev_enc_pub = box.prev_enc_pub
      /\ b1.enc_pub = box.enc_pub
      /\ b1.enc_since = box.enc_since
      /\ b1.rotations = box.rotations
  BY <1>3 DEF Box
<1> HIDE DEF b1
<1>6. /\ b2 \in Box
      /\ b2.former_names = b1.former_names
      /\ b2.registered_height = b1.registered_height
      /\ b2.registration_enc_pub = b1.registration_enc_pub
      /\ b2.prev_enc_pub = b1.prev_enc_pub
      /\ b2.enc_pub = b1.enc_pub
      /\ b2.enc_since = b1.enc_since
      /\ b2.rotations = b1.rotations
  BY <1>5 DEF Box
<1> HIDE DEF b2
<1>7. /\ b3 \in Box
      /\ b3.former_names = b2.former_names
      /\ b3.registered_height = b2.registered_height
      /\ b3.registration_enc_pub = b2.registration_enc_pub
      /\ b3.prev_enc_pub = b2.prev_enc_pub
      /\ b3.enc_pub = b2.enc_pub
      /\ b3.enc_since = b2.enc_since
      /\ b3.rotations = b2.rotations
  BY <1>6 DEF Box
<1> HIDE DEF b3
<1>8. b3.former_names = k
  BY <1>5, <1>6, <1>7, Zenon
<1>9. Len(b3.former_names) <= MaxFormerNames
  BY <1>3, <1>8
<1> QED
  BY <1>4, <1>5, <1>6, <1>7, <1>9, Zenon

----------------------------------------------------------------------------
(* Key histories. *)

\* A key that was live at a height stays so when the account rotates later.
LEMMA RotatedKeepsLive ==
  ASSUME height \in Nat, KeyGrace \in Nat, None \notin Keys,
         NEW box \in Box, BoxFits(box, height),
         NEW t \in Tx, t.type = "rotate",
         NEW key, NEW h \in Nat, h <= height, Live(box, key, h)
  PROVE  Live(Rotated(box, t), key, h)
<1> DEFINE new == Rotated(box, t)
           n == Len(box.rotations)
           r == RotationOf(t)
<1>1. /\ new.registration_enc_pub
           = IF box.registration_enc_pub = None THEN box.enc_pub
             ELSE box.registration_enc_pub
      /\ new.rotations = Append(box.rotations, r)
      /\ r \in Rotation /\ r.height = height
  BY RotatedFields
<1>2. box.rotations \in Seq(Rotation) /\ n \in Nat /\ box.enc_pub \in Keys
  BY DEF Box
<1> HIDE DEF new, r
<1>3. /\ Len(new.rotations) = n + 1
      /\ \A i \in 1..n : new.rotations[i] = box.rotations[i]
      /\ new.rotations[n + 1] = r
  BY <1>1, <1>2
<1>4. PICK i \in 0..n :
        /\ KeyAt(box, i) = key
        /\ i > 0 => box.rotations[i].height <= h
        /\ i < n => h <= box.rotations[i + 1].height + KeyGrace
  BY DEF Live
<1>5. KeyAt(new, i) = key
  BY <1>1, <1>2, <1>3, <1>4 DEF KeyAt
<1>6. i > 0 => new.rotations[i].height <= h
  BY <1>2, <1>3, <1>4
<1>7. h <= new.rotations[i + 1].height + KeyGrace
  <2>1. CASE i < n
    BY <1>2, <1>3, <1>4, <2>1
  <2>2. CASE i = n
    BY <1>1, <1>3, <2>2
  <2> QED
    BY <1>2, <2>1, <2>2
<1>8. i \in 0..Len(new.rotations)
  BY <1>2, <1>3
<1> QED
  BY <1>5, <1>6, <1>7, <1>8 DEF Live, new

\* The key a letter is accepted for is live in the block that accepts it.
LEMMA AcceptedIsLive ==
  ASSUME height \in Nat, KeyGrace \in Nat, None \notin Keys,
         NEW box \in Box, BoxFits(box, height), NEW key \in Keys,
         \/ key = box.enc_pub
         \/ key = box.prev_enc_pub /\ height - box.enc_since <= KeyGrace
  PROVE  Live(box, key, height)
<1> DEFINE n == Len(box.rotations)
<1>a. /\ box.rotations \in Seq(Rotation) /\ n \in Nat
      /\ box.enc_since \in Nat
  BY DEF Box
<1>b. \A i \in 1..n : box.rotations[i] \in Rotation
  BY <1>a
<1>1. /\ box.rotations \in Seq(Rotation) /\ n \in Nat
      /\ box.enc_since \in Nat
      /\ \A i \in 1..n : box.rotations[i].height \in Nat
  BY <1>a, <1>b DEF Rotation
<1>2. CASE key = box.enc_pub
  <2>1. KeyAt(box, n) = key
    BY <1>1, <1>2 DEF KeyAt, BoxFits
  <2>2. n > 0 => box.rotations[n].height <= height
    BY <1>1 DEF BoxFits
  <2> QED
    BY <1>1, <2>1, <2>2 DEF Live
<1>3. CASE key = box.prev_enc_pub /\ height - box.enc_since <= KeyGrace
  <2>1. n > 0
    BY <1>1, <1>3 DEF BoxFits
  <2>2. KeyAt(box, n - 1) = key
    BY <1>3, <2>1 DEF BoxFits
  <2>3. n - 1 > 0 => box.rotations[n - 1].height <= height
    BY <1>1, <2>1 DEF BoxFits
  <2>4. height <= box.rotations[n].height + KeyGrace
    BY <1>1, <1>3, <2>1 DEF BoxFits
  <2>5. n - 1 \in 0..n /\ (n - 1) + 1 = n
    BY <1>1, <2>1
  <2> QED
    BY <2>2, <2>3, <2>4, <2>5 DEF Live
<1> QED
  BY <1>2, <1>3

\* A record agrees with its rotations after one more.
LEMMA RotatedFits ==
  ASSUME height \in Nat, None \notin Keys, NEW box \in Box, BoxFits(box, height),
         NEW t \in Tx, t.type = "rotate"
  PROVE  BoxFits(Rotated(box, t), height)
<1> DEFINE new == Rotated(box, t)
           n == Len(box.rotations)
           r == RotationOf(t)
<1>1. /\ new.registered_height = box.registered_height
      /\ new.registration_enc_pub
           = IF box.registration_enc_pub = None THEN box.enc_pub
             ELSE box.registration_enc_pub
      /\ new.prev_enc_pub = box.enc_pub
      /\ new.enc_pub = t.key
      /\ new.enc_since = height
      /\ new.rotations = Append(box.rotations, r)
      /\ r.enc_pub = t.key /\ r.height = height
  BY RotatedFields
<1>2. box.rotations \in Seq(Rotation) /\ n \in Nat /\ box.enc_pub \in Keys
  BY DEF Box
<1> HIDE DEF new, r
<1>3. /\ Len(new.rotations) = n + 1
      /\ \A i \in 1..n : new.rotations[i] = box.rotations[i]
      /\ new.rotations[n + 1] = r
  BY <1>1, <1>2
<1>4. new.registered_height <= height
  BY <1>1 DEF BoxFits
<1>5. \A i \in 1..(n + 1) : new.rotations[i].height <= height
  BY <1>1, <1>2, <1>3 DEF BoxFits
<1>6. new.registration_enc_pub # None
  BY <1>1, <1>2
<1>7. KeyAt(new, n) = box.enc_pub
  BY <1>1, <1>2, <1>3 DEF KeyAt, BoxFits
<1>8. BoxFits(new, height)
  BY <1>1, <1>2, <1>3, <1>4, <1>5, <1>6, <1>7 DEF BoxFits
<1> QED
  BY <1>8 DEF new

----------------------------------------------------------------------------
(* Types. *)

\* A wallet made from the words is well typed.
LEMMA WalletFromWords ==
  ASSUME NEW a \in Accounts
  PROVE  FromWords(a) \in Wallet
BY MailboxAssumption DEF FromWords, Wallet

\* Genesis and the first wallets are well typed.
LEMMA InitType == ASSUME Init PROVE TypeOK
<1>1. boxes \in [DOMAIN boxes -> Box] /\ DOMAIN boxes = Genesis
  BY NewBoxType, MailboxAssumption DEF Init
<1>2. \A a \in DOMAIN boxes : Len(boxes[a].former_names) <= MaxFormerNames
  BY MailboxAssumption, <1>1 DEF Init, NewBox
<1>3. wallet \in [Accounts -> Wallet]
  BY WalletFromWords DEF Init
<1>4. used \subseteq Keys \cup LetterId
  BY MailboxAssumption DEF Init
<1>5. pending \in [Accounts -> Seq(Tx)]
  BY DEF Init
<1>6. doing \in [Accounts -> Work]
  BY DEF Init, Work
<1> QED
  BY <1>1, <1>2, <1>3, <1>4, <1>5, <1>6, MailboxAssumption DEF Init, TypeOK

\* The transaction that enters the block, and what is left to wait.
LEMMA TakenType ==
  ASSUME TypeOK, NEW a \in Accounts, NEW type, TakeNext(a, type)
  PROVE  /\ Head(pending[a]) \in Tx /\ Head(pending[a]).type = type
         /\ pending' \in [Accounts -> Seq(Tx)]
<1>1. pending[a] \in Seq(Tx) /\ pending[a] # << >>
  BY DEF TypeOK, TakeNext
<1>2. Head(pending[a]) \in Tx /\ Tail(pending[a]) \in Seq(Tx)
  BY <1>1, HeadTailProperties
<1> QED
  BY <1>2 DEF TakeNext, TypeOK

\* A queue is well typed after a post.
LEMMA PostedType ==
  ASSUME TypeOK, NEW a \in Accounts, NEW t \in Tx, Post(a, t)
  PROVE  pending' \in [Accounts -> Seq(Tx)]
<1>1. Append(pending[a], t) \in Seq(Tx)
  BY DEF TypeOK
<1> QED
  BY <1>1 DEF Post, TypeOK

\* A transaction names a key, and what a client is in the middle of is one.
LEMMA WorkFields ==
  ASSUME TypeOK, NEW a \in Accounts, doing[a].op \in {"post", "keep"}
  PROVE  doing[a].tx \in Tx /\ doing[a].tx.key \in Keys
<1>1. doing[a] \in Work /\ doing[a] # Idle
  BY DEF TypeOK, Idle
<1>2. doing[a].tx \in Tx
  BY <1>1 DEF Work
<1> QED
  BY <1>2 DEF Tx

\* Registration keeps the types.
LEMMA RegisterType ==
  ASSUME TypeOK, NEW a \in Accounts, NEW name \in Name, Register(a, name)
  PROVE  TypeOK'
<1> DEFINE new == NewBox(height, wallet[a].current, name)
<1>1. new \in Box /\ Len(new.former_names) <= MaxFormerNames
  <2>1. wallet[a].current \in Keys /\ height \in Nat
    BY DEF TypeOK, Wallet
  <2> QED
    BY <2>1, NewBoxType, MailboxAssumption DEF NewBox
<1> HIDE DEF new
<1>2. /\ DOMAIN boxes' = DOMAIN boxes \cup {a}
      /\ boxes'[a] = new
      /\ \A x \in DOMAIN boxes : x # a => boxes'[x] = boxes[x]
      /\ boxes' = [x \in DOMAIN boxes' |-> boxes'[x]]
  BY DEF Register, new
<1>3. \A x \in DOMAIN boxes' : boxes'[x] \in Box /\ Len(boxes'[x].former_names) <= MaxFormerNames
  BY <1>1, <1>2 DEF TypeOK
<1>4. DOMAIN boxes' \subseteq Accounts /\ boxes' \in [DOMAIN boxes' -> Box]
  BY <1>2, <1>3, Zenon DEF TypeOK
<1> QED
  BY <1>3, <1>4 DEF Register, TypeOK, clientVars

\* Two actions replace the record of one registered account.
LEMMA BoxReplaced ==
  ASSUME TypeOK, NEW a \in DOMAIN boxes, NEW new \in Box,
         Len(new.former_names) <= MaxFormerNames,
         boxes' = [boxes EXCEPT ![a] = new]
  PROVE  /\ DOMAIN boxes' = DOMAIN boxes /\ DOMAIN boxes' \subseteq Accounts
         /\ boxes' \in [DOMAIN boxes' -> Box]
         /\ \A x \in DOMAIN boxes' : Len(boxes'[x].former_names) <= MaxFormerNames
BY DEF TypeOK

\* So does a new name,
LEMMA RenameType ==
  ASSUME TypeOK, NEW a \in Accounts, NEW name \in Name, Rename(a, name)
  PROVE  TypeOK'
<1>1. a \in DOMAIN boxes /\ boxes[a] \in Box /\ Len(boxes[a].former_names) <= MaxFormerNames
  BY DEF Rename, Registered, TypeOK
<1>2. height \in Nat
  BY DEF TypeOK
<1>3. /\ Renamed(boxes[a], name) \in Box
      /\ Len(Renamed(boxes[a], name).former_names) <= MaxFormerNames
  BY <1>1, <1>2, RenamedFields, MailboxAssumption
<1>4. boxes' = [boxes EXCEPT ![a] = Renamed(boxes[a], name)]
  BY DEF Rename
<1> QED
  BY <1>1, <1>3, <1>4, BoxReplaced DEF Rename, TypeOK, clientVars

\* a new key,
LEMMA RotateType ==
  ASSUME TypeOK, NEW a \in Accounts, RotateKey(a)
  PROVE  TypeOK'
<1> DEFINE t == Head(pending[a])
<1>1. a \in DOMAIN boxes /\ boxes[a] \in Box /\ Len(boxes[a].former_names) <= MaxFormerNames
  BY DEF RotateKey, Registered, TypeOK
<1>2. height \in Nat
  BY DEF TypeOK
<1>3. t \in Tx /\ t.type = "rotate" /\ pending' \in [Accounts -> Seq(Tx)]
  BY TakenType DEF RotateKey
<1>4. boxes' = [boxes EXCEPT ![a] = Rotated(boxes[a], t)]
  BY DEF RotateKey
<1> HIDE DEF t
<1>5. /\ Rotated(boxes[a], t) \in Box
      /\ Rotated(boxes[a], t).former_names = boxes[a].former_names
  BY <1>1, <1>2, <1>3, RotatedFields
<1>6. Len(Rotated(boxes[a], t).former_names) <= MaxFormerNames
  BY <1>1, <1>5
<1> QED
  BY <1>1, <1>3, <1>4, <1>5, <1>6, BoxReplaced DEF RotateKey, TypeOK, clientVars

\* a letter,
LEMMA SendType ==
  ASSUME TypeOK, NEW a \in Accounts, SendLetter(a)
  PROVE  TypeOK'
<1> DEFINE t == Head(pending[a])
           l == [id |-> t.id, from |-> a, to |-> t.to, enc_pub |-> t.key,
                 height |-> height,
                 signed |-> IF Registered(a) THEN boxes[a].name ELSE None]
<1>1. t \in Tx /\ t.type = "letter" /\ pending' \in [Accounts -> Seq(Tx)]
  BY TakenType DEF SendLetter
<1>2. letters' = letters \cup {l}
  BY DEF SendLetter
<1> HIDE DEF t
<1>3. t.id \in LetterId /\ t.to \in Accounts /\ t.key \in Keys
  BY <1>1 DEF Tx
<1>4. (IF Registered(a) THEN boxes[a].name ELSE None) \in Name \cup {None}
  BY DEF Registered, TypeOK, Box
<1>5. l \in Letter
  BY <1>3, <1>4 DEF TypeOK, Letter
<1> HIDE DEF l
<1> QED
  BY <1>1, <1>2, <1>5 DEF SendLetter, TypeOK, clientVars

\* and every other step.
LEMMA NextType == ASSUME TypeOK, [Next]_vars PROVE TypeOK'
<1>1. CASE UNCHANGED vars
  BY <1>1 DEF vars, chainVars, clientVars, TypeOK
<1>2. CASE SealBlock
  BY <1>2 DEF SealBlock, TypeOK, clientVars
<1>3. ASSUME NEW a \in Accounts, NEW name \in Name, Register(a, name) PROVE TypeOK'
  BY <1>3, RegisterType
<1>4. ASSUME NEW a \in Accounts, NEW name \in Name, Rename(a, name) PROVE TypeOK'
  BY <1>4, RenameType
<1>5. ASSUME NEW a \in Accounts, RotateKey(a) PROVE TypeOK'
  BY <1>5, RotateType
<1>6. ASSUME NEW a \in Accounts, SendLetter(a) PROVE TypeOK'
  BY <1>6, SendType
<1>7. ASSUME NEW a \in Accounts, DropPending(a) PROVE TypeOK'
  BY <1>7 DEF DropPending, TypeOK, chainVars, clientVars
<1>8. ASSUME NEW a \in Accounts, NEW key \in Keys, NEW backup \in Backups,
             PublishKey(a, key, backup)
      PROVE  TypeOK'
  <2> DEFINE t == [type |-> "rotate", key |-> key, backup |-> backup]
             w == [op |-> "keep", tx |-> t]
  <2>1. t \in Tx
    BY MailboxAssumption DEF Tx
  <2>2. Post(a, t) /\ used' = used \cup {key} /\ doing' = [doing EXCEPT ![a] = w]
    BY <1>8 DEF PublishKey
  <2> HIDE DEF t
  <2>3. w \in Work
    BY <2>1 DEF Work
  <2> HIDE DEF w
  <2> QED
    BY <1>8, <2>1, <2>2, <2>3, PostedType DEF PublishKey, TypeOK, chainVars
<1>9. ASSUME NEW a \in Accounts, KeepKey(a) PROVE TypeOK'
  <2> DEFINE key == doing[a].tx.key
             w1 == [wallet[a] EXCEPT !.keys = @ \cup {key}]
             w2 == [w1 EXCEPT !.current = key]
  <2>1. key \in Keys
    BY <1>9, WorkFields DEF KeepKey
  <2>2. wallet' = [wallet EXCEPT ![a] = w2]
    BY <1>9 DEF KeepKey
  <2> HIDE DEF key
  <2>3. w1 \in Wallet
    BY <2>1 DEF TypeOK, Wallet
  <2> HIDE DEF w1
  <2>4. w2 \in Wallet
    BY <2>1, <2>3 DEF Wallet
  <2> HIDE DEF w2
  <2> QED
    BY <1>9, <2>2, <2>4 DEF KeepKey, TypeOK, chainVars, Work
<1>10. ASSUME NEW a \in Accounts, NEW to \in Accounts, NEW id \in LetterId,
              Compose(a, to, id)
       PROVE  TypeOK'
  <2> DEFINE key == IF Registered(to) THEN boxes[to].enc_pub ELSE wallet[to].current
             t == [type |-> "letter", id |-> id, to |-> to, key |-> key]
             v == [op |-> "post", tx |-> t]
             w == [wallet[a] EXCEPT !.sent = @ \cup {id}]
  <2>1. key \in Keys
    BY DEF Registered, TypeOK, Box, Wallet
  <2>2. /\ doing' = [doing EXCEPT ![a] = v]
        /\ wallet' = [wallet EXCEPT ![a] = w]
        /\ used' = used \cup {id}
        /\ UNCHANGED <<height, boxes, letters, pending, forgotten, faults>>
    BY <1>10 DEF Compose, chainVars
  <2> HIDE DEF key
  <2>3. t \in Tx
    BY <2>1 DEF Tx
  <2> HIDE DEF t
  <2>4. v \in Work
    BY <2>3 DEF Work
  <2> HIDE DEF v
  <2>5. w \in Wallet
    BY DEF TypeOK, Wallet
  <2> HIDE DEF w
  <2> QED
    BY <2>2, <2>4, <2>5 DEF TypeOK
<1>11. ASSUME NEW a \in Accounts, PostLetter(a) PROVE TypeOK'
  <2>1. doing[a].tx \in Tx /\ Post(a, doing[a].tx)
    BY <1>11, WorkFields DEF PostLetter
  <2> QED
    BY <1>11, <2>1, PostedType DEF PostLetter, TypeOK, chainVars, Work
<1>12. ASSUME NEW a \in Accounts, ClientFails(a) PROVE TypeOK'
  BY <1>12 DEF ClientFails, TypeOK, chainVars, Work
<1>13. ASSUME NEW a \in Accounts, NEW key \in Keys, BurnKey(a, key) PROVE TypeOK'
  <2> DEFINE w == [wallet[a] EXCEPT !.keys = @ \ {key}]
  <2>1. w \in Wallet
    BY DEF TypeOK, Wallet
  <2>2. wallet' = [wallet EXCEPT ![a] = w]
    BY <1>13 DEF BurnKey
  <2> HIDE DEF w
  <2> QED
    BY <1>13, <2>1, <2>2 DEF BurnKey, TypeOK, chainVars
<1>14. ASSUME NEW a \in Accounts, RebuildWallet(a) PROVE TypeOK'
  <2>1. wallet[a].keys \cup wallet[a].sent \subseteq Keys \cup LetterId
    BY DEF TypeOK, Wallet
  <2> QED
    BY <1>14, <2>1, WalletFromWords DEF RebuildWallet, TypeOK, chainVars, Work
<1>15. ASSUME NEW a \in Accounts, RecoverKeys(a) PROVE TypeOK'
  <2> DEFINE keys == wallet[a].keys \cup BackedUp(a)
             cur == IF boxes[a].enc_pub \in keys THEN boxes[a].enc_pub
                    ELSE wallet[a].current
             w1 == [wallet[a] EXCEPT !.keys = keys]
             w2 == [w1 EXCEPT !.current = cur]
  <2>0. a \in DOMAIN boxes /\ boxes[a] \in Box /\ wallet[a] \in Wallet
    BY <1>15 DEF RecoverKeys, Registered, TypeOK
  <2>1. BackedUp(a) \subseteq Keys
    <3>1. \A i \in DOMAIN boxes[a].rotations : boxes[a].rotations[i] \in Rotation
      BY <2>0 DEF Box
    <3> QED
      BY <3>1 DEF BackedUp, Rotation
  <2>2. keys \subseteq Keys /\ cur \in Keys
    BY <2>0, <2>1 DEF Wallet, Box
  <2>3. wallet' = [wallet EXCEPT ![a] = w2]
    BY <1>15 DEF RecoverKeys
  <2> HIDE DEF keys, cur
  <2>4. w1 \in Wallet
    BY <2>0, <2>2 DEF Wallet
  <2> HIDE DEF w1
  <2>5. w2 \in Wallet
    BY <2>2, <2>4 DEF Wallet
  <2> HIDE DEF w2
  <2> QED
    BY <1>15, <2>3, <2>5 DEF RecoverKeys, TypeOK, chainVars
<1> QED
  BY <1>1, <1>2, <1>3, <1>4, <1>5, <1>6, <1>7, <1>8, <1>9, <1>10, <1>11, <1>12,
     <1>13, <1>14, <1>15 DEF Next

----------------------------------------------------------------------------
(* Letters and keys. *)

\* At genesis every record fits and there are no letters.
LEMMA InitInv == ASSUME Init PROVE IInv
<1>1. TypeOK
  BY InitType
<1>2. BoxesFit
  BY MailboxAssumption DEF Init, BoxesFit, BoxFits, NewBox
<1>3. LettersPast /\ SealedToLiveKey
  BY DEF Init, LettersPast, SealedToLiveKey
<1> QED
  BY <1>1, <1>2, <1>3 DEF IInv

\* Letters whose recipients' keys did not change are sealed as before.
LEMMA SameKeysSameLetters ==
  ASSUME IInv, height' \in {height, height + 1}, letters' = letters,
         DOMAIN boxes' = DOMAIN boxes,
         \A a \in DOMAIN boxes :
           /\ boxes'[a].registered_height = boxes[a].registered_height
           /\ boxes'[a].registration_enc_pub = boxes[a].registration_enc_pub
           /\ boxes'[a].prev_enc_pub = boxes[a].prev_enc_pub
           /\ boxes'[a].enc_pub = boxes[a].enc_pub
           /\ boxes'[a].enc_since = boxes[a].enc_since
           /\ boxes'[a].rotations = boxes[a].rotations
  PROVE  (BoxesFit /\ LettersPast /\ SealedToLiveKey)'
<1>1. height \in Nat /\ letters \subseteq Letter
  BY DEF IInv, TypeOK
<1>2. \A l \in letters : l.height \in Nat /\ l.height <= height
  BY <1>1 DEF IInv, LettersPast, Letter
<1>3. LettersPast'
  BY <1>1, <1>2 DEF LettersPast
<1>4. ASSUME NEW a \in DOMAIN boxes
      PROVE  BoxFits(boxes'[a], height')
  <2>1. BoxFits(boxes[a], height) /\ boxes[a] \in Box
    BY DEF IInv, BoxesFit, TypeOK
  <2>2. boxes[a].rotations \in Seq(Rotation) /\ boxes[a].registered_height \in Nat
    BY <2>1 DEF Box
  <2>3. \A i \in 1..Len(boxes[a].rotations) : boxes[a].rotations[i] \in Rotation
    BY <2>2
  <2>4. \A i \in 1..Len(boxes[a].rotations) : boxes[a].rotations[i].height \in Nat
    BY <2>3 DEF Rotation
  <2> QED
    BY <1>1, <2>1, <2>2, <2>4 DEF BoxFits, KeyAt
<1>5. BoxesFit'
  BY <1>4 DEF BoxesFit
<1>6. SealedToLiveKey'
  BY DEF IInv, SealedToLiveKey, Registered, Live, KeyAt
<1> QED
  BY <1>3, <1>5, <1>6

\* A registration concerns letters of later blocks only.
LEMMA RegisterKeeps ==
  ASSUME IInv, NEW a \in Accounts, NEW name \in Name, Register(a, name)
  PROVE  (BoxesFit /\ LettersPast /\ SealedToLiveKey)'
<1> DEFINE new == NewBox(height, wallet[a].current, name)
<1>1. /\ DOMAIN boxes' = DOMAIN boxes \cup {a}
      /\ boxes'[a] = new
      /\ \A x \in DOMAIN boxes : boxes'[x] = boxes[x]
      /\ height' = height /\ letters' = letters
  BY DEF Register, Registered
<1>2. height \in Nat /\ letters \subseteq Letter
  BY DEF IInv, TypeOK
<1>3. /\ new.registered_height = height /\ Len(new.rotations) = 0
      /\ new.registration_enc_pub = None /\ new.prev_enc_pub = None
  BY DEF NewBox
<1> HIDE DEF new
<1>4. LettersPast'
  BY <1>1 DEF IInv, LettersPast
<1>5. BoxFits(new, height)
  BY <1>2, <1>3 DEF BoxFits
<1>6. BoxesFit'
  BY <1>1, <1>5 DEF IInv, BoxesFit, BoxFits, KeyAt
<1>7. ASSUME NEW l \in letters', Registered(l.to)',
             l.height > boxes'[l.to].registered_height
      PROVE  Live(boxes'[l.to], l.enc_pub, l.height)
  <2>1. l.height \in Nat /\ l.height <= height
    BY <1>1, <1>2 DEF IInv, LettersPast, Letter
  <2>2. l.to # a
    BY <1>1, <1>2, <1>3, <1>7, <2>1
  <2>3. l.to \in DOMAIN boxes
    BY <1>1, <1>7, <2>2 DEF Registered
  <2> QED
    BY <1>1, <1>7, <2>3 DEF IInv, SealedToLiveKey, Registered
<1>8. SealedToLiveKey'
  BY <1>7 DEF SealedToLiveKey, Live, KeyAt
<1> QED
  BY <1>4, <1>6, <1>8

\* A rotation leaves earlier letters sealed to keys that were live then.
LEMMA RotateKeeps ==
  ASSUME IInv, NEW a \in Accounts, RotateKey(a)
  PROVE  (BoxesFit /\ LettersPast /\ SealedToLiveKey)'
<1> DEFINE t == Head(pending[a])
           new == Rotated(boxes[a], t)
<1>1. t \in Tx /\ t.type = "rotate"
  BY TakenType DEF RotateKey, IInv
<1>2. a \in DOMAIN boxes /\ boxes[a] \in Box /\ BoxFits(boxes[a], height)
  BY DEF RotateKey, Registered, IInv, TypeOK, BoxesFit
<1>3. height \in Nat /\ letters \subseteq Letter /\ KeyGrace \in Nat /\ None \notin Keys
  BY MailboxAssumption DEF IInv, TypeOK
<1>4. /\ boxes' = [boxes EXCEPT ![a] = new]
      /\ height' = height /\ letters' = letters
  BY DEF RotateKey
<1> HIDE DEF t
<1>5. BoxFits(new, height) /\ new.registered_height = boxes[a].registered_height
  BY <1>1, <1>2, <1>3, RotatedFits, RotatedFields
<1>6. \A key, h : h \in Nat /\ h <= height /\ Live(boxes[a], key, h) => Live(new, key, h)
  BY <1>1, <1>2, <1>3, RotatedKeepsLive
<1> HIDE DEF new
<1>7. /\ DOMAIN boxes' = DOMAIN boxes /\ boxes'[a] = new
      /\ \A x \in DOMAIN boxes : x # a => boxes'[x] = boxes[x]
  BY <1>2, <1>4
<1>8. LettersPast'
  BY <1>4 DEF IInv, LettersPast
<1>9. BoxesFit'
  <2>1. \A x \in DOMAIN boxes' : BoxFits(boxes'[x], height)
    BY <1>5, <1>7, Zenon DEF IInv, BoxesFit
  <2> QED
    BY <1>4, <2>1 DEF BoxesFit, BoxFits, KeyAt
<1>10. ASSUME NEW l \in letters', Registered(l.to)',
              l.height > boxes'[l.to].registered_height
       PROVE  Live(boxes'[l.to], l.enc_pub, l.height)
  <2>1. l \in letters /\ l.height \in Nat /\ l.height <= height
    BY <1>3, <1>4 DEF IInv, LettersPast, Letter
  <2>2. l.to \in DOMAIN boxes
    BY <1>7, <1>10 DEF Registered
  <2>3. boxes'[l.to].registered_height = boxes[l.to].registered_height
    BY <1>5, <1>7, <2>2
  <2>4. Live(boxes[l.to], l.enc_pub, l.height)
    BY <1>10, <2>1, <2>2, <2>3 DEF IInv, SealedToLiveKey, Registered
  <2> QED
    BY <1>6, <1>7, <2>1, <2>2, <2>4
<1>11. SealedToLiveKey'
  BY <1>10 DEF SealedToLiveKey, Live, KeyAt
<1> QED
  BY <1>8, <1>9, <1>11

\* A letter that enters the chain is sealed to a live key.
LEMMA SendKeeps ==
  ASSUME IInv, NEW a \in Accounts, SendLetter(a)
  PROVE  (BoxesFit /\ LettersPast /\ SealedToLiveKey)'
<1> DEFINE t == Head(pending[a])
           new == [id |-> t.id, from |-> a, to |-> t.to, enc_pub |-> t.key,
                   height |-> height,
                   signed |-> IF Registered(a) THEN boxes[a].name ELSE None]
<1>1. t \in Tx /\ t.type = "letter"
  BY TakenType DEF SendLetter, IInv
<1>2. /\ letters' = letters \cup {new} /\ boxes' = boxes /\ height' = height
      /\ Accepts(t.to, t.key)
  BY DEF SendLetter
<1> HIDE DEF t
<1>3. t.to \in Accounts /\ t.key \in Keys
  BY <1>1 DEF Tx
<1>4. new.to = t.to /\ new.enc_pub = t.key /\ new.height = height
  OBVIOUS
<1> HIDE DEF new
<1>5. height \in Nat /\ KeyGrace \in Nat /\ None \notin Keys
  BY MailboxAssumption DEF IInv, TypeOK
<1>6. LettersPast'
  BY <1>2, <1>4, <1>5 DEF IInv, LettersPast
<1>7. BoxesFit'
  BY <1>2 DEF IInv, BoxesFit, BoxFits, KeyAt
<1>8. Registered(t.to) => Live(boxes[t.to], t.key, height)
  <2> SUFFICES ASSUME Registered(t.to) PROVE Live(boxes[t.to], t.key, height)
    OBVIOUS
  <2>1. boxes[t.to] \in Box /\ BoxFits(boxes[t.to], height)
    BY DEF Registered, IInv, TypeOK, BoxesFit
  <2>2. \/ t.key = boxes[t.to].enc_pub
        \/ t.key = boxes[t.to].prev_enc_pub /\ height - boxes[t.to].enc_since <= KeyGrace
    BY <1>2 DEF Accepts
  <2> QED
    BY <1>3, <1>5, <2>1, <2>2, AcceptedIsLive
<1>9. ASSUME NEW l \in letters', Registered(l.to),
             l.height > boxes[l.to].registered_height
      PROVE  Live(boxes[l.to], l.enc_pub, l.height)
  BY <1>2, <1>4, <1>8, <1>9 DEF IInv, SealedToLiveKey
<1>10. SealedToLiveKey'
  BY <1>2, <1>9 DEF SealedToLiveKey, Registered, Live, KeyAt
<1> QED
  BY <1>6, <1>7, <1>10

\* Every step keeps the invariant.
LEMMA NextInv == ASSUME IInv, [Next]_vars PROVE IInv'
<1> DEFINE Rest == BoxesFit /\ LettersPast /\ SealedToLiveKey
<1>0. TypeOK /\ height \in Nat
  BY DEF IInv, TypeOK
<1>1. TypeOK'
  BY <1>0, NextType
<1>2. ASSUME UNCHANGED chainVars PROVE Rest'
  BY <1>2, SameKeysSameLetters DEF chainVars
<1>3. ASSUME SealBlock PROVE Rest'
  <2>1. height' = height + 1 /\ letters' = letters /\ boxes' = boxes
    BY <1>3 DEF SealBlock
  <2> QED
    BY <2>1, SameKeysSameLetters
<1>4. ASSUME NEW a \in Accounts, NEW name \in Name, Register(a, name) PROVE Rest'
  BY <1>4, RegisterKeeps
<1>5. ASSUME NEW a \in Accounts, NEW name \in Name, Rename(a, name) PROVE Rest'
  <2>1. /\ a \in DOMAIN boxes /\ boxes[a] \in Box
        /\ Len(boxes[a].former_names) <= MaxFormerNames
    BY <1>0, <1>5 DEF Rename, Registered, TypeOK
  <2> DEFINE new == Renamed(boxes[a], name)
  <2>2. /\ boxes' = [boxes EXCEPT ![a] = new]
        /\ height' = height /\ letters' = letters
    BY <1>5 DEF Rename
  <2>3. /\ new.registered_height = boxes[a].registered_height
        /\ new.registration_enc_pub = boxes[a].registration_enc_pub
        /\ new.prev_enc_pub = boxes[a].prev_enc_pub
        /\ new.enc_pub = boxes[a].enc_pub
        /\ new.enc_since = boxes[a].enc_since
        /\ new.rotations = boxes[a].rotations
    BY <1>0, <2>1, RenamedFields, MailboxAssumption
  <2> HIDE DEF new
  <2>4. /\ DOMAIN boxes' = DOMAIN boxes /\ boxes'[a] = new
        /\ \A x \in DOMAIN boxes : x # a => boxes'[x] = boxes[x]
    BY <2>1, <2>2
  <2> QED
    BY <2>2, <2>3, <2>4, SameKeysSameLetters
<1>6. ASSUME NEW a \in Accounts, RotateKey(a) PROVE Rest'
  BY <1>6, RotateKeeps
<1>7. ASSUME NEW a \in Accounts, SendLetter(a) PROVE Rest'
  BY <1>7, SendKeeps
<1>8. ASSUME NEW a \in Accounts,
             \/ DropPending(a)
             \/ \E key \in Keys, backup \in Backups : PublishKey(a, key, backup)
             \/ KeepKey(a)
             \/ \E to \in Accounts, id \in LetterId : Compose(a, to, id)
             \/ PostLetter(a) \/ ClientFails(a)
             \/ \E key \in Keys : BurnKey(a, key)
             \/ RebuildWallet(a) \/ RecoverKeys(a)
      PROVE  Rest'
  BY <1>2, <1>8 DEF DropPending, PublishKey, KeepKey, Compose, PostLetter,
     ClientFails, BurnKey, RebuildWallet, RecoverKeys
<1>9. ASSUME UNCHANGED vars PROVE Rest'
  <2>1. UNCHANGED chainVars
    BY <1>9 DEF vars
  <2> QED
    BY <1>2, <2>1
<1> HIDE DEF Rest
<1>10. Rest'
  BY <1>3, <1>4, <1>5, <1>6, <1>7, <1>8, <1>9 DEF Next
<1> QED
  BY <1>1, <1>10 DEF IInv, Rest

\* Whatever accounts, clients and nodes do, records, letters, wallets and what
\* waits for a block keep their types, and no account remembers more former
\* names than the ledger allows.
THEOREM MailboxTypeOK == Spec => []TypeOK
<1>1. IInv => TypeOK
  BY DEF IInv
<1> QED
  BY InitInv, NextInv, <1>1, PTL DEF Spec

\* Every letter in a block after its recipient's registration is sealed to a
\* key of the recipient's history that was current in that block, or had been
\* replaced at most KEY_GRACE_BLOCKS before.
THEOREM LettersSealedToLiveKeys == Spec => []SealedToLiveKey
<1>1. IInv => SealedToLiveKey
  BY DEF IInv
<1> QED
  BY InitInv, NextInv, <1>1, PTL DEF Spec

----------------------------------------------------------------------------
(* Letters and their senders. *)

\* The letters of a whose keys were saved, the forgotten ones too.
Saved(a) == wallet[a].sent \cup forgotten[a]

\* A letter's key is saved before the letter goes anywhere.
SavedFirst ==
  \A a \in Accounts :
    /\ \A i \in 1..Len(pending[a]) :
         pending[a][i].type = "letter" => pending[a][i].id \in Saved(a)
    /\ doing[a].op = "post" => /\ doing[a].tx.type = "letter"
                               /\ doing[a].tx.id \in Saved(a)

SentInv == TypeOK /\ SavedFirst /\ SentStaysReadable

\* At the start there are no letters to save.
LEMMA InitSent == ASSUME Init PROVE SentInv
<1>1. SavedFirst /\ SentStaysReadable
  BY DEF Init, SavedFirst, SentStaysReadable, Idle
<1> QED
  BY <1>1, InitType DEF SentInv

\* No step forgets a letter without saying so.
LEMMA SavedGrows ==
  ASSUME TypeOK, [Next]_vars, NEW a \in Accounts
  PROVE  Saved(a) \subseteq Saved(a)'
<1>0. /\ wallet \in [Accounts -> Wallet]
      /\ forgotten \in [Accounts -> SUBSET (Keys \cup LetterId)]
  BY DEF TypeOK
<1>1. ASSUME UNCHANGED <<wallet, forgotten>> PROVE Saved(a) \subseteq Saved(a)'
  BY <1>1 DEF Saved
<1>2. ASSUME NEW b \in Accounts, KeepKey(b) PROVE Saved(a) \subseteq Saved(a)'
  BY <1>0, <1>2 DEF KeepKey, Saved, Wallet
<1>3. ASSUME NEW b \in Accounts, NEW to \in Accounts, NEW id \in LetterId,
             Compose(b, to, id)
      PROVE  Saved(a) \subseteq Saved(a)'
  <2>1. wallet' = [wallet EXCEPT ![b].sent = @ \cup {id}] /\ forgotten' = forgotten
    BY <1>3 DEF Compose
  <2> QED
    BY <1>0, <2>1 DEF Saved, Wallet
<1>4. ASSUME NEW b \in Accounts, NEW key \in Keys, BurnKey(b, key)
      PROVE  Saved(a) \subseteq Saved(a)'
  BY <1>0, <1>4 DEF BurnKey, Saved, Wallet
<1>5. ASSUME NEW b \in Accounts, RebuildWallet(b) PROVE Saved(a) \subseteq Saved(a)'
  BY <1>0, <1>5 DEF RebuildWallet, Saved, Wallet
<1>6. ASSUME NEW b \in Accounts, RecoverKeys(b) PROVE Saved(a) \subseteq Saved(a)'
  <2>1. /\ \A c \in Accounts : wallet'[c].sent = wallet[c].sent
        /\ forgotten' = forgotten
    BY <1>0, <1>6 DEF RecoverKeys, Wallet
  <2> QED
    BY <2>1 DEF Saved
<1>7. UNCHANGED <<wallet, forgotten>>
      \/ \E b \in Accounts :
           \/ KeepKey(b)
           \/ \E to \in Accounts, id \in LetterId : Compose(b, to, id)
           \/ \E key \in Keys : BurnKey(b, key)
           \/ RebuildWallet(b) \/ RecoverKeys(b)
  BY DEF Next, SealBlock, Register, Rename, RotateKey, SendLetter, DropPending,
     PublishKey, PostLetter, ClientFails, vars, clientVars
<1> QED
  BY <1>1, <1>2, <1>3, <1>4, <1>5, <1>6, <1>7

\* Where a transaction waiting in a block's queue may come from.
LEMMA PendingFrom ==
  ASSUME TypeOK, [Next]_vars, NEW a \in Accounts, NEW i \in 1..Len(pending'[a])
  PROVE  \/ \E j \in 1..Len(pending[a]) : pending'[a][i] = pending[a][j]
         \/ pending'[a][i].type = "rotate" /\ pending'[a][i].backup \in Backups
         \/ doing[a].op = "post" /\ pending'[a][i] = doing[a].tx
<1> DEFINE Q == \/ \E j \in 1..Len(pending[a]) : pending'[a][i] = pending[a][j]
                \/ pending'[a][i].type = "rotate" /\ pending'[a][i].backup \in Backups
                \/ doing[a].op = "post" /\ pending'[a][i] = doing[a].tx
<1>0. pending \in [Accounts -> Seq(Tx)] /\ pending[a] \in Seq(Tx)
  BY DEF TypeOK
<1>1. ASSUME pending'[a] = pending[a] PROVE Q
  BY <1>1
<1>2. ASSUME NEW b \in Accounts, NEW type, TakeNext(b, type) PROVE Q
  <2>1. CASE b # a
    BY <1>0, <1>1, <1>2, <2>1 DEF TakeNext
  <2>2. CASE b = a
    <3>1. pending[a] # << >> /\ pending'[a] = Tail(pending[a])
      BY <1>0, <1>2, <2>2 DEF TakeNext
    <3>2. /\ Len(pending'[a]) = Len(pending[a]) - 1
          /\ pending'[a][i] = pending[a][i + 1]
      BY <1>0, <3>1, HeadTailProperties
    <3>3. i + 1 \in 1..Len(pending[a])
      BY <1>0, <3>2
    <3> QED
      BY <3>2, <3>3
  <2> QED
    BY <2>1, <2>2
<1>3. ASSUME NEW b \in Accounts, DropPending(b) PROVE Q
  <2>1. CASE b # a
    BY <1>0, <1>1, <1>3, <2>1 DEF DropPending
  <2>2. CASE b = a
    BY <1>0, <1>3, <2>2 DEF DropPending
  <2> QED
    BY <2>1, <2>2
<1>4. ASSUME NEW b \in Accounts, NEW t \in Tx, Post(b, t),
             \/ b # a
             \/ t.type = "rotate" /\ t.backup \in Backups
             \/ doing[a].op = "post" /\ t = doing[a].tx
      PROVE  Q
  <2>1. CASE b # a
    BY <1>0, <1>1, <1>4, <2>1 DEF Post
  <2>2. CASE b = a
    <3>1. pending'[a] = Append(pending[a], t)
      BY <1>0, <1>4, <2>2 DEF Post
    <3>2. i \in 1..Len(pending[a]) \/ pending'[a][i] = t
      BY <1>0, <3>1
    <3>3. i \in 1..Len(pending[a]) => pending'[a][i] = pending[a][i]
      BY <1>0, <3>1
    <3> QED
      BY <1>4, <2>2, <3>2, <3>3
  <2> QED
    BY <2>1, <2>2
<1>5. ASSUME NEW b \in Accounts, NEW key \in Keys, NEW backup \in Backups,
             PublishKey(b, key, backup)
      PROVE  Q
  <2> DEFINE t == [type |-> "rotate", key |-> key, backup |-> backup]
  <2>1. t \in Tx
    BY MailboxAssumption DEF Tx
  <2>2. Post(b, t) /\ t.type = "rotate" /\ t.backup \in Backups
    BY <1>5 DEF PublishKey
  <2> HIDE DEF t, Q
  <2> QED
    BY <1>4, <2>1, <2>2, Zenon
<1>6. ASSUME NEW b \in Accounts, PostLetter(b) PROVE Q
  <2>1. doing[b].op = "post" /\ doing[b].tx \in Tx /\ Post(b, doing[b].tx)
    BY <1>6, WorkFields DEF PostLetter
  <2> QED
    BY <1>4, <2>1
<1>7. \/ pending' = pending
      \/ \E b \in Accounts :
           \/ TakeNext(b, "rotate") \/ TakeNext(b, "letter") \/ DropPending(b)
           \/ \E key \in Keys, backup \in Backups : PublishKey(b, key, backup)
           \/ PostLetter(b)
  BY DEF Next, SealBlock, Register, Rename, RotateKey, SendLetter, KeepKey,
     Compose, ClientFails, BurnKey, RebuildWallet, RecoverKeys, vars
<1> HIDE DEF Q
<1>8. Q
  BY <1>1, <1>2, <1>3, <1>5, <1>6, <1>7
<1> QED
  BY <1>8 DEF Q

\* What a client is in the middle of after a step.
LEMMA DoingSteps ==
  ASSUME TypeOK, [Next]_vars, NEW a \in Accounts
  PROVE  \/ doing'[a] = doing[a] \/ doing'[a] = Idle
         \/ \E key \in Keys, backup \in Backups : PublishKey(a, key, backup)
         \/ \E to \in Accounts, id \in LetterId : Compose(a, to, id)
<1>0. doing \in [Accounts -> Work]
  BY DEF TypeOK
<1>1. CASE doing' = doing
  BY <1>1
<1>2. CASE \E b \in Accounts : doing' = [doing EXCEPT ![b] = Idle]
  BY <1>0, <1>2
<1>3. ASSUME NEW b \in Accounts, NEW key \in Keys, NEW backup \in Backups,
             PublishKey(b, key, backup), b # a
      PROVE  doing'[a] = doing[a]
  BY <1>0, <1>3 DEF PublishKey
<1>4. ASSUME NEW b \in Accounts, NEW to \in Accounts, NEW id \in LetterId,
             Compose(b, to, id), b # a
      PROVE  doing'[a] = doing[a]
  BY <1>0, <1>4 DEF Compose
<1>5. \/ doing' = doing
      \/ \E b \in Accounts : doing' = [doing EXCEPT ![b] = Idle]
      \/ \E b \in Accounts :
           \/ \E key \in Keys, backup \in Backups : PublishKey(b, key, backup)
           \/ \E to \in Accounts, id \in LetterId : Compose(b, to, id)
  BY DEF Next, SealBlock, Register, Rename, RotateKey, SendLetter, DropPending,
     KeepKey, PostLetter, ClientFails, BurnKey, RebuildWallet, RecoverKeys,
     vars, clientVars
<1> QED
  BY <1>1, <1>2, <1>3, <1>4, <1>5

\* The letter a client has composed, and its key is saved.
LEMMA ComposedTx ==
  ASSUME TypeOK, NEW a \in Accounts, NEW to \in Accounts, NEW id \in LetterId,
         Compose(a, to, id)
  PROVE  /\ doing'[a].op = "post"
         /\ doing'[a].tx.type = "letter" /\ doing'[a].tx.to = to
         /\ doing'[a].tx.key
              = IF Registered(to) THEN boxes[to].enc_pub ELSE wallet[to].current
         /\ doing'[a].tx.id = id /\ id \in Saved(a)'
<1> DEFINE key == IF Registered(to) THEN boxes[to].enc_pub ELSE wallet[to].current
           t == [type |-> "letter", id |-> id, to |-> to, key |-> key]
           v == [op |-> "post", tx |-> t]
<1>0. doing \in [Accounts -> Work] /\ wallet \in [Accounts -> Wallet]
  BY DEF TypeOK
<1>1. /\ doing' = [doing EXCEPT ![a] = v]
      /\ wallet' = [wallet EXCEPT ![a].sent = @ \cup {id}]
  BY DEF Compose
<1> HIDE DEF key
<1>2. t.type = "letter" /\ t.id = id /\ t.to = to /\ t.key = key
  OBVIOUS
<1> HIDE DEF t
<1>3. v.op = "post" /\ v.tx = t
  OBVIOUS
<1> HIDE DEF v
<1>4. id \in wallet'[a].sent
  BY <1>0, <1>1 DEF Wallet
<1>5. doing'[a] = v
  BY <1>0, <1>1
<1> QED
  BY <1>2, <1>3, <1>4, <1>5, Zenon DEF Saved, key

\* After posting a key, a client has yet to keep it.
LEMMA PublishedWork ==
  ASSUME TypeOK, NEW a \in Accounts, NEW key \in Keys, NEW backup \in Backups,
         PublishKey(a, key, backup)
  PROVE  doing'[a].op = "keep"
<1> DEFINE w == [op |-> "keep",
                 tx |-> [type |-> "rotate", key |-> key, backup |-> backup]]
<1>1. doing' = [doing EXCEPT ![a] = w] /\ w.op = "keep"
  BY DEF PublishKey
<1> HIDE DEF w
<1> QED
  BY <1>1 DEF TypeOK

\* What a client is about to post it has saved.
LEMMA DoingSaved ==
  ASSUME TypeOK, SavedFirst, [Next]_vars, NEW a \in Accounts, doing'[a].op = "post"
  PROVE  doing'[a].tx.type = "letter" /\ doing'[a].tx.id \in Saved(a)'
<1>1. CASE doing'[a] = doing[a]
  BY <1>1, SavedGrows DEF SavedFirst
<1>2. ASSUME doing'[a] = Idle PROVE FALSE
  BY <1>2 DEF Idle
<1>3. ASSUME NEW key \in Keys, NEW backup \in Backups, PublishKey(a, key, backup)
      PROVE  FALSE
  BY <1>3, PublishedWork
<1>4. ASSUME NEW to \in Accounts, NEW id \in LetterId, Compose(a, to, id)
      PROVE  doing'[a].tx.type = "letter" /\ doing'[a].tx.id \in Saved(a)'
  BY <1>4, ComposedTx
<1> QED
  BY <1>1, <1>2, <1>3, <1>4, DoingSteps

\* A letter on the chain was there, or waited to enter.
LEMMA LettersFrom ==
  ASSUME TypeOK, [Next]_vars, NEW l \in letters'
  PROVE  \/ l \in letters
         \/ \E a \in Accounts :
              /\ pending[a] \in Seq(Tx) /\ pending[a] # << >>
              /\ pending[a][1].type = "letter"
              /\ l.from = a /\ l.id = pending[a][1].id
              /\ l.to = pending[a][1].to /\ l.enc_pub = pending[a][1].key
<1>1. ASSUME NEW a \in Accounts, SendLetter(a), l \notin letters
      PROVE  /\ pending[a] \in Seq(Tx) /\ pending[a] # << >>
             /\ pending[a][1].type = "letter"
             /\ l.from = a /\ l.id = pending[a][1].id
             /\ l.to = pending[a][1].to /\ l.enc_pub = pending[a][1].key
  <2>1. pending[a] \in Seq(Tx)
    BY DEF TypeOK
  <2>2. pending[a] # << >> /\ Head(pending[a]).type = "letter"
    BY <1>1 DEF SendLetter, TakeNext
  <2>3. Head(pending[a]) = pending[a][1]
    BY <2>1, <2>2
  <2>4. /\ l.from = a /\ l.id = Head(pending[a]).id
        /\ l.to = Head(pending[a]).to /\ l.enc_pub = Head(pending[a]).key
    BY <1>1 DEF SendLetter
  <2> QED
    BY <2>1, <2>2, <2>3, <2>4
<1>2. letters' = letters \/ \E a \in Accounts : SendLetter(a)
  BY DEF Next, SealBlock, Register, Rename, RotateKey, DropPending, PublishKey,
     KeepKey, Compose, PostLetter, ClientFails, BurnKey, RebuildWallet,
     RecoverKeys, vars, chainVars
<1> QED
  BY <1>1, <1>2

\* Every step keeps what was saved, and nothing is posted before.
LEMMA NextSent == ASSUME SentInv, [Next]_vars PROVE SentInv'
<1>1. TypeOK /\ SavedFirst /\ SentStaysReadable /\ letters \subseteq Letter
  BY DEF SentInv, TypeOK
<1>2. TypeOK'
  BY <1>1, NextType
<1>3. ASSUME NEW a \in Accounts, NEW i \in 1..Len(pending'[a]),
             pending'[a][i].type = "letter"
      PROVE  pending'[a][i].id \in Saved(a)'
  <2>1. Saved(a) \subseteq Saved(a)'
    BY <1>1, SavedGrows
  <2>2. \/ \E j \in 1..Len(pending[a]) : pending'[a][i] = pending[a][j]
        \/ doing[a].op = "post" /\ pending'[a][i] = doing[a].tx
    BY <1>1, <1>3, PendingFrom
  <2>3. pending'[a][i].id \in Saved(a)
    BY <1>1, <1>3, <2>2 DEF SavedFirst
  <2> QED
    BY <2>1, <2>3
<1>4. SavedFirst'
  BY <1>1, <1>3, DoingSaved DEF SavedFirst
<1>5. ASSUME NEW l \in letters'
      PROVE  l.id \in Saved(l.from)'
  <2>1. CASE l \in letters
    <3>1. l.from \in Accounts /\ l.id \in Saved(l.from)
      BY <1>1, <2>1 DEF Letter, SentStaysReadable, Saved
    <3> QED
      BY <1>1, <3>1, SavedGrows
  <2>2. ASSUME NEW a \in Accounts, pending[a] \in Seq(Tx), pending[a] # << >>,
               pending[a][1].type = "letter", l.from = a, l.id = pending[a][1].id
        PROVE  l.id \in Saved(l.from)'
    <3>1. 1 \in 1..Len(pending[a])
      BY <2>2
    <3>2. l.id \in Saved(a)
      BY <1>1, <2>2, <3>1 DEF SavedFirst
    <3> QED
      BY <1>1, <2>2, <3>2, SavedGrows
  <2> QED
    BY <1>1, <2>1, <2>2, LettersFrom
<1>6. SentStaysReadable'
  BY <1>5 DEF SentStaysReadable, Saved
<1> QED
  BY <1>2, <1>4, <1>6 DEF SentInv

\* Wherever clients fail, no letter reaches the chain whose one-off key its
\* sender did not save first, or lost with the wallet file.
THEOREM SentLettersStayReadable == Spec => []SentStaysReadable
<1>1. SentInv => SentStaysReadable
  BY DEF SentInv
<1> QED
  BY InitSent, NextSent, <1>1, PTL DEF Spec

----------------------------------------------------------------------------
(* Letters and their readers, when every rotation is backed up. *)

\* The keys that the words and the chain give back, whatever became of the
\* wallet file.
Open(a) == {RootKey[a]} \cup (IF Registered(a) THEN BackedUp(a) ELSE {})

\* A transaction that waits is backed up, or a letter its reader can open.
OpenTx(t) ==
  /\ t.type = "rotate" => t.backup = TRUE
  /\ t.type = "letter" => t.key \in Open(t.to)

\* The keys an account publishes, and the keys letters are sealed to.
KeysOpen ==
  /\ \A a \in Accounts :
       /\ ~Registered(a) => wallet[a].current = RootKey[a] /\ doing[a].op # "keep"
       /\ Registered(a) => boxes[a].enc_pub \in Open(a)
       /\ \A i \in 1..Len(pending[a]) : OpenTx(pending[a][i])
       /\ doing[a].op = "post" => doing[a].tx.type = "letter" /\ OpenTx(doing[a].tx)
  /\ \A l \in letters : l.enc_pub \in Open(l.to)

ReadInv == TypeOK /\ KeysOpen

\* At the start every account publishes the key of its words.
LEMMA InitRead == ASSUME Init PROVE ReadInv
<1>1. \A a \in Accounts : wallet[a].current = RootKey[a] /\ doing[a].op = "idle"
  BY DEF Init, FromWords, Idle
<1>2. \A a \in Accounts : Registered(a) => boxes[a].enc_pub = RootKey[a]
  BY DEF Init, Registered, NewBox
<1>3. letters = {} /\ \A a \in Accounts : Len(pending[a]) = 0
  BY DEF Init
<1>4. KeysOpen
  BY <1>1, <1>2, <1>3 DEF KeysOpen, Open
<1> QED
  BY <1>4, InitType DEF ReadInv

\* What a step does to the records: nothing, or one of three things to one
\* account's record.
LEMMA BoxSteps ==
  ASSUME [Next]_vars
  PROVE  \/ boxes' = boxes
         \/ \E b \in Accounts :
              \/ \E name \in Name : Register(b, name) \/ Rename(b, name)
              \/ RotateKey(b)
BY DEF Next, SealBlock, SendLetter, DropPending, PublishKey, KeepKey, Compose,
   PostLetter, ClientFails, BurnKey, RebuildWallet, RecoverKeys, vars, chainVars

\* A rotation that enters the chain adds its key to those the chain gives
\* back, if it is backed up, and takes none away.
LEMMA RotationOpens ==
  ASSUME TypeOK, NEW a \in Accounts, RotateKey(a)
  PROVE  LET t == Head(pending[a]) IN
         /\ t \in Tx /\ t.type = "rotate"
         /\ Registered(a) /\ Registered(a)' /\ boxes'[a].enc_pub = t.key
         /\ Open(a) \subseteq Open(a)'
         /\ t.backup = TRUE => t.key \in Open(a)'
<1> DEFINE t == Head(pending[a])
           new == Rotated(boxes[a], t)
           r == RotationOf(t)
           n == Len(boxes[a].rotations)
<1>1. t \in Tx /\ t.type = "rotate"
  BY TakenType DEF RotateKey
<1>2. a \in DOMAIN boxes /\ boxes[a] \in Box /\ height \in Nat
  BY DEF RotateKey, Registered, TypeOK
<1>3. boxes' = [boxes EXCEPT ![a] = new]
  BY DEF RotateKey
<1> HIDE DEF t
<1>4. /\ new.enc_pub = t.key
      /\ new.rotations = Append(boxes[a].rotations, r)
      /\ r \in Rotation /\ r.enc_pub = t.key /\ r.backup = t.backup
  BY <1>1, <1>2, RotatedFields
<1> HIDE DEF new, r
<1>5. a \in DOMAIN boxes' /\ boxes'[a] = new
  BY <1>2, <1>3
<1>6. boxes[a].rotations \in Seq(Rotation) /\ n \in Nat
  BY <1>2 DEF Box
<1>7. /\ DOMAIN boxes[a].rotations = 1..n /\ DOMAIN boxes'[a].rotations = 1..(n + 1)
      /\ \A i \in 1..n : boxes'[a].rotations[i] = boxes[a].rotations[i]
      /\ boxes'[a].rotations[n + 1] = r
  BY <1>4, <1>5, <1>6
<1>8. BackedUp(a) \subseteq BackedUp(a)'
  <2>1. ASSUME NEW key \in BackedUp(a) PROVE key \in BackedUp(a)'
    <3>1. PICK i \in 1..n :
            boxes[a].rotations[i].backup /\ boxes[a].rotations[i].enc_pub = key
      BY <1>7, Zenon DEF BackedUp
    <3>2. i \in 1..(n + 1)
      BY <1>6
    <3>3. boxes'[a].rotations[i] = boxes[a].rotations[i]
      BY <1>7
    <3> QED
      BY <1>7, <3>1, <3>2, <3>3, Zenon DEF BackedUp
  <2> QED
    BY <2>1
<1>9. ASSUME t.backup = TRUE PROVE t.key \in BackedUp(a)'
  <2>1. n + 1 \in 1..(n + 1)
    BY <1>6
  <2>2. boxes'[a].rotations[n + 1].backup /\ boxes'[a].rotations[n + 1].enc_pub = t.key
    BY <1>4, <1>7, <1>9, Zenon
  <2> QED
    BY <1>7, <2>1, <2>2, Zenon DEF BackedUp
<1>10. Registered(a) /\ Registered(a)' /\ boxes'[a].enc_pub = t.key
  BY <1>2, <1>4, <1>5 DEF Registered
<1> HIDE DEF n
<1> QED
  BY <1>1, <1>8, <1>9, <1>10, Zenon DEF Open, t

\* No step takes a key away from those the words and the chain give back.
LEMMA OpenGrows ==
  ASSUME TypeOK, [Next]_vars, NEW a \in Accounts
  PROVE  Open(a) \subseteq Open(a)' /\ (Registered(a) => Registered(a)')
<1> DEFINE Q == Open(a) \subseteq Open(a)' /\ (Registered(a) => Registered(a)')
<1>1. ASSUME Registered(a) <=> Registered(a)',
             Registered(a) => boxes'[a].rotations = boxes[a].rotations
      PROVE  Q
  BY <1>1, Zenon DEF Open, BackedUp
<1>2. ASSUME boxes' = boxes PROVE Q
  BY <1>1, <1>2 DEF Registered
<1>3. ASSUME NEW b \in Accounts, NEW name \in Name, Register(b, name) PROVE Q
  <2>1. /\ ~Registered(b) /\ DOMAIN boxes' = DOMAIN boxes \cup {b}
        /\ \A x \in DOMAIN boxes : x # b => boxes'[x] = boxes[x]
    BY <1>3 DEF Register
  <2>2. CASE a = b
    BY <2>1, <2>2 DEF Open, Registered
  <2>3. CASE a # b
    BY <1>1, <2>1, <2>3 DEF Registered
  <2> QED
    BY <2>2, <2>3
<1>4. ASSUME NEW b \in Accounts, NEW name \in Name, Rename(b, name) PROVE Q
  <2>1. /\ b \in DOMAIN boxes /\ boxes[b] \in Box /\ height \in Nat
        /\ Len(boxes[b].former_names) <= MaxFormerNames
    BY <1>4 DEF Rename, Registered, TypeOK
  <2> DEFINE new == Renamed(boxes[b], name)
  <2>2. boxes' = [boxes EXCEPT ![b] = new]
    BY <1>4 DEF Rename
  <2>3. new.rotations = boxes[b].rotations
    BY <2>1, RenamedFields, MailboxAssumption
  <2> HIDE DEF new
  <2>4. /\ DOMAIN boxes' = DOMAIN boxes
        /\ \A x \in DOMAIN boxes : boxes'[x].rotations = boxes[x].rotations
    BY <2>1, <2>2, <2>3
  <2> QED
    BY <1>1, <2>4 DEF Registered
<1>5. ASSUME NEW b \in Accounts, RotateKey(b) PROVE Q
  <2>1. CASE a = b
    BY <1>5, <2>1, RotationOpens
  <2>2. CASE a # b
    <3>1. DOMAIN boxes' = DOMAIN boxes /\ boxes'[a] = boxes[a]
      BY <1>5, <2>2 DEF RotateKey
    <3> QED
      BY <1>1, <3>1 DEF Registered
  <2> QED
    BY <2>1, <2>2
<1> HIDE DEF Q
<1>6. Q
  BY <1>2, <1>3, <1>4, <1>5, BoxSteps
<1> QED
  BY <1>6 DEF Q

\* What was open stays open.
LEMMA OpenTxStays ==
  ASSUME TypeOK, [Next]_vars, NEW t \in Tx, OpenTx(t)
  PROVE  OpenTx(t)'
<1>1. t.type = "letter" => t.to \in Accounts
  BY DEF Tx
<1>2. t.type = "letter" => Open(t.to) \subseteq Open(t.to)'
  BY <1>1, OpenGrows
<1>3. t.type = "letter" => t.key \in Open(t.to)'
  BY <1>2, Zenon DEF OpenTx
<1> QED
  BY <1>3, Zenon DEF OpenTx

\* Who is not registered has made no key; who is publishes one that is open.
LEMMA PublishedOpen ==
  ASSUME ReadInv, [Next]_vars, NEW a \in Accounts
  PROVE  /\ ~Registered(a)' => wallet'[a].current = RootKey[a] /\ doing'[a].op # "keep"
         /\ Registered(a)' => boxes'[a].enc_pub \in Open(a)'
<1>0. /\ TypeOK /\ KeysOpen
      /\ wallet \in [Accounts -> Wallet] /\ doing \in [Accounts -> Work]
  BY DEF ReadInv, TypeOK
<1>1. ASSUME Registered(a), boxes'[a].enc_pub = boxes[a].enc_pub
      PROVE  boxes'[a].enc_pub \in Open(a)'
  BY <1>0, <1>1, OpenGrows DEF KeysOpen
<1>2. Registered(a)' => boxes'[a].enc_pub \in Open(a)'
  <2> SUFFICES ASSUME Registered(a)' PROVE boxes'[a].enc_pub \in Open(a)'
    OBVIOUS
  <2>1. CASE boxes' = boxes
    BY <1>1, <2>1 DEF Registered
  <2>2. ASSUME NEW b \in Accounts, NEW name \in Name, Register(b, name)
        PROVE  boxes'[a].enc_pub \in Open(a)'
    <3> DEFINE new == NewBox(height, wallet[b].current, name)
    <3>1. /\ ~Registered(b) /\ DOMAIN boxes' = DOMAIN boxes \cup {b}
          /\ \A x \in DOMAIN boxes : x # b => boxes'[x] = boxes[x]
          /\ boxes'[b] = new
      BY <2>2 DEF Register
    <3>2. new.enc_pub = wallet[b].current
      BY DEF NewBox
    <3> HIDE DEF new
    <3>3. CASE a = b
      BY <1>0, <3>1, <3>2, <3>3 DEF KeysOpen, Open
    <3>4. CASE a # b
      BY <1>1, <3>1, <3>4 DEF Registered
    <3> QED
      BY <3>3, <3>4
  <2>3. ASSUME NEW b \in Accounts, NEW name \in Name, Rename(b, name)
        PROVE  boxes'[a].enc_pub \in Open(a)'
    <3>1. /\ b \in DOMAIN boxes /\ boxes[b] \in Box /\ height \in Nat
          /\ Len(boxes[b].former_names) <= MaxFormerNames
      BY <1>0, <2>3 DEF Rename, Registered, TypeOK
    <3> DEFINE new == Renamed(boxes[b], name)
    <3>2. boxes' = [boxes EXCEPT ![b] = new]
      BY <2>3 DEF Rename
    <3>3. new.enc_pub = boxes[b].enc_pub
      BY <3>1, RenamedFields, MailboxAssumption
    <3> HIDE DEF new
    <3>4. /\ DOMAIN boxes' = DOMAIN boxes
          /\ \A x \in DOMAIN boxes : boxes'[x].enc_pub = boxes[x].enc_pub
      BY <3>1, <3>2, <3>3
    <3> QED
      BY <1>1, <3>4 DEF Registered
  <2>4. ASSUME NEW b \in Accounts, RotateKey(b)
        PROVE  boxes'[a].enc_pub \in Open(a)'
    <3>1. CASE a = b
      <4> DEFINE t == Head(pending[a])
      <4>1. /\ t \in Tx /\ t.type = "rotate" /\ boxes'[a].enc_pub = t.key
            /\ t.backup = TRUE => t.key \in Open(a)'
        BY <1>0, <2>4, <3>1, RotationOpens
      <4>2. pending[a] \in Seq(Tx) /\ pending[a] # << >>
        BY <1>0, <2>4, <3>1 DEF RotateKey, TakeNext, TypeOK
      <4>3. t = pending[a][1] /\ 1 \in 1..Len(pending[a])
        BY <4>2
      <4> HIDE DEF t
      <4>4. OpenTx(t)
        BY <1>0, <4>3, Zenon DEF KeysOpen
      <4>5. t.backup = TRUE
        BY <4>1, <4>4, Zenon DEF OpenTx
      <4> QED
        BY <4>1, <4>5, Zenon
    <3>2. CASE a # b
      <4>1. DOMAIN boxes' = DOMAIN boxes /\ boxes'[a] = boxes[a]
        BY <2>4, <3>2 DEF RotateKey
      <4> QED
        BY <1>1, <4>1 DEF Registered
    <3> QED
      BY <3>1, <3>2
  <2> QED
    BY <2>1, <2>2, <2>3, <2>4, BoxSteps
<1>3. ASSUME ~Registered(a)'
      PROVE  wallet'[a].current = RootKey[a] /\ doing'[a].op # "keep"
  <2>0. /\ ~Registered(a)
        /\ wallet[a].current = RootKey[a] /\ doing[a].op # "keep"
    BY <1>0, <1>3, OpenGrows DEF KeysOpen
  <2>1. wallet'[a].current = RootKey[a]
    <3>1. ASSUME NEW b \in Accounts, KeepKey(b) PROVE wallet'[a] = wallet[a]
      BY <1>0, <2>0, <3>1 DEF KeepKey
    <3>2. ASSUME NEW b \in Accounts, NEW to \in Accounts, NEW id \in LetterId,
                 Compose(b, to, id)
          PROVE  wallet'[a].current = wallet[a].current
      <4>1. wallet' = [wallet EXCEPT ![b].sent = @ \cup {id}]
        BY <3>2 DEF Compose
      <4> QED
        BY <1>0, <4>1 DEF Wallet
    <3>3. ASSUME NEW b \in Accounts, NEW key \in Keys, BurnKey(b, key)
          PROVE  wallet'[a].current = wallet[a].current
      BY <1>0, <3>3 DEF BurnKey, Wallet
    <3>4. ASSUME NEW b \in Accounts, RebuildWallet(b)
          PROVE  wallet'[a].current \in {wallet[a].current, RootKey[a]}
      BY <1>0, <3>4 DEF RebuildWallet, FromWords
    <3>5. ASSUME NEW b \in Accounts, RecoverKeys(b) PROVE wallet'[a] = wallet[a]
      BY <1>0, <2>0, <3>5 DEF RecoverKeys
    <3>6. \/ wallet' = wallet
          \/ \E b \in Accounts :
               \/ KeepKey(b)
               \/ \E to \in Accounts, id \in LetterId : Compose(b, to, id)
               \/ \E key \in Keys : BurnKey(b, key)
               \/ RebuildWallet(b) \/ RecoverKeys(b)
      BY DEF Next, SealBlock, Register, Rename, RotateKey, SendLetter, DropPending,
         PublishKey, PostLetter, ClientFails, vars, clientVars
    <3> QED
      BY <2>0, <3>1, <3>2, <3>3, <3>4, <3>5, <3>6
  <2>2. doing'[a].op # "keep"
    <3>1. \/ doing'[a] = doing[a] \/ doing'[a] = Idle
          \/ \E key \in Keys, backup \in Backups : PublishKey(a, key, backup)
          \/ \E to \in Accounts, id \in LetterId : Compose(a, to, id)
      BY <1>0, DoingSteps
    <3>2. ~ \E key \in Keys, backup \in Backups : PublishKey(a, key, backup)
      BY <2>0 DEF PublishKey
    <3>3. ASSUME NEW to \in Accounts, NEW id \in LetterId, Compose(a, to, id)
          PROVE  doing'[a].op = "post"
      BY <1>0, <3>3, ComposedTx
    <3> QED
      BY <2>0, <3>1, <3>2, <3>3 DEF Idle
  <2> QED
    BY <2>1, <2>2
<1> QED
  BY <1>2, <1>3

\* With backups, every step keeps published keys and letters open.
LEMMA NextRead ==
  ASSUME Backups \subseteq {TRUE}, ReadInv, [Next]_vars
  PROVE  ReadInv'
<1>1. /\ TypeOK /\ KeysOpen /\ letters \subseteq Letter
      /\ pending \in [Accounts -> Seq(Tx)]
      /\ doing \in [Accounts -> Work] /\ wallet \in [Accounts -> Wallet]
  BY DEF ReadInv, TypeOK
<1>2. TypeOK'
  BY <1>1, NextType
<1>3. ASSUME NEW a \in Accounts, NEW t, doing[a].op = "post", t = doing[a].tx
      PROVE  t.type = "letter" /\ OpenTx(t)'
  <2>1. t \in Tx /\ t.type = "letter" /\ OpenTx(t)
    BY <1>1, <1>3, WorkFields DEF KeysOpen
  <2> QED
    BY <1>1, <2>1, OpenTxStays
<1>4. ASSUME NEW a \in Accounts, NEW i \in 1..Len(pending'[a]),
             NEW t, t = pending'[a][i]
      PROVE  OpenTx(t)'
  <2>1. ASSUME NEW j \in 1..Len(pending[a]), t = pending[a][j]
        PROVE  OpenTx(t)'
    <3>1. t \in Tx /\ OpenTx(t)
      BY <1>1, <2>1 DEF KeysOpen
    <3> QED
      BY <1>1, <3>1, OpenTxStays
  <2>2. CASE t.type = "rotate" /\ t.backup \in Backups
    BY <2>2, Zenon DEF OpenTx
  <2>3. CASE doing[a].op = "post" /\ t = doing[a].tx
    BY <1>3, <2>3
  <2> QED
    BY <1>1, <1>4, <2>1, <2>2, <2>3, PendingFrom
<1>5. ASSUME NEW a \in Accounts, NEW t, doing'[a].op = "post", t = doing'[a].tx
      PROVE  t.type = "letter" /\ OpenTx(t)'
  <2>1. CASE doing'[a] = doing[a]
    BY <1>3, <1>5, <2>1
  <2>2. ASSUME NEW key \in Keys, NEW backup \in Backups, PublishKey(a, key, backup)
        PROVE  FALSE
    BY <1>1, <1>5, <2>2, PublishedWork
  <2>3. ASSUME NEW to \in Accounts, NEW id \in LetterId, Compose(a, to, id)
        PROVE  t.type = "letter" /\ OpenTx(t)'
    <3> DEFINE key == IF Registered(to) THEN boxes[to].enc_pub ELSE wallet[to].current
    <3>1. t.type = "letter" /\ t.key = key /\ t.to = to
      BY <1>1, <1>5, <2>3, ComposedTx
    <3>2. key \in Open(to)
      BY <1>1 DEF KeysOpen, Open
    <3> HIDE DEF key
    <3>3. t.key \in Open(t.to)'
      BY <1>1, <3>1, <3>2, OpenGrows
    <3> QED
      BY <3>1, <3>3 DEF OpenTx
  <2>4. doing'[a] # Idle
    BY <1>5 DEF Idle
  <2>5. \/ doing'[a] = doing[a]
        \/ \E key \in Keys, backup \in Backups : PublishKey(a, key, backup)
        \/ \E to \in Accounts, id \in LetterId : Compose(a, to, id)
    BY <1>1, <2>4, DoingSteps
  <2> QED
    BY <2>1, <2>2, <2>3, <2>5, Zenon
<1>6. ASSUME NEW l \in letters'
      PROVE  l.enc_pub \in Open(l.to)'
  <2>1. CASE l \in letters
    <3>1. l.to \in Accounts /\ l.enc_pub \in Open(l.to)
      BY <1>1, <2>1 DEF Letter, KeysOpen
    <3> QED
      BY <1>1, <3>1, OpenGrows
  <2>2. ASSUME NEW a \in Accounts, NEW t, pending[a] \in Seq(Tx), pending[a] # << >>,
               t = pending[a][1], t.type = "letter", l.enc_pub = t.key, l.to = t.to
        PROVE  l.enc_pub \in Open(l.to)'
    <3>1. 1 \in 1..Len(pending[a])
      BY <2>2
    <3>2. t \in Tx /\ OpenTx(t)
      BY <1>1, <2>2, <3>1 DEF KeysOpen
    <3>3. OpenTx(t)'
      BY <1>1, <3>2, OpenTxStays
    <3>4. t.key \in Open(t.to)'
      BY <2>2, <3>3, Zenon DEF OpenTx
    <3> QED
      BY <2>2, <3>4, Zenon
  <2> QED
    BY <1>1, <2>1, <2>2, LettersFrom
<1>7. /\ \A a \in Accounts : \A i \in 1..Len(pending'[a]) : OpenTx(pending[a][i])'
      /\ \A a \in Accounts : doing'[a].op = "post"
           => doing'[a].tx.type = "letter" /\ OpenTx(doing[a].tx)'
  BY <1>4, <1>5, Zenon DEF OpenTx
<1>8. KeysOpen'
  BY <1>1, <1>6, <1>7, PublishedOpen, Zenon DEF KeysOpen, ReadInv
<1> QED
  BY <1>2, <1>8 DEF ReadInv

\* If every rotation is backed up, every letter on the chain can be opened with
\* the words and the chain, whatever clients lost and wherever they failed.
THEOREM BackedUpLettersStayReadable ==
  ASSUME Backups \subseteq {TRUE}
  PROVE  Spec => []LettersStayReadable
<1>1. ReadInv => LettersStayReadable
  BY DEF ReadInv, KeysOpen, LettersStayReadable, Open, Recoverable
<1>2. ReadInv /\ [Next]_vars => ReadInv'
  BY NextRead
<1> QED
  BY InitRead, <1>1, <1>2, PTL DEF Spec

----------------------------------------------------------------------------
(* Names. *)

\* The names of a record were given up one after another, none in the future.
NamesFit(names, h) ==
  /\ \A i \in 1..Len(names) : names[i].until \in Nat /\ names[i].until <= h
  /\ \A i, j \in 1..Len(names) : i <= j => names[i].until <= names[j].until

\* A letter signed in block h is traced in a record.
Traced(box, signed, h) ==
  Len(box.former_names) < MaxFormerNames \/ h > box.former_names[1].until
    => signed \in NamesAt(box, h)

\* The inductive invariant: letters lie in the past, and whoever signed one is
\* registered, so that a registration finds no letter to trace.
TracedInv ==
  /\ LettersPast
  /\ \A a \in DOMAIN boxes : NamesFit(boxes[a].former_names, height)
  /\ \A l \in letters : l.signed # None =>
       l.from \in DOMAIN boxes /\ Traced(boxes[l.from], l.signed, l.height)

\* The names of a record in a block, one by one.
LEMMA NameAt ==
  ASSUME NEW box \in Box, NEW name, NEW h
  PROVE  name \in NamesAt(box, h) <=>
           \/ \E i \in 1..Len(box.former_names) :
                /\ name = box.former_names[i].name
                /\ i > 1 => box.former_names[i - 1].until <= h
                /\ h <= box.former_names[i].until
           \/ /\ name = box.name
              /\ Len(box.former_names) > 0
                   => box.former_names[Len(box.former_names)].until <= h
BY DEF NamesAt

\* A rotation leaves the name.
LEMMA RotatedName ==
  ASSUME NEW box \in Box, NEW t
  PROVE  Rotated(box, t).name = box.name
BY DEF Rotated, Box

\* Where the old name of a record goes: to the end of the former names, of which
\* the first is forgotten if there were MaxFormerNames.
NameMoves(box, new) ==
  LET n == Len(box.former_names)
      k == IF n = MaxFormerNames THEN 1 ELSE 0
  IN /\ new.former_names \in Seq(FormerName)
     /\ Len(new.former_names) = n + 1 - k
     /\ \A i \in 1..(n - k) : new.former_names[i] = box.former_names[i + k]
     /\ new.former_names[n + 1 - k] = [name |-> box.name, until |-> height]

\* A new name, and what it does to the former ones.
LEMMA RenamedNames ==
  ASSUME height \in Nat, MaxFormerNames \in Nat \ {0}, NEW box \in Box,
         NEW name \in Name, Len(box.former_names) <= MaxFormerNames,
         NEW new, new = Renamed(box, name)
  PROVE  new.name = name /\ NameMoves(box, new)
<1> DEFINE f == [name |-> box.name, until |-> height]
           n == Len(box.former_names)
           names == Append(box.former_names, f)
<1>1. f \in FormerName /\ box.former_names \in Seq(FormerName) /\ n \in Nat
  BY DEF FormerName, Box
<1>2. new.name = name /\ new.former_names = Kept(names)
  <2> DEFINE b1 == [box EXCEPT !.former_names = Kept(names)]
             b2 == [b1 EXCEPT !.name = name]
             b3 == [b2 EXCEPT !.renamed_height = height]
  <2>1. new = b3
    BY DEF Renamed
  <2>2. DOMAIN box = DOMAIN NewBox(0, 0, 0)
    BY DEF Box, NewBox
  <2>3. {"former_names", "name", "renamed_height"} \subseteq DOMAIN box
    BY <2>2 DEF NewBox
  <2>4. b1.former_names = Kept(names) /\ DOMAIN b1 = DOMAIN box
    BY <2>3
  <2> HIDE DEF b1
  <2>5. b2.former_names = Kept(names) /\ b2.name = name /\ DOMAIN b2 = DOMAIN box
    BY <2>3, <2>4
  <2> HIDE DEF b2
  <2>6. b3.former_names = Kept(names) /\ b3.name = name
    BY <2>3, <2>5
  <2> QED
    BY <2>1, <2>6, Zenon
<1> HIDE DEF f
<1>3. /\ names \in Seq(FormerName) /\ Len(names) = n + 1
      /\ \A i \in 1..n : names[i] = box.former_names[i]
      /\ names[n + 1] = f
  BY <1>1
<1> HIDE DEF names, n
<1>4. CASE n = MaxFormerNames
  <2>1. Kept(names) = Tail(names) /\ names # << >>
    BY <1>1, <1>3, <1>4 DEF Kept
  <2>2. /\ Tail(names) \in Seq(FormerName) /\ Len(Tail(names)) = n
        /\ \A i \in 1..n : Tail(names)[i] = names[i + 1]
    BY <1>1, <1>3, <2>1, HeadTailProperties
  <2>3. n >= 1
    BY <1>1, <1>4
  <2>4. \A i \in 1..(n - 1) : Tail(names)[i] = box.former_names[i + 1]
    BY <1>1, <1>3, <2>2
  <2>5. Tail(names)[n] = f
    BY <1>1, <1>3, <2>2, <2>3
  <2> QED
    BY <1>1, <1>2, <1>4, <2>1, <2>2, <2>3, <2>4, <2>5 DEF n, f, NameMoves
<1>5. CASE n # MaxFormerNames
  <2>1. Kept(names) = names
    BY <1>1, <1>3, <1>5 DEF Kept, n
  <2> QED
    BY <1>1, <1>2, <1>3, <1>5, <2>1 DEF n, f, NameMoves
<1> QED
  BY <1>4, <1>5

\* A new name keeps a record's names in order, and the letters traced.  If the
\* oldest name is forgotten, so are the blocks in which it was signed.
LEMMA RenamedTraces ==
  ASSUME height \in Nat, MaxFormerNames \in Nat \ {0}, NEW box \in Box,
         NEW name \in Name, Len(box.former_names) <= MaxFormerNames,
         NamesFit(box.former_names, height)
  PROVE  /\ NamesFit(Renamed(box, name).former_names, height)
         /\ \A signed : \A h \in 0..height :
              Traced(box, signed, h) => Traced(Renamed(box, name), signed, h)
<1> DEFINE n == Len(box.former_names)
           k == IF n = MaxFormerNames THEN 1 ELSE 0
           old == box.former_names
<1>1. PICK new : new = Renamed(box, name)
  OBVIOUS
<1>2. new \in Box /\ old \in Seq(FormerName) /\ n \in Nat /\ n = Len(old)
  BY <1>1, RenamedFields DEF Box
<1>3. PICK names : names = new.former_names
  OBVIOUS
<1>4. /\ names \in Seq(FormerName)
      /\ Len(names) = n + 1 - k
      /\ \A i \in 1..(n - k) : names[i] = old[i + k]
      /\ names[n + 1 - k].name = box.name
      /\ names[n + 1 - k].until = height
  <2>0. /\ new.former_names \in Seq(FormerName)
        /\ Len(new.former_names) = n + 1 - k
        /\ \A i \in 1..(n - k) : new.former_names[i] = old[i + k]
        /\ new.former_names[n + 1 - k] = [name |-> box.name, until |-> height]
    <3>1. NameMoves(box, new)
      BY <1>1, RenamedNames
    <3> QED
      BY <3>1, Zenon DEF NameMoves
  <2> HIDE DEF n, k, old
  <2>1. /\ names \in Seq(FormerName)
        /\ Len(names) = n + 1 - k
        /\ \A i \in 1..(n - k) : names[i] = old[i + k]
        /\ names[n + 1 - k] = [name |-> box.name, until |-> height]
    BY <1>3, <2>0, Zenon
  <2> QED
    BY <2>1
<1>5. k \in {0, 1} /\ (k = 0 => n < MaxFormerNames) /\ (k = 1 => n = MaxFormerNames /\ n >= 1)
  BY <1>2
<1> HIDE DEF k
<1>6. /\ \A i \in 1..n : old[i].until \in Nat /\ old[i].until <= height
      /\ \A i, j \in 1..n : i <= j => old[i].until <= old[j].until
  BY <1>2 DEF NamesFit
<1> HIDE DEF n, old
<1>7. NamesFit(names, height)
  <2>1. ASSUME NEW i \in 1..Len(names)
        PROVE  \/ i \in 1..(n - k) /\ i + k \in 1..n /\ names[i] = old[i + k]
               \/ i = n + 1 - k
    BY <1>2, <1>4, <1>5
  <2>2. \A i \in 1..Len(names) : names[i].until \in Nat /\ names[i].until <= height
    BY <1>4, <1>6, <2>1
  <2>3. ASSUME NEW i \in 1..Len(names), NEW j \in 1..Len(names), i <= j
        PROVE  names[i].until <= names[j].until
    <3>1. CASE j = n + 1 - k
      BY <1>4, <2>2, <3>1
    <3>2. CASE j # n + 1 - k
      <4>1. /\ j \in 1..(n - k) /\ j + k \in 1..n /\ names[j] = old[j + k]
            /\ i \in 1..(n - k) /\ i + k \in 1..n /\ names[i] = old[i + k]
        BY <1>2, <1>4, <1>5, <2>1, <2>3, <3>2
      <4> QED
        BY <1>5, <1>6, <2>3, <4>1
    <3> QED
      BY <3>1, <3>2
  <2> QED
    BY <2>2, <2>3 DEF NamesFit
<1>8. ASSUME NEW signed, NEW h \in 0..height, Traced(box, signed, h),
             Len(names) < MaxFormerNames \/ h > names[1].until
      PROVE  signed \in NamesAt(new, h)
  <2>1. n < MaxFormerNames \/ h > old[1].until
    <3>1. CASE k = 0
      BY <1>5, <3>1
    <3>2. CASE k = 1
      <4>1. Len(names) = n /\ n = MaxFormerNames /\ n >= 1
        BY <1>2, <1>4, <1>5, <3>2
      <4>2. h > names[1].until
        BY <1>2, <1>8, <4>1
      <4>3. n # 1
        BY <1>4, <3>2, <4>2
      <4>4. names[1] = old[2] /\ old[1].until <= old[2].until
        BY <1>2, <1>4, <1>6, <3>2, <4>1, <4>3
      <4> QED
        BY <1>2, <1>6, <4>1, <4>2, <4>3, <4>4
    <3> QED
      BY <1>5, <3>1, <3>2
  <2>2. signed \in NamesAt(box, h)
    BY <1>8, <2>1 DEF Traced, n, old
  <2>3. CASE \E i \in 1..n : /\ signed = old[i].name
                             /\ i > 1 => old[i - 1].until <= h
                             /\ h <= old[i].until
    <3>1. PICK i \in 1..n : /\ signed = old[i].name
                            /\ i > 1 => old[i - 1].until <= h
                            /\ h <= old[i].until
      BY <2>3
    <3>2. i > k
      <4>1. CASE k = 0
        BY <4>1
      <4>2. CASE k = 1
        <5>1. h > old[1].until
          BY <1>2, <1>5, <2>1, <4>2
        <5> QED
          BY <1>2, <1>6, <3>1, <4>2, <5>1
      <4> QED
        BY <1>5, <4>1, <4>2
    <3>3. i - k \in 1..(n - k) /\ i - k \in 1..Len(names) /\ names[i - k] = old[i]
      BY <1>2, <1>4, <1>5, <3>2
    <3>4. i - k > 1 => names[i - k - 1] = old[i - 1]
      BY <1>2, <1>4, <1>5, <3>2
    <3>5. i - k > 1 => names[i - k - 1].until <= h
      BY <1>5, <3>1, <3>4
    <3> QED
      BY <1>2, <1>3, <3>1, <3>3, <3>5, NameAt
  <2>4. CASE signed = box.name /\ (n > 0 => old[n].until <= h)
    <3>1. n + 1 - k \in 1..Len(names) /\ h <= names[n + 1 - k].until
      BY <1>2, <1>4, <1>5
    <3>2. n + 1 - k > 1 => /\ n + 1 - k - 1 \in 1..(n - k)
                           /\ names[n + 1 - k - 1] = old[n] /\ n > 0
      BY <1>2, <1>4, <1>5
    <3>3. n + 1 - k > 1 => names[n + 1 - k - 1].until <= h
      BY <2>4, <3>2
    <3>4. PICK m : m = n + 1 - k
      OBVIOUS
    <3>5. /\ m \in 1..Len(names) /\ signed = names[m].name
          /\ m > 1 => names[m - 1].until <= h
          /\ h <= names[m].until
      BY <1>2, <1>4, <1>5, <2>4, <3>1, <3>3, <3>4
    <3> QED
      BY <1>2, <1>3, <3>5, NameAt
  <2> QED
    BY <2>2, <2>3, <2>4, NameAt DEF n, old
<1>9. \A signed : \A h \in 0..height : Traced(box, signed, h) => Traced(new, signed, h)
  BY <1>3, <1>8 DEF Traced
<1> QED
  BY <1>1, <1>3, <1>7, <1>9

\* There are no letters at genesis, and no former names.
LEMMA InitTraced == ASSUME Init PROVE TracedInv
<1>1. LettersPast
  BY DEF Init, LettersPast
<1>2. \A a \in DOMAIN boxes : NamesFit(boxes[a].former_names, height)
  BY DEF Init, NewBox, NamesFit
<1> QED
  BY <1>1, <1>2 DEF Init, TracedInv

\* What does not touch a record's names, and adds no letter, keeps the letters
\* traced.
LEMMA SameNamesTraced ==
  ASSUME TypeOK, TracedInv, height' \in {height, height + 1}, letters' = letters,
         DOMAIN boxes' = DOMAIN boxes,
         \A a \in DOMAIN boxes :
           /\ boxes'[a].former_names = boxes[a].former_names
           /\ boxes'[a].name = boxes[a].name
  PROVE  TracedInv'
<1>1. height \in Nat /\ letters \subseteq Letter
  BY DEF TypeOK
<1>2. LettersPast'
  BY <1>1 DEF TracedInv, LettersPast, Letter
<1>3. ASSUME NEW a \in DOMAIN boxes
      PROVE  NamesFit(boxes'[a].former_names, height')
  <2>1. boxes'[a].former_names = boxes[a].former_names
    OBVIOUS
  <2>2. NamesFit(boxes[a].former_names, height)
    BY DEF TracedInv
  <2> QED
    BY <1>1, <2>1, <2>2 DEF NamesFit
<1>4. ASSUME NEW l \in letters, l.signed # None
      PROVE  l.from \in DOMAIN boxes /\ Traced(boxes'[l.from], l.signed, l.height)
  <2>1. l.from \in DOMAIN boxes /\ Traced(boxes[l.from], l.signed, l.height)
    BY <1>4 DEF TracedInv
  <2>2. /\ boxes'[l.from].former_names = boxes[l.from].former_names
        /\ boxes'[l.from].name = boxes[l.from].name
    BY <2>1
  <2> QED
    BY <2>1, <2>2 DEF Traced, NamesAt
<1> QED
  BY <1>2, <1>3, <1>4 DEF TracedInv, NamesFit, Traced, NamesAt

\* A registration concerns no letter: who was not registered signed none.
LEMMA RegisterTraced ==
  ASSUME TypeOK, TracedInv, NEW a \in Accounts, NEW name \in Name, Register(a, name)
  PROVE  TracedInv'
<1>1. /\ a \notin DOMAIN boxes /\ DOMAIN boxes' = DOMAIN boxes \cup {a}
      /\ boxes'[a].former_names = << >>
      /\ \A x \in DOMAIN boxes : boxes'[x] = boxes[x]
      /\ height' = height /\ letters' = letters
  BY DEF Register, Registered, NewBox
<1>2. LettersPast'
  BY <1>1 DEF TracedInv, LettersPast
<1>3. NamesFit(<< >>, height)
  BY DEF NamesFit
<1>4. \A x \in DOMAIN boxes' : NamesFit(boxes'[x].former_names, height')
  BY <1>1, <1>3, Zenon DEF TracedInv
<1>5. ASSUME NEW l \in letters', l.signed # None
      PROVE  l.from \in DOMAIN boxes' /\ Traced(boxes'[l.from], l.signed, l.height)
  BY <1>1, <1>5, Zenon DEF TracedInv
<1> QED
  BY <1>2, <1>4, <1>5 DEF TracedInv, NamesFit, Traced, NamesAt

\* A new name leaves every letter traced.
LEMMA RenameTraced ==
  ASSUME TypeOK, TracedInv, NEW a \in Accounts, NEW name \in Name, Rename(a, name)
  PROVE  TracedInv'
<1> DEFINE new == Renamed(boxes[a], name)
<1>1. /\ a \in DOMAIN boxes /\ boxes[a] \in Box
      /\ Len(boxes[a].former_names) <= MaxFormerNames
      /\ height \in Nat /\ letters \subseteq Letter
  BY DEF Rename, Registered, TypeOK
<1>2. boxes' = [boxes EXCEPT ![a] = new] /\ height' = height /\ letters' = letters
  BY DEF Rename
<1>3. NamesFit(boxes[a].former_names, height)
  BY <1>1 DEF TracedInv
<1>4. /\ NamesFit(new.former_names, height)
      /\ \A signed : \A h \in 0..height :
           Traced(boxes[a], signed, h) => Traced(new, signed, h)
  BY <1>1, <1>3, RenamedTraces, MailboxAssumption
<1> HIDE DEF new
<1>5. /\ DOMAIN boxes' = DOMAIN boxes /\ boxes'[a] = new
      /\ \A x \in DOMAIN boxes : x # a => boxes'[x] = boxes[x]
  BY <1>1, <1>2
<1>6. LettersPast'
  BY <1>2 DEF TracedInv, LettersPast
<1>7. \A x \in DOMAIN boxes' : NamesFit(boxes'[x].former_names, height')
  BY <1>2, <1>4, <1>5, Zenon DEF TracedInv
<1>8. ASSUME NEW l \in letters', l.signed # None
      PROVE  l.from \in DOMAIN boxes' /\ Traced(boxes'[l.from], l.signed, l.height)
  <2>1. l \in letters /\ l.height \in 0..height
    BY <1>1, <1>2 DEF TracedInv, LettersPast, Letter
  <2>2. l.from \in DOMAIN boxes /\ Traced(boxes[l.from], l.signed, l.height)
    BY <1>8, <2>1 DEF TracedInv
  <2>3. CASE l.from = a
    <3>1. Traced(new, l.signed, l.height)
      BY <1>4, <2>1, <2>2, <2>3
    <3> QED
      BY <1>5, <2>2, <2>3, <3>1
  <2>4. CASE l.from # a
    BY <1>5, <2>2, <2>4
  <2> QED
    BY <2>3, <2>4
<1> QED
  BY <1>6, <1>7, <1>8 DEF TracedInv, NamesFit, Traced, NamesAt

\* A letter that enters the chain is signed with the name of its block.
LEMMA SendTraced ==
  ASSUME TypeOK, TracedInv, NEW a \in Accounts, SendLetter(a)
  PROVE  TracedInv'
<1> DEFINE t == Head(pending[a])
           new == [id |-> t.id, from |-> a, to |-> t.to, enc_pub |-> t.key,
                   height |-> height,
                   signed |-> IF Registered(a) THEN boxes[a].name ELSE None]
<1>1. letters' = letters \cup {new} /\ boxes' = boxes /\ height' = height
  BY DEF SendLetter
<1>2. /\ new.from = a /\ new.height = height
      /\ new.signed = IF Registered(a) THEN boxes[a].name ELSE None
  OBVIOUS
<1> HIDE DEF new
<1>3. height \in Nat
  BY DEF TypeOK
<1>4. LettersPast'
  BY <1>1, <1>2, <1>3 DEF TracedInv, LettersPast
<1>5. \A x \in DOMAIN boxes' : NamesFit(boxes'[x].former_names, height')
  BY <1>1 DEF TracedInv
<1>6. ASSUME new.signed # None
      PROVE  new.from \in DOMAIN boxes /\ Traced(boxes[new.from], new.signed, new.height)
  <2>1. a \in DOMAIN boxes /\ new.signed = boxes[a].name
    BY <1>2, <1>6 DEF Registered
  <2>2. boxes[a] \in Box /\ NamesFit(boxes[a].former_names, height)
    BY <2>1 DEF TypeOK, TracedInv
  <2>3. Len(boxes[a].former_names) \in Nat
    BY <2>2 DEF Box
  <2>4. Len(boxes[a].former_names) > 0
          => boxes[a].former_names[Len(boxes[a].former_names)].until <= height
    BY <2>2, <2>3 DEF NamesFit
  <2>5. boxes[a].name \in NamesAt(boxes[a], height)
    BY <2>2, <2>4, NameAt
  <2> QED
    BY <1>2, <2>1, <2>5 DEF Traced
<1>7. ASSUME NEW l \in letters', l.signed # None
      PROVE  l.from \in DOMAIN boxes' /\ Traced(boxes'[l.from], l.signed, l.height)
  BY <1>1, <1>6, <1>7, Zenon DEF TracedInv
<1> QED
  BY <1>4, <1>5, <1>7 DEF TracedInv, NamesFit, Traced, NamesAt

\* Every step keeps the letters traced.
LEMMA NextTraced == ASSUME TypeOK, TracedInv, [Next]_vars PROVE TracedInv'
<1>1. ASSUME UNCHANGED chainVars PROVE TracedInv'
  BY <1>1, SameNamesTraced DEF chainVars
<1>2. ASSUME SealBlock PROVE TracedInv'
  <2>1. height' = height + 1 /\ letters' = letters /\ boxes' = boxes
    BY <1>2 DEF SealBlock
  <2> QED
    BY <2>1, SameNamesTraced
<1>3. ASSUME NEW a \in Accounts, NEW name \in Name, Register(a, name) PROVE TracedInv'
  BY <1>3, RegisterTraced
<1>4. ASSUME NEW a \in Accounts, NEW name \in Name, Rename(a, name) PROVE TracedInv'
  BY <1>4, RenameTraced
<1>5. ASSUME NEW a \in Accounts, RotateKey(a) PROVE TracedInv'
  <2> DEFINE t == Head(pending[a])
  <2>1. t \in Tx /\ t.type = "rotate"
    BY <1>5, TakenType DEF RotateKey
  <2>2. a \in DOMAIN boxes /\ boxes[a] \in Box /\ height \in Nat
    BY <1>5 DEF RotateKey, Registered, TypeOK
  <2>3. /\ boxes' = [boxes EXCEPT ![a] = Rotated(boxes[a], t)]
        /\ height' = height /\ letters' = letters
    BY <1>5 DEF RotateKey
  <2> HIDE DEF t
  <2>4. PICK new : new = Rotated(boxes[a], t)
    OBVIOUS
  <2>5. new.former_names = boxes[a].former_names /\ new.name = boxes[a].name
    BY <2>1, <2>2, <2>4, RotatedFields, RotatedName
  <2>6. /\ DOMAIN boxes' = DOMAIN boxes /\ boxes'[a] = new
        /\ \A x \in DOMAIN boxes : x # a => boxes'[x] = boxes[x]
    BY <2>2, <2>3, <2>4
  <2> QED
    BY <2>3, <2>5, <2>6, SameNamesTraced
<1>6. ASSUME NEW a \in Accounts, SendLetter(a) PROVE TracedInv'
  BY <1>6, SendTraced
<1>7. ASSUME NEW a \in Accounts,
             \/ DropPending(a)
             \/ \E key \in Keys, backup \in Backups : PublishKey(a, key, backup)
             \/ KeepKey(a)
             \/ \E to \in Accounts, id \in LetterId : Compose(a, to, id)
             \/ PostLetter(a) \/ ClientFails(a)
             \/ \E key \in Keys : BurnKey(a, key)
             \/ RebuildWallet(a) \/ RecoverKeys(a)
      PROVE  TracedInv'
  BY <1>1, <1>7 DEF DropPending, PublishKey, KeepKey, Compose, PostLetter,
     ClientFails, BurnKey, RebuildWallet, RecoverKeys
<1>8. ASSUME UNCHANGED vars PROVE TracedInv'
  <2>1. UNCHANGED chainVars
    BY <1>8 DEF vars
  <2> QED
    BY <1>1, <2>1
<1> QED
  BY <1>2, <1>3, <1>4, <1>5, <1>6, <1>7, <1>8 DEF Next

\* The record of a sender tells the name it went by in the block of any letter
\* it signed, as far back as the record goes: however often accounts rename
\* themselves, forgetting the oldest name leaves the later ones in place.
THEOREM LettersStayTraced == Spec => []NamesAreTraced
<1>1. TracedInv => NamesAreTraced
  BY DEF TracedInv, Traced, NamesAreTraced
<1>2. TypeOK /\ TracedInv /\ [Next]_vars => (TypeOK /\ TracedInv)'
  BY NextType, NextTraced
<1>3. Init => TypeOK /\ TracedInv
  BY InitType, InitTraced
<1> QED
  BY <1>1, <1>2, <1>3, PTL DEF Spec

-----------------------------------------------------------------------------
(***************************************************************************)
(* What a phone keeps of letters a seed has yet to take (Carry).           *)
(***************************************************************************)

\* How many of I are not after i.
Rank(I, i) == Cardinality({j \in I : j < i}) + 1

LEMMA RankGrows ==
  ASSUME NEW I \in SUBSET Nat, IsFiniteSet(I), NEW i \in I
  PROVE  /\ Rank(I, i) \in 1 .. Cardinality(I)
         /\ \A k \in I : i < k => Rank(I, i) < Rank(I, k)
<1> DEFINE before(k) == {j \in I : j < k}
<1>1. ASSUME NEW k
      PROVE  IsFiniteSet(before(k)) /\ Cardinality(before(k)) \in Nat
  BY FS_Subset, FS_CardinalityType
<1>2. Cardinality(I) \in Nat
  BY FS_CardinalityType
<1>3. ASSUME NEW T \in SUBSET I, NEW k \in I, k \notin before(k), before(k) \subseteq T, k \in T
      PROVE  Cardinality(before(k)) < Cardinality(T)
  <2>1. IsFiniteSet(T) /\ Cardinality(T) \in Nat
    BY FS_Subset, FS_CardinalityType
  <2>2. Cardinality(before(k)) <= Cardinality(T) /\ Cardinality(before(k)) # Cardinality(T)
    BY <1>3, <2>1, FS_Subset
  <2> QED BY <1>1, <2>1, <2>2
<1>4. Cardinality(before(i)) < Cardinality(I)
  BY <1>3
<1>5. ASSUME NEW k \in I, i < k
      PROVE  Cardinality(before(i)) < Cardinality(before(k))
  <2>1. /\ before(k) \in SUBSET I /\ i \notin before(i) /\ i \in before(k)
        /\ \A j \in before(i) : j \in before(k)
    BY <1>5
  <2>2. before(i) \subseteq before(k)
    BY <2>1, Zenon
  <2> HIDE DEF before
  <2> QED BY <1>3, <2>1, <2>2
<1>6. \A k : Rank(I, k) = Cardinality(before(k)) + 1
  BY DEF Rank
<1> HIDE DEF before
<1>7. ASSUME NEW k \in I, i < k PROVE Rank(I, i) < Rank(I, k)
  BY <1>1, <1>5, <1>6, <1>7
<1> QED BY <1>1, <1>2, <1>4, <1>6, <1>7

\* The places of I are numbered from 1, each place once.
LEMMA NthIs ==
  ASSUME NEW I \in SUBSET Nat, IsFiniteSet(I)
  PROVE  /\ Cardinality(I) \in Nat
         /\ \A k \in 1 .. Cardinality(I) : Nth(I, k) \in I /\ Rank(I, Nth(I, k)) = k
         /\ \A i \in I : Rank(I, i) \in 1 .. Cardinality(I) /\ Nth(I, Rank(I, i)) = i
<1>1. Cardinality(I) \in Nat
  BY FS_CardinalityType
<1>2. \A i \in I : Rank(I, i) \in 1 .. Cardinality(I)
  BY RankGrows
<1>3. ASSUME NEW i \in I, NEW k \in I, Rank(I, i) = Rank(I, k) PROVE i = k
  <2>1. ~(i < k) /\ ~(k < i)
    BY <1>2, <1>3, RankGrows
  <2> QED BY <2>1
<1> DEFINE r == [i \in I |-> Rank(I, i)]
<1>4. r \in Injection(I, 1 .. Cardinality(I))
  BY <1>2, <1>3 DEF Injection, IsInjective
<1>5. IsFiniteSet(1 .. Cardinality(I)) /\ Cardinality(1 .. Cardinality(I)) = Cardinality(I)
  BY <1>1, FS_Interval
<1>6. r \in Surjection(I, 1 .. Cardinality(I))
  BY <1>4, <1>5, FS_Injection
<1>7. \A k \in 1 .. Cardinality(I) : \E i \in I : Rank(I, i) = k
  BY <1>6 DEF Surjection
<1>8. ASSUME NEW k \in 1 .. Cardinality(I)
      PROVE  Nth(I, k) \in I /\ Rank(I, Nth(I, k)) = k
  <2>1. PICK i \in I : Rank(I, i) = k
    BY <1>7
  <2>2. \A j \in I : Rank(I, j) = k <=> Cardinality({m \in I : m < j}) = k - 1
    <3> SUFFICES ASSUME NEW j \in I
                 PROVE  Rank(I, j) = k <=> Cardinality({m \in I : m < j}) = k - 1
      OBVIOUS
    <3>1. Cardinality({m \in I : m < j}) \in Nat
      BY FS_Subset, FS_CardinalityType
    <3> QED BY <3>1 DEF Rank
  <2>3. \E j \in I : Cardinality({m \in I : m < j}) = k - 1
    BY <2>1, <2>2
  <2>4. Nth(I, k) \in I /\ Cardinality({m \in I : m < Nth(I, k)}) = k - 1
    BY <2>3 DEF Nth
  <2> QED BY <2>2, <2>4
<1>9. ASSUME NEW i \in I PROVE Nth(I, Rank(I, i)) = i
  BY <1>2, <1>3, <1>8
<1> QED BY <1>1, <1>2, <1>8, <1>9

\* What is selected is what is at the places asked for, each once.
LEMMA SelectedIs ==
  ASSUME NEW S, NEW s \in Seq(S), NEW I \in SUBSET DOMAIN s
  PROVE  /\ Selected(s, I) \in Seq(S)
         /\ Len(Selected(s, I)) = Cardinality(I)
         /\ IsFiniteSet(I)
         /\ \A i \in I : \E k \in DOMAIN Selected(s, I) : Selected(s, I)[k] = s[i]
         /\ \A k \in DOMAIN Selected(s, I) : Nth(I, k) \in I /\ Selected(s, I)[k] = s[Nth(I, k)]
         /\ \A j, k \in DOMAIN Selected(s, I) : Nth(I, j) = Nth(I, k) => j = k
<1>1. Len(s) \in Nat /\ DOMAIN s = 1 .. Len(s) /\ \A i \in 1 .. Len(s) : s[i] \in S
  BY LenProperties
<1>2. IsFiniteSet(I) /\ I \in SUBSET Nat
  <2>1. IsFiniteSet(1 .. Len(s)) /\ I \in SUBSET (1 .. Len(s))
    BY <1>1, FS_Interval
  <2> QED BY <2>1, FS_Subset
<1> DEFINE t == Selected(s, I)
<1>3. Cardinality(I) \in Nat
  BY <1>2, NthIs
<1>4. \A k \in 1 .. Cardinality(I) : Nth(I, k) \in I /\ Rank(I, Nth(I, k)) = k
  BY <1>2, NthIs
<1>5. \A i \in I : Rank(I, i) \in 1 .. Cardinality(I) /\ Nth(I, Rank(I, i)) = i
  BY <1>2, NthIs
<1>6. t = [k \in 1 .. Cardinality(I) |-> s[Nth(I, k)]]
  BY DEF Selected
<1>7. /\ DOMAIN t = 1 .. Cardinality(I)
      /\ \A k \in 1 .. Cardinality(I) : t[k] = s[Nth(I, k)] /\ t[k] \in S
  BY <1>1, <1>4, <1>6
<1>8. t \in Seq(S) /\ Len(t) = Cardinality(I)
  <2>1. t \in [1 .. Cardinality(I) -> S]
    BY <1>6, <1>7
  <2> QED BY <1>3, <2>1
<1> QED BY <1>2, <1>4, <1>5, <1>7, <1>8

-----------------------------------------------------------------------------
(* Outboxes.                                                                *)

\* What an outbox of p holds: letters of L, each once, and as its own only
\* letters p wrote.
OutboxFits(items, p, L) ==
  /\ items \in Seq(Item)
  /\ \A i, j \in DOMAIN items : items[i].tx = items[j].tx => i = j
  /\ \A i \in DOMAIN items : items[i].tx \in L /\ (items[i].mine => items[i].tx.from = p)

\* A letter waits there as an own one.
Owns(items, tx) == \E i \in DOMAIN items : items[i].mine /\ items[i].tx = tx

LEMMA OutboxGrows ==
  ASSUME NEW p, NEW L, NEW M, L \subseteq M, NEW items, OutboxFits(items, p, L)
  PROVE  OutboxFits(items, p, M)
BY DEF OutboxFits

LEMMA EmptyOutbox ==
  ASSUME NEW p, NEW L
  PROVE  OutboxFits(<<>>, p, L)
<1>1. <<>> \in Seq(Item) /\ DOMAIN <<>> = {}
  BY EmptySeq
<1> QED BY <1>1 DEF OutboxFits

LEMMA SelectedFits ==
  ASSUME NEW p, NEW L, NEW items, OutboxFits(items, p, L), NEW I \in SUBSET DOMAIN items
  PROVE  OutboxFits(Selected(items, I), p, L)
<1>1. items \in Seq(Item)
  BY DEF OutboxFits
<1> DEFINE s == Selected(items, I)
<1>2. s \in Seq(Item)
  BY <1>1, SelectedIs
<1>3. \A k \in DOMAIN s : Nth(I, k) \in I /\ s[k] = items[Nth(I, k)]
  BY <1>1, SelectedIs
<1>4. \A j, k \in DOMAIN s : Nth(I, j) = Nth(I, k) => j = k
  BY <1>1, SelectedIs
<1> HIDE DEF s
<1>5. \A k \in DOMAIN s : Nth(I, k) \in DOMAIN items
  BY <1>3
<1>6. \A i, j \in DOMAIN s : s[i].tx = s[j].tx => i = j
  BY <1>3, <1>4, <1>5 DEF OutboxFits
<1>7. \A i \in DOMAIN s : s[i].tx \in L /\ (s[i].mine => s[i].tx.from = p)
  BY <1>3, <1>5 DEF OutboxFits
<1>8. OutboxFits(s, p, L)
  BY <1>2, <1>6, <1>7 DEF OutboxFits
<1> QED BY <1>8 DEF s

LEMMA SelectedOwns ==
  ASSUME NEW items \in Seq(Item), NEW I \in SUBSET DOMAIN items, NEW tx,
         NEW i \in I, items[i].mine, items[i].tx = tx
  PROVE  Owns(Selected(items, I), tx) /\ Holds(Selected(items, I), tx)
<1> DEFINE s == Selected(items, I)
<1>1. \A j \in I : \E k \in DOMAIN s : s[k] = items[j]
  BY SelectedIs
<1> HIDE DEF s
<1>2. PICK k \in DOMAIN s : s[k] = items[i]
  BY <1>1
<1>3. Owns(s, tx) /\ Holds(s, tx)
  BY <1>2 DEF Owns, Holds
<1> QED BY <1>3 DEF s

LEMMA MineHolds ==
  ASSUME NEW items \in Seq(Item), NEW tx
  PROVE  Holds(Mine(items), tx) <=> Owns(items, tx)
<1> DEFINE I == Owned(items)
           s == Selected(items, I)
<1>1. I \in SUBSET DOMAIN items /\ \A i \in I : items[i].mine
  BY DEF Owned
<1>2. \A i \in DOMAIN items : items[i].mine => i \in I
  BY DEF Owned
<1>3. Mine(items) = s
  BY DEF Mine
<1>4. ASSUME Owns(items, tx) PROVE Holds(s, tx)
  <2>1. PICK i \in DOMAIN items : items[i].mine /\ items[i].tx = tx
    BY <1>4 DEF Owns
  <2> HIDE DEF I
  <2> QED BY <1>1, <1>2, <2>1, SelectedOwns
<1> HIDE DEF I
<1>5. ASSUME Holds(s, tx) PROVE Owns(items, tx)
  <2>1. \A k \in DOMAIN s : Nth(I, k) \in I /\ s[k] = items[Nth(I, k)]
    BY <1>1, SelectedIs
  <2> HIDE DEF s
  <2>2. PICK k \in DOMAIN s : s[k].tx = tx
    BY <1>5 DEF Holds
  <2>3. Nth(I, k) \in I /\ items[Nth(I, k)].tx = tx
    BY <2>1, <2>2
  <2> QED BY <1>1, <2>3 DEF Owns
<1> QED BY <1>3, <1>4, <1>5

LEMMA WithoutFits ==
  ASSUME NEW p, NEW L, NEW items, OutboxFits(items, p, L), NEW tx
  PROVE  /\ OutboxFits(Without(items, tx), p, L)
         /\ \A t : t # tx /\ Owns(items, t) => Owns(Without(items, tx), t)
<1> DEFINE I == {i \in DOMAIN items : items[i].tx # tx}
<1>1. I \in SUBSET DOMAIN items /\ Without(items, tx) = Selected(items, I)
  BY DEF Without
<1>2. items \in Seq(Item)
  BY DEF OutboxFits
<1>3. ASSUME NEW t, t # tx, Owns(items, t) PROVE Owns(Selected(items, I), t)
  <2>1. PICK i \in DOMAIN items : items[i].mine /\ items[i].tx = t
    BY <1>3 DEF Owns
  <2>2. i \in I
    BY <1>3, <2>1
  <2> HIDE DEF I
  <2> QED BY <1>1, <1>2, <2>1, <2>2, SelectedOwns
<1> HIDE DEF I
<1> QED BY <1>1, <1>3, SelectedFits

LEMMA PruneFits ==
  ASSUME NEW p, NEW L, NEW items, OutboxFits(items, p, L)
  PROVE  /\ OutboxFits(Prune(items), p, L)
         /\ \A t : Owns(items, t) => Owns(Prune(items), t)
<1> DEFINE surplus == Len(items) - MaxItems
           old == {i \in DOMAIN items \ Owned(items) :
                     Cardinality({j \in DOMAIN items \ Owned(items) : j < i}) < surplus}
           I == DOMAIN items \ old
<1>1. I \in SUBSET DOMAIN items /\ Prune(items) = Selected(items, I)
  BY DEF Prune
<1>2. \A i \in DOMAIN items : items[i].mine => i \in I
  BY DEF Owned
<1>3. items \in Seq(Item)
  BY DEF OutboxFits
<1> HIDE DEF I
<1>4. ASSUME NEW t, Owns(items, t) PROVE Owns(Selected(items, I), t)
  <2>1. PICK i \in DOMAIN items : items[i].mine /\ items[i].tx = t
    BY <1>4 DEF Owns
  <2> QED BY <1>1, <1>2, <1>3, <2>1, SelectedOwns
<1> QED BY <1>1, <1>4, SelectedFits

-----------------------------------------------------------------------------
(* What the phones and the seed have.                                       *)

\* Every letter there is, and those a phone has sent or queued: only these wait
\* anywhere.
Sealed == UNION {written[p] : p \in Phones}
Queued == UNION {returned[p] : p \in Phones}

\* Letters of a phone are its own and numbered from 1.
WrittenFits ==
  /\ written \in [Phones -> SUBSET LetterTx]
  /\ \A p \in Phones :
        /\ IsFiniteSet(written[p]) /\ Cardinality(written[p]) <= MaxLetters
        /\ \A tx \in written[p] : tx.from = p /\ tx.n <= Cardinality(written[p])

\* The letter sendLetter is at work on is sealed and waits nowhere.
LettersFit ==
  /\ WrittenFits
  /\ returned \in [Phones -> SUBSET LetterTx]
  /\ draft \in [Phones -> SUBSET Draft]
  /\ \A p \in Phones :
        /\ returned[p] \subseteq written[p]
        /\ \A d \in draft[p] : d.tx \in written[p] \ returned[p]

TodoFits(todo, L) == todo \in Seq(LetterTx) /\ \A i \in DOMAIN todo : todo[i] \in L

\* The seed takes a letter once.
ChainFits(c, L) == TodoFits(c, L) /\ \A i, j \in DOMAIN c : c[i] = c[j] => i = j

OutboxesFit(b, L) == b \in [Phones -> Seq(Item)] /\ \A p \in Phones : OutboxFits(b[p], p, L)

Drains == [on : BOOLEAN, todo : Seq(LetterTx), changed : BOOLEAN, refused : Seq(LetterTx)]
Tasks == [on : BOOLEAN, items : Seq(Item), todo : Seq(LetterTx), changed : BOOLEAN]

\* What is still to be tried; in a drain of the app, what was refused is its own.
RoundFits(d, L) == TodoFits(d.todo, L) /\ (d.todo # <<>> => d.on)
DrainFits(d, L, R) ==
  RoundFits(d, L) /\ TodoFits(d.refused, R) /\ (d.refused # <<>> => d.on)
DrainsFit(d, L, r) ==
  d \in [Phones -> Drains] /\ \A p \in Phones : DrainFits(d[p], L, r[p])

TaskFits(k, p, L, begun) ==
  RoundFits(k, L) /\ OutboxFits(k.items, p, L) /\ (k.on => begun # 0)
TasksFit(k, L, begun) ==
  k \in [Phones -> Tasks] /\ \A p \in Phones : TaskFits(k[p], p, L, begun)

\* Only what was queued is ever said to be refused.
SaidFits ==
  /\ told \in [Phones -> SUBSET LetterTx] /\ muted \in [Phones -> SUBSET LetterTx]
  /\ \A p \in Phones : told[p] \cup muted[p] \subseteq returned[p]

CountsFit == mishaps \in Nat /\ tasks \in Nat /\ mishaps + tasks <= MaxMishaps

CarryIInv ==
  /\ LettersFit
  /\ ChainFits(chain, Sealed)
  /\ OutboxesFit(outbox, Queued) /\ OutboxesFit(file, Queued)
  /\ DrainsFit(drain, Queued, returned) /\ TasksFit(task, Queued, tasks)
  /\ known \in [Phones -> 0 .. MaxLetters]
  /\ SaidFits
  /\ CountsFit

\* What QueuedIsKept says of one letter: the chain refused it, or it waits.
Said(p) == told[p] \cup muted[p] \cup Refusals(p)
Waits(p, tx) ==
  /\ tasks = 0 => Owns(file[p], tx)
  /\ tasks = 0 \/ mishaps = 0 => Owns(outbox[p], tx)
KeptLetter(p, tx) == Has(tx) \/ tx \in Said(p) \/ Waits(p, tx)

KeptInv == \A p \in Writers : \A tx \in returned[p] : KeptLetter(p, tx)

LEMMA KeptIs ==
  ASSUME CarryIInv
  PROVE  KeptInv <=> QueuedIsKept
<1>1. \A p \in Phones : outbox[p] \in Seq(Item) /\ file[p] \in Seq(Item)
  BY DEF CarryIInv, OutboxesFit
<1>2. ASSUME NEW p \in Writers, NEW tx
      PROVE  /\ Holds(Mine(file[p]), tx) <=> Owns(file[p], tx)
             /\ Holds(Mine(outbox[p]), tx) <=> Owns(outbox[p], tx)
  BY <1>1, MineHolds, CarryAssumption
<1> QED BY <1>2 DEF KeptInv, KeptLetter, Said, Waits, QueuedIsKept

LEMMA SealedLetters ==
  ASSUME WrittenFits
  PROVE  /\ Sealed \subseteq LetterTx
         /\ \A tx \in Sealed : tx.from \in Phones /\ tx \in written[tx.from]
BY DEF WrittenFits, Sealed

LEMMA QueuedLetters ==
  ASSUME LettersFit
  PROVE  /\ Queued \subseteq Sealed /\ Queued \subseteq LetterTx
         /\ \A tx \in Queued : tx.from \in Phones /\ tx \in returned[tx.from]
<1>1. \A p \in Phones : returned[p] \subseteq written[p] /\ returned[p] \subseteq LetterTx
  BY DEF LettersFit
<1>2. \A p \in Phones : \A tx \in returned[p] : tx.from = p
  BY <1>1 DEF LettersFit, WrittenFits
<1> QED BY <1>1, <1>2 DEF Queued, Sealed

\* What a phone owns of the letters that wait, it has sent or queued itself.
LEMMA OwnedReturned ==
  ASSUME LettersFit, NEW p \in Phones, NEW items, OutboxFits(items, p, Queued),
         NEW tx, Owns(items, tx)
  PROVE  tx \in returned[p]
<1>1. PICK i \in DOMAIN items : items[i].mine /\ items[i].tx = tx
  BY DEF Owns
<1>2. items[i].tx \in Queued /\ items[i].tx.from = p
  BY <1>1 DEF OutboxFits
<1> QED BY <1>1, <1>2, QueuedLetters

LEMMA BoxSet ==
  ASSUME NEW b, NEW L, OutboxesFit(b, L), NEW p \in Phones, NEW items, OutboxFits(items, p, L),
         NEW c, c = [b EXCEPT ![p] = items]
  PROVE  /\ OutboxesFit(c, L) /\ c[p] = items
         /\ \A q \in Phones : q # p => c[q] = b[q]
<1>1. b \in [Phones -> Seq(Item)] /\ items \in Seq(Item)
  BY DEF OutboxesFit, OutboxFits
<1>2. \A q \in Phones : c[q] = IF q = p THEN items ELSE b[q]
  BY <1>1
<1>3. c \in [Phones -> Seq(Item)]
  BY <1>1
<1> QED BY <1>1, <1>2, <1>3 DEF OutboxesFit

LEMMA DrainSet ==
  ASSUME NEW d, NEW L, NEW r, DrainsFit(d, L, r), NEW p \in Phones,
         NEW y \in Drains, DrainFits(y, L, r[p])
  PROVE  DrainsFit([d EXCEPT ![p] = y], L, r)
<1>1. \A q \in Phones : [d EXCEPT ![p] = y][q] = IF q = p THEN y ELSE d[q]
  BY DEF DrainsFit
<1> QED BY <1>1 DEF DrainsFit

LEMMA TaskSet ==
  ASSUME NEW k, NEW L, NEW n, TasksFit(k, L, n), NEW p \in Phones, NEW y \in Tasks,
         TaskFits(y, p, L, n)
  PROVE  TasksFit([k EXCEPT ![p] = y], L, n)
<1>1. \A q \in Phones : [k EXCEPT ![p] = y][q] = IF q = p THEN y ELSE k[q]
  BY DEF TasksFit
<1> QED BY <1>1 DEF TasksFit

\* More letters take nothing away.
LEMMA MoreLetters ==
  ASSUME NEW L, NEW M, L \subseteq M
  PROVE  /\ \A c : ChainFits(c, L) => ChainFits(c, M)
         /\ \A b : OutboxesFit(b, L) => OutboxesFit(b, M)
         /\ \A k, n : TasksFit(k, L, n) => TasksFit(k, M, n)
<1>1. \A todo : TodoFits(todo, L) => TodoFits(todo, M)
  BY DEF TodoFits
<1>2. \A items, p : OutboxFits(items, p, L) => OutboxFits(items, p, M)
  BY OutboxGrows
<1>3. \A c : ChainFits(c, L) => ChainFits(c, M)
  BY <1>1 DEF ChainFits
<1>4. \A b : OutboxesFit(b, L) => OutboxesFit(b, M)
  BY <1>2 DEF OutboxesFit
<1>5. \A d : RoundFits(d, L) => RoundFits(d, M)
  BY <1>1 DEF RoundFits
<1>6. \A k, n : TasksFit(k, L, n) => TasksFit(k, M, n)
  BY <1>2, <1>5 DEF TasksFit, TaskFits
<1> QED BY <1>3, <1>4, <1>6

LEMMA MoreReturned ==
  ASSUME NEW d, NEW L, NEW r, DrainsFit(d, L, r), NEW M, L \subseteq M,
         NEW s, \A p \in Phones : r[p] \subseteq s[p]
  PROVE  DrainsFit(d, M, s)
<1> SUFFICES ASSUME NEW p \in Phones PROVE DrainFits(d[p], M, s[p])
  BY DEF DrainsFit
<1>1. RoundFits(d[p], L) /\ TodoFits(d[p].refused, r[p]) /\ (d[p].refused # <<>> => d[p].on)
  BY DEF DrainsFit, DrainFits
<1>2. RoundFits(d[p], M)
  BY <1>1 DEF RoundFits, TodoFits
<1>3. TodoFits(d[p].refused, s[p])
  BY <1>1 DEF TodoFits
<1> QED BY <1>1, <1>2, <1>3 DEF DrainFits

\* What an answer or the lack of one leaves of the chain and the counters.
LEMMA SubmitFits ==
  ASSUME CarryIInv, NEW L, L = Sealed, NEW tx \in L, tx \in LetterTx,
         NEW outcome, Submit(tx, outcome)
  PROVE  /\ ChainFits(chain', L)
         /\ \A t : Has(t) => Has(t)'
         /\ outcome = "delivered" => Has(tx)'
         /\ mishaps' \in Nat /\ mishaps <= mishaps' /\ mishaps' + tasks <= MaxMishaps
<1>1. chain \in Seq(LetterTx) /\ ChainFits(chain, L) /\ CountsFit
  BY DEF CarryIInv, ChainFits, TodoFits
<1>2. MaxMishaps \in Nat /\ mishaps \in Nat /\ tasks \in Nat /\ mishaps + tasks <= MaxMishaps
  BY <1>1, CarryAssumption DEF CountsFit
<1>3. /\ mishaps' = mishaps \/ (mishaps' = mishaps + 1 /\ MayFail)
      /\ \/ chain' = chain /\ (outcome = "delivered" => Has(tx))
         \/ chain' = Append(chain, tx) /\ ~Has(tx)
  BY DEF Submit, Fits
<1>4. mishaps' \in Nat /\ mishaps <= mishaps' /\ mishaps' + tasks <= MaxMishaps
  BY <1>2, <1>3 DEF MayFail
<1>5. CASE chain' = chain /\ (outcome = "delivered" => Has(tx))
  <2>1. \A t : Has(t)' <=> Has(t)
    BY <1>5 DEF Has
  <2> QED BY <1>1, <1>4, <1>5, <2>1
<1>6. CASE chain' = Append(chain, tx) /\ ~Has(tx)
  <2> DEFINE n == Len(chain)
  <2>1. /\ chain' \in Seq(LetterTx) /\ Len(chain') = n + 1 /\ n \in Nat
        /\ \A i \in 1 .. n : chain'[i] = chain[i]
        /\ chain'[n + 1] = tx
    BY <1>1, <1>6, AppendProperties, LenProperties
  <2>2. DOMAIN chain = 1 .. n /\ DOMAIN chain' = 1 .. n + 1
    BY <1>1, <2>1, LenProperties
  <2> HIDE DEF n
  <2>3. \A i \in 1 .. n : chain[i] # tx
    BY <1>6 DEF Has, n
  <2>4. TodoFits(chain', L)
    <3>1. \A i \in 1 .. n : chain[i] \in L
      BY <1>1, <2>2 DEF ChainFits, TodoFits
    <3>2. \A i \in 1 .. n + 1 : i \in 1 .. n \/ i = n + 1
      BY <2>1
    <3> QED BY <2>1, <2>2, <3>1, <3>2 DEF TodoFits
  <2>5. ASSUME NEW i \in 1 .. n + 1, NEW j \in 1 .. n + 1, chain'[i] = chain'[j] PROVE i = j
    <3>1. CASE i \in 1 .. n /\ j \in 1 .. n
      BY <1>1, <2>1, <2>2, <2>5, <3>1 DEF ChainFits
    <3>2. CASE i = n + 1 /\ j \in 1 .. n
      BY <2>1, <2>3, <2>5, <3>2
    <3>3. CASE j = n + 1 /\ i \in 1 .. n
      BY <2>1, <2>3, <2>5, <3>3
    <3> QED BY <2>1, <3>1, <3>2, <3>3
  <2>6. ChainFits(chain', L)
    BY <2>2, <2>4, <2>5 DEF ChainFits
  <2>7. ASSUME NEW t, Has(t) PROVE Has(t)'
    <3>1. PICK i \in 1 .. n : chain[i] = t
      BY <2>7 DEF Has, n
    <3>2. i \in 1 .. n + 1 /\ chain'[i] = t
      BY <2>1, <3>1
    <3> QED BY <2>1, <3>2 DEF Has
  <2>8. Has(tx)'
    BY <2>1 DEF Has
  <2> QED BY <1>4, <2>6, <2>7, <2>8
<1> QED BY <1>3, <1>5, <1>6

\* A seed has no more letters of a phone than it wrote, and no more wait there
\* as its own.
LEMMA NextNonceFits ==
  ASSUME CarryIInv, NEW p \in Phones
  PROVE  NextNonce(p) \in 0 .. Cardinality(written[p])
<1> DEFINE I == {i \in 1 .. Len(chain) : chain[i].from = p}
           f == [i \in I |-> chain[i]]
<1>1. chain \in Seq(LetterTx) /\ DOMAIN chain = 1 .. Len(chain) /\ Len(chain) \in Nat
  BY LenProperties DEF CarryIInv, ChainFits, TodoFits
<1>2. WrittenFits /\ IsFiniteSet(written[p])
  BY DEF CarryIInv, LettersFit, WrittenFits
<1>3. \A i \in I : chain[i] \in written[p]
  <2>1. \A i \in 1 .. Len(chain) : chain[i] \in Sealed
    BY <1>1 DEF CarryIInv, ChainFits, TodoFits
  <2> QED BY <1>2, <2>1, SealedLetters
<1>4. f \in Injection(I, written[p])
  <2>1. \A i, j \in I : f[i] = f[j] => i = j
    BY <1>1 DEF CarryIInv, ChainFits
  <2> QED BY <1>3, <2>1 DEF Injection, IsInjective
<1>5. IsFiniteSet(I) /\ Cardinality(I) <= Cardinality(written[p])
  BY <1>2, <1>4, FS_Injection
<1> QED BY <1>2, <1>5, FS_CardinalityType DEF NextNonce

LEMMA MineFits ==
  ASSUME CarryIInv, NEW p \in Phones
  PROVE  Len(Mine(outbox[p])) \in 0 .. Cardinality(written[p])
<1> DEFINE s == outbox[p]
           I == Owned(s)
           f == [i \in I |-> s[i].tx]
<1>1. /\ s \in Seq(Item) /\ OutboxFits(s, p, Queued)
      /\ LettersFit /\ IsFiniteSet(written[p])
  BY DEF CarryIInv, LettersFit, OutboxesFit, WrittenFits
<1>2. I \in SUBSET DOMAIN s /\ \A i \in I : s[i].mine
  BY DEF Owned
<1>3. Len(Mine(s)) = Cardinality(I)
  BY <1>1, <1>2, SelectedIs DEF Mine
<1> HIDE DEF s, I
<1>4. \A i \in I : s[i].tx \in written[p]
  BY <1>1, <1>2, OwnedReturned DEF Owns, LettersFit
<1>5. \A i, j \in I : s[i].tx = s[j].tx => i = j
  BY <1>1, <1>2 DEF OutboxFits
<1>6. f \in Injection(I, written[p])
  BY <1>4, <1>5 DEF Injection, IsInjective
<1>7. IsFiniteSet(I) /\ Cardinality(I) <= Cardinality(written[p])
  BY <1>1, <1>6, FS_Injection
<1>8. Cardinality(I) \in 0 .. Cardinality(written[p])
  BY <1>1, <1>7, FS_CardinalityType
<1> QED BY <1>3, <1>8 DEF s

-----------------------------------------------------------------------------
(* The steps.                                                               *)

\* A letter stays kept when the file keeps what it and the outbox had, and the
\* outbox keeps what it had; each as far as QueuedIsKept still asks for it.
LEMMA KeptStays ==
  ASSUME CarryIInv, CarryIInv', KeptInv, NEW p \in Writers, NEW tx \in returned[p],
         Has(tx) => Has(tx)', tx \in Said(p) => KeptLetter(p, tx)',
         tasks <= tasks', mishaps <= mishaps',
         tasks' = 0 /\ Owns(file[p], tx) /\ Owns(outbox[p], tx) => Owns(file'[p], tx),
         (tasks' = 0 \/ mishaps' = 0) /\ Owns(outbox[p], tx) /\ (tasks' = 0 => Owns(file[p], tx))
            => Owns(outbox'[p], tx)
  PROVE  KeptLetter(p, tx)'
<1>1. KeptLetter(p, tx)
  BY DEF KeptInv
<1>2. tasks' = 0 => tasks = 0
  BY DEF CarryIInv, CountsFit
<1>3. mishaps' = 0 => mishaps = 0
  BY DEF CarryIInv, CountsFit
<1>4. CASE Has(tx)
  BY <1>4 DEF KeptLetter
<1>5. CASE Waits(p, tx)
  <2>1. Waits(p, tx)'
    BY <1>2, <1>3, <1>5 DEF Waits
  <2> QED BY <2>1 DEF KeptLetter
<1> QED BY <1>1, <1>4, <1>5 DEF KeptLetter

\* A step of one phone keeps what is kept, if what leaves its outbox has a seed or
\* was refused, and so it is with what it has sent or queued in the step.
LEMMA StaysKept ==
  ASSUME CarryIInv, CarryIInv', KeptInv, NEW p \in Phones,
         \A t : Has(t) => Has(t)', tasks <= tasks', mishaps <= mishaps',
         \A q \in Phones : q # p => /\ outbox'[q] = outbox[q] /\ file'[q] = file[q]
                                    /\ Said(q)' = Said(q) /\ returned'[q] = returned[q],
         \A t \in Said(p) : KeptLetter(p, t)',
         \A t \in returned'[p] \ returned[p] : KeptLetter(p, t)',
         \A t : tasks' = 0 /\ Owns(file[p], t) /\ Owns(outbox[p], t) => Owns(file'[p], t),
         \A t : /\ tasks' = 0 \/ mishaps' = 0
                /\ Owns(outbox[p], t) /\ (tasks' = 0 => Owns(file[p], t))
                => Owns(outbox'[p], t) \/ Has(t)' \/ t \in Said(p)'
  PROVE  KeptInv'
<1> SUFFICES ASSUME NEW q \in Writers, NEW t \in returned'[q]
             PROVE  KeptLetter(q, t)'
  BY DEF KeptInv
<1>1. q \in Phones
  BY CarryAssumption
<1>2. CASE q # p
  <2>1. /\ outbox'[q] = outbox[q] /\ file'[q] = file[q]
        /\ Said(q)' = Said(q) /\ t \in returned[q]
    BY <1>1, <1>2
  <2>2. t \in Said(q) => KeptLetter(q, t)'
    BY <2>1 DEF KeptLetter
  <2>3. Has(t) => Has(t)'
    OBVIOUS
  <2> QED BY <2>1, <2>2, <2>3, KeptStays
<1>3. CASE q = p /\ t \notin returned[p]
  BY <1>3
<1>4. CASE q = p /\ t \in returned[p]
  <2>1. CASE Has(t)' \/ t \in Said(p)'
    BY <1>4, <2>1 DEF KeptLetter
  <2>2. CASE ~(Has(t)' \/ t \in Said(p)')
    <3>1. t \in Said(p) => KeptLetter(p, t)'
      OBVIOUS
    <3>2. Has(t) => Has(t)'
      OBVIOUS
    <3>3. /\ tasks' = 0 /\ Owns(file[p], t) /\ Owns(outbox[p], t) => Owns(file'[p], t)
          /\ (tasks' = 0 \/ mishaps' = 0) /\ Owns(outbox[p], t) /\ (tasks' = 0 => Owns(file[p], t))
                => Owns(outbox'[p], t)
      BY <2>2
    <3> QED BY <1>4, <3>1, <3>2, <3>3, KeptStays
  <2> QED BY <2>1, <2>2
<1> QED BY <1>2, <1>3, <1>4

\* A step that leaves chain, outboxes, files and what was sent or queued alone.
LEMMA QuietKept ==
  ASSUME CarryIInv, CarryIInv', KeptInv,
         UNCHANGED <<chain, outbox, file, returned, mishaps>>, tasks <= tasks',
         \A p \in Phones : Said(p)' = Said(p)
  PROVE  KeptInv'
<1> SUFFICES ASSUME NEW q \in Writers, NEW t \in returned[q]
             PROVE  KeptLetter(q, t)'
  BY DEF KeptInv
<1>1. Has(t) => Has(t)'
  BY DEF Has
<1>2. mishaps <= mishaps'
  BY DEF CarryIInv, CountsFit
<1>3. t \in Said(q) => KeptLetter(q, t)'
  BY CarryAssumption DEF KeptLetter
<1> QED BY <1>1, <1>2, <1>3, KeptStays

LEMMA SaidSame ==
  ASSUME UNCHANGED toldVars, NEW p, drain'[p].refused = drain[p].refused
  PROVE  Said(p)' = Said(p)
BY DEF Said, Refusals, toldVars

\* A new letter is one of its phone, and no letter there was.
LEMMA WrittenGrows ==
  ASSUME CarryIInv, NEW p \in Phones, MayWrite(p), NEW nonce \in 0 .. 2 * MaxLetters,
         written' = [written EXCEPT ![p] = @ \cup {New(p, nonce)}]
  PROVE  /\ WrittenFits' /\ Sealed \subseteq Sealed'
         /\ New(p, nonce) \in LetterTx /\ New(p, nonce).from = p
         /\ New(p, nonce) \in Sealed' /\ New(p, nonce) \notin Sealed
         /\ written'[p] = written[p] \cup {New(p, nonce)}
         /\ \A q \in Phones : q # p => written'[q] = written[q]
<1> DEFINE tx == New(p, nonce)
           n == Cardinality(written[p])
<1>1. /\ WrittenFits /\ written \in [Phones -> SUBSET LetterTx]
      /\ IsFiniteSet(written[p]) /\ n \in Nat
      /\ \A t \in written[p] : t.from = p /\ t.n <= n
  BY FS_CardinalityType DEF CarryIInv, LettersFit, WrittenFits
<1>2. MaxLetters \in Nat /\ p \in Writers /\ n < MaxLetters
  BY CarryAssumption DEF MayWrite
<1>3. tx \in LetterTx /\ tx.from = p /\ tx.n = n + 1
  BY <1>1, <1>2 DEF New, LetterTx
<1>4. /\ written'[p] = written[p] \cup {tx}
      /\ \A q \in Phones : q # p => written'[q] = written[q]
      /\ written' \in [Phones -> SUBSET LetterTx]
  BY <1>1, <1>3
<1> HIDE DEF tx
<1>5. tx \notin written[p]
  BY <1>1, <1>3
<1> HIDE DEF n
<1>6. IsFiniteSet(written'[p]) /\ Cardinality(written'[p]) = n + 1
  BY <1>1, <1>4, <1>5, FS_AddElement DEF n
<1>7. \A t \in written'[p] : t.from = p /\ t.n <= n + 1
  <2> SUFFICES ASSUME NEW t \in written'[p] PROVE t.from = p /\ t.n <= n + 1
    OBVIOUS
  <2>1. CASE t = tx
    BY <1>1, <1>3, <2>1
  <2>2. CASE t \in written[p]
    <3>1. t \in LetterTx
      BY <1>1, <2>2
    <3>2. t.n \in Int
      BY <3>1 DEF LetterTx
    <3> QED BY <1>1, <2>2, <3>2
  <2> QED BY <1>4, <2>1, <2>2
<1>8. WrittenFits'
  <2> SUFFICES ASSUME NEW q \in Phones
               PROVE  /\ IsFiniteSet(written'[q]) /\ Cardinality(written'[q]) <= MaxLetters
                      /\ \A t \in written'[q] : t.from = q /\ t.n <= Cardinality(written'[q])
    BY <1>4 DEF WrittenFits
  <2>1. CASE q # p
    BY <1>1, <1>4, <2>1 DEF WrittenFits
  <2>2. n + 1 <= MaxLetters
    BY <1>1, <1>2
  <2>3. CASE q = p
    BY <1>6, <1>7, <2>2, <2>3
  <2> QED BY <2>1, <2>3
<1>9. Sealed \subseteq Sealed' /\ tx \in Sealed'
  BY <1>4 DEF Sealed
<1>10. tx \notin Sealed
  BY <1>1, <1>3, <1>5, SealedLetters
<1> QED BY <1>3, <1>4, <1>8, <1>9, <1>10 DEF tx

LEMMA SealLetterFits ==
  ASSUME CarryIInv, KeptInv, NEW p \in Phones, SealLetter(p)
  PROVE  CarryIInv' /\ KeptInv'
<1> PICK online \in BOOLEAN :
       \E tx : /\ tx = New(p, IF online THEN NextNonce(p) ELSE LocalNonce(p))
               /\ draft' = [draft EXCEPT ![p] = {[tx |-> tx, online |-> online]}]
               /\ written' = [written EXCEPT ![p] = @ \cup {tx}]
  BY DEF SealLetter
<1> PICK nonce : nonce = IF online THEN NextNonce(p) ELSE LocalNonce(p)
  OBVIOUS
<1> PICK tx : /\ tx = New(p, nonce)
              /\ draft' = [draft EXCEPT ![p] = {[tx |-> tx, online |-> online]}]
              /\ written' = [written EXCEPT ![p] = @ \cup {tx}]
  OBVIOUS
<1> PICK d : d = [tx |-> tx, online |-> online]
  OBVIOUS
<1>1. /\ MayWrite(p)
      /\ UNCHANGED <<chain, outbox, file, known, drain, task, returned, told, muted, mishaps, tasks>>
  BY DEF SealLetter, phoneVars, toldVars
<1>2. nonce \in 0 .. 2 * MaxLetters
  <2> DEFINE m == Len(Mine(outbox[p]))
             n == Cardinality(written[p])
  <2>1. m \in 0 .. n /\ NextNonce(p) \in 0 .. n
    BY MineFits, NextNonceFits
  <2>2. n \in Nat /\ n <= MaxLetters /\ MaxLetters \in Nat /\ known[p] \in 0 .. MaxLetters
    BY FS_CardinalityType, CarryAssumption DEF CarryIInv, LettersFit, WrittenFits
  <2>3. LocalNonce(p) = known[p] + m
    BY DEF LocalNonce
  <2> HIDE DEF m, n
  <2>4. NextNonce(p) \in 0 .. 2 * MaxLetters /\ LocalNonce(p) \in 0 .. 2 * MaxLetters
    BY <2>1, <2>2, <2>3
  <2> QED BY <2>4
<1>3. /\ WrittenFits' /\ Sealed \subseteq Sealed'
      /\ tx \in LetterTx /\ tx \in Sealed' /\ tx \notin Sealed
      /\ written'[p] = written[p] \cup {tx}
      /\ \A q \in Phones : q # p => written'[q] = written[q]
  BY <1>1, <1>2, WrittenGrows
<1>4. LettersFit'
  <2>1. /\ returned' = returned /\ returned \in [Phones -> SUBSET LetterTx]
        /\ draft \in [Phones -> SUBSET Draft]
        /\ \A q \in Phones : /\ returned[q] \subseteq written[q]
                             /\ \A e \in draft[q] : e.tx \in written[q] \ returned[q]
    BY <1>1 DEF CarryIInv, LettersFit
  <2>2. d \in Draft /\ d.tx = tx
    BY <1>3 DEF Draft
  <2>3. /\ draft' \in [Phones -> SUBSET Draft] /\ draft'[p] = {d}
        /\ \A q \in Phones : q # p => draft'[q] = draft[q]
    BY <2>1, <2>2
  <2>4. tx \notin returned[p]
    BY <1>3, <2>1 DEF Sealed
  <2>5. ASSUME NEW q \in Phones
        PROVE  /\ returned[q] \subseteq written'[q]
               /\ \A e \in draft'[q] : e.tx \in written'[q] \ returned[q]
    <3>1. CASE q = p
      BY <1>3, <2>1, <2>2, <2>3, <2>4, <3>1
    <3>2. CASE q # p
      BY <1>3, <2>1, <2>3, <3>2
    <3> QED BY <3>1, <3>2
  <2> QED BY <1>3, <2>1, <2>3, <2>5 DEF LettersFit
<1>5. ChainFits(chain, Sealed')
  BY <1>3, MoreLetters DEF CarryIInv
<1>6. Queued' = Queued /\ (SaidFits' <=> SaidFits) /\ (CountsFit' <=> CountsFit)
  BY <1>1 DEF Queued, SaidFits, CountsFit
<1>7. CarryIInv'
  BY <1>1, <1>4, <1>5, <1>6 DEF CarryIInv
<1>8. tasks <= tasks' /\ \A q \in Phones : Said(q)' = Said(q)
  BY <1>1, SaidSame DEF CarryIInv, CountsFit, toldVars
<1> QED BY <1>1, <1>7, <1>8, QuietKept

\* A letter that is sent or queued leaves the drafts.
LEMMA ReturnedGrows ==
  ASSUME CarryIInv, NEW p \in Phones, NEW d \in draft[p], UNCHANGED <<written, told, muted>>,
         draft' = [draft EXCEPT ![p] = {}], returned' = [returned EXCEPT ![p] = @ \cup {d.tx}]
  PROVE  /\ LettersFit' /\ SaidFits'
         /\ Sealed' = Sealed /\ Queued \subseteq Queued'
         /\ d.tx \in Queued' /\ d.tx \notin Queued /\ d.tx \in LetterTx
         /\ d.tx.from = p /\ d.tx \in Sealed
         /\ returned'[p] = returned[p] \cup {d.tx}
         /\ \A q \in Phones : returned[q] \subseteq returned'[q]
         /\ \A q \in Phones : q # p => returned'[q] = returned[q]
<1> PICK tx : tx = d.tx
  OBVIOUS
<1>1. /\ LettersFit /\ returned \in [Phones -> SUBSET LetterTx] /\ draft \in [Phones -> SUBSET Draft]
      /\ \A q \in Phones : /\ returned[q] \subseteq written[q]
                           /\ \A e \in draft[q] : e.tx \in written[q] \ returned[q]
      /\ written \in [Phones -> SUBSET LetterTx]
      /\ \A q \in Phones : \A t \in written[q] : t.from = q
  BY DEF CarryIInv, LettersFit, WrittenFits
<1>2. tx \in written[p] /\ tx \notin returned[p] /\ tx \in LetterTx /\ tx.from = p
  BY <1>1
<1>3. /\ returned' \in [Phones -> SUBSET LetterTx] /\ returned'[p] = returned[p] \cup {tx}
      /\ \A q \in Phones : q # p => returned'[q] = returned[q]
  BY <1>1, <1>2
<1>4. /\ draft' \in [Phones -> SUBSET Draft] /\ draft'[p] = {}
      /\ \A q \in Phones : q # p => draft'[q] = draft[q]
  BY <1>1
<1>5. \A q \in Phones : returned[q] \subseteq returned'[q]
  BY <1>3
<1>6. ASSUME NEW q \in Phones
      PROVE  /\ returned'[q] \subseteq written[q]
             /\ \A e \in draft'[q] : e.tx \in written[q] \ returned'[q]
  BY <1>1, <1>2, <1>3, <1>4
<1>7. WrittenFits'
  BY DEF CarryIInv, LettersFit, WrittenFits
<1>8. LettersFit'
  BY <1>3, <1>4, <1>6, <1>7 DEF LettersFit
<1>9. SaidFits'
  BY <1>5 DEF CarryIInv, SaidFits
<1>10. Sealed' = Sealed /\ Queued \subseteq Queued' /\ tx \in Queued' /\ tx \in Sealed
  BY <1>2, <1>3, <1>5 DEF Sealed, Queued
<1>11. tx \notin Queued
  BY <1>1, <1>2, QueuedLetters
<1> QED BY <1>2, <1>3, <1>5, <1>8, <1>9, <1>10, <1>11

LEMMA TryPostFits ==
  ASSUME CarryIInv, KeptInv, NEW p \in Phones, TryPost(p)
  PROVE  CarryIInv' /\ KeptInv'
<1> PICK d \in draft[p], outcome \in {"delivered", "refused", "unreachable"} :
       /\ d.online /\ Submit(d.tx, outcome)
       /\ \/ /\ outcome = "delivered"
             /\ draft' = [draft EXCEPT ![p] = {}]
             /\ returned' = [returned EXCEPT ![p] = @ \cup {d.tx}]
          \/ /\ returned' = returned
             /\ \/ draft' = [draft EXCEPT ![p] = {}]
                \/ draft' = [draft EXCEPT ![p] = {[d EXCEPT !.online = FALSE]}]
  BY DEF TryPost
<1> PICK tx : tx = d.tx
  OBVIOUS
<1>1. UNCHANGED <<outbox, file, known, drain, task, written, told, muted, tasks>>
  BY DEF TryPost, phoneVars, toldVars
<1>2. /\ LettersFit /\ draft \in [Phones -> SUBSET Draft]
      /\ tx \in written[p] \ returned[p] /\ tx \in LetterTx /\ tx \in Sealed
  BY DEF CarryIInv, LettersFit, WrittenFits, Sealed
<1>3. /\ ChainFits(chain', Sealed)
      /\ \A t : Has(t) => Has(t)'
      /\ outcome = "delivered" => Has(tx)'
      /\ mishaps' \in Nat /\ mishaps <= mishaps' /\ mishaps' + tasks <= MaxMishaps
  BY <1>2, SubmitFits
<1>4. /\ LettersFit' /\ SaidFits' /\ Sealed' = Sealed /\ Queued \subseteq Queued'
      /\ \A q \in Phones : returned[q] \subseteq returned'[q]
      /\ \A q \in Phones : q # p => returned'[q] = returned[q]
      /\ \A t \in returned'[p] \ returned[p] : Has(t)'
  <2>1. CASE /\ outcome = "delivered"
             /\ draft' = [draft EXCEPT ![p] = {}]
             /\ returned' = [returned EXCEPT ![p] = @ \cup {d.tx}]
    <3>1. UNCHANGED <<written, told, muted>>
      BY <1>1
    <3>2. /\ LettersFit' /\ SaidFits' /\ Sealed' = Sealed /\ Queued \subseteq Queued'
          /\ returned'[p] = returned[p] \cup {tx}
          /\ \A q \in Phones : returned[q] \subseteq returned'[q]
          /\ \A q \in Phones : q # p => returned'[q] = returned[q]
      <4>1. p \in Phones /\ d \in draft[p] /\ CarryIInv /\ tx = d.tx
        OBVIOUS
      <4> QED BY ONLY <2>1, <3>1, <4>1, ReturnedGrows
    <3>3. \A t \in returned'[p] \ returned[p] : Has(t)'
      BY <1>3, <2>1, <3>2
    <3> QED BY <3>2, <3>3
  <2>2. CASE returned' = returned /\ draft' = [draft EXCEPT ![p] = {}]
    <3>1. Sealed' = Sealed /\ Queued' = Queued /\ (SaidFits' <=> SaidFits) /\ (WrittenFits' <=> WrittenFits)
      BY <1>1, <2>2 DEF Sealed, Queued, SaidFits, WrittenFits
    <3>2. LettersFit'
      BY <1>1, <1>2, <2>2, <3>1 DEF LettersFit
    <3> QED BY <2>2, <3>1, <3>2 DEF CarryIInv
  <2>3. CASE returned' = returned /\ draft' = [draft EXCEPT ![p] = {[d EXCEPT !.online = FALSE]}]
    <3> PICK e : e = [d EXCEPT !.online = FALSE]
      OBVIOUS
    <3>1. Sealed' = Sealed /\ Queued' = Queued /\ (SaidFits' <=> SaidFits) /\ (WrittenFits' <=> WrittenFits)
      BY <1>1, <2>3 DEF Sealed, Queued, SaidFits, WrittenFits
    <3>2. d \in Draft
      BY <1>2
    <3>3. e \in Draft /\ e.tx = tx
      BY <3>2 DEF Draft
    <3>4. /\ draft' \in [Phones -> SUBSET Draft] /\ draft'[p] = {e}
          /\ \A q \in Phones : q # p => draft'[q] = draft[q]
      BY <1>2, <2>3, <3>3
    <3>5. ASSUME NEW q \in Phones, NEW h \in draft'[q] PROVE h.tx \in written[q] \ returned[q]
      BY <1>2, <3>3, <3>4, <3>5 DEF LettersFit
    <3>6. LettersFit'
      BY <1>1, <1>2, <2>3, <3>1, <3>4, <3>5 DEF LettersFit
    <3> QED BY <2>3, <3>1, <3>6 DEF CarryIInv
  <2> QED BY <2>1, <2>2, <2>3
<1>5. /\ OutboxesFit(outbox, Queued') /\ OutboxesFit(file, Queued')
      /\ DrainsFit(drain, Queued', returned') /\ TasksFit(task, Queued', tasks)
  BY <1>4, MoreLetters, MoreReturned DEF CarryIInv
<1>6. CountsFit' /\ tasks <= tasks'
  BY <1>1, <1>3 DEF CarryIInv, CountsFit
<1>7. CarryIInv'
  BY <1>1, <1>3, <1>4, <1>5, <1>6 DEF CarryIInv
<1>8. \A q \in Phones : Said(q)' = Said(q)
  BY <1>1, SaidSame DEF toldVars
<1>9. /\ \A t \in Said(p) : KeptLetter(p, t)'
      /\ \A t \in returned'[p] \ returned[p] : KeptLetter(p, t)'
  BY <1>4, <1>8 DEF KeptLetter
<1> QED BY <1>1, <1>3, <1>4, <1>6, <1>7, <1>8, <1>9, StaysKept

LEMMA QueueFits ==
  ASSUME CarryIInv, NEW p \in Phones, NEW L, Queued \subseteq L,
         NEW tx \in L, tx \in LetterTx, tx.from = p, tx \notin Queued, Queue(p, tx)
  PROVE  /\ OutboxesFit(outbox', L) /\ OutboxesFit(file', L)
         /\ Owns(outbox'[p], tx) /\ file'[p] = outbox'[p]
         /\ \A t : Owns(outbox[p], t) => Owns(outbox'[p], t)
         /\ \A q \in Phones : q # p => outbox'[q] = outbox[q] /\ file'[q] = file[q]
<1> DEFINE item == [tx |-> tx, mine |-> TRUE, hops |-> 0]
           s == Append(outbox[p], item)
           n == Len(outbox[p])
<1>1. /\ OutboxesFit(outbox, L) /\ OutboxesFit(file, L) /\ OutboxFits(outbox[p], p, L)
      /\ OutboxFits(outbox[p], p, Queued) /\ outbox[p] \in Seq(Item)
      /\ outbox \in [Phones -> Seq(Item)]
  BY MoreLetters DEF CarryIInv, OutboxesFit
<1>2. item \in Item /\ item.tx = tx /\ item.mine
  BY CarryAssumption DEF Item
<1>3. outbox' = [outbox EXCEPT ![p] = s] /\ file' = [file EXCEPT ![p] = outbox'[p]]
  BY <1>1 DEF Queue
<1> HIDE DEF item
<1>4. /\ s \in Seq(Item) /\ DOMAIN s = 1 .. n + 1 /\ DOMAIN outbox[p] = 1 .. n /\ n \in Nat
      /\ \A i \in 1 .. n : s[i] = outbox[p][i]
      /\ s[n + 1] = item
  BY <1>1, <1>2, AppendProperties, LenProperties
<1> HIDE DEF s, n
<1>5. \A i \in 1 .. n : outbox[p][i].tx # tx
  BY <1>1, <1>4 DEF OutboxFits
<1>6. \A i \in 1 .. n + 1 : i \in 1 .. n \/ i = n + 1
  BY <1>4
<1>7. ASSUME NEW i \in 1 .. n + 1, NEW j \in 1 .. n + 1, s[i].tx = s[j].tx PROVE i = j
  <2>1. CASE i \in 1 .. n /\ j \in 1 .. n
    BY <1>1, <1>4, <1>7, <2>1 DEF OutboxFits
  <2>2. CASE i = n + 1 /\ j \in 1 .. n
    BY <1>2, <1>4, <1>5, <1>7, <2>2
  <2>3. CASE j = n + 1 /\ i \in 1 .. n
    BY <1>2, <1>4, <1>5, <1>7, <2>3
  <2> QED BY <1>6, <2>1, <2>2, <2>3
<1>8. ASSUME NEW i \in 1 .. n + 1 PROVE s[i].tx \in L /\ (s[i].mine => s[i].tx.from = p)
  <2>1. CASE i \in 1 .. n
    BY <1>1, <1>4, <2>1 DEF OutboxFits
  <2>2. CASE i = n + 1
    BY <1>2, <1>4, <2>2
  <2> QED BY <1>6, <2>1, <2>2
<1>9. OutboxFits(s, p, L)
  BY <1>4, <1>7, <1>8 DEF OutboxFits
<1>10. /\ OutboxesFit(outbox', L) /\ outbox'[p] = s
       /\ \A q \in Phones : q # p => outbox'[q] = outbox[q]
  BY <1>1, <1>3, <1>9, BoxSet
<1>11. /\ OutboxesFit(file', L) /\ file'[p] = s
       /\ \A q \in Phones : q # p => file'[q] = file[q]
  <2>1. /\ OutboxesFit(file, L) /\ file' = [file EXCEPT ![p] = s]
        /\ file \in [Phones -> Seq(Item)]
    BY <1>1, <1>3, <1>10 DEF OutboxesFit
  <2> QED BY <1>9, <2>1, BoxSet
<1>12. Owns(s, tx)
  BY <1>2, <1>4 DEF Owns
<1>13. ASSUME NEW t, Owns(outbox[p], t) PROVE Owns(s, t)
  BY <1>4, <1>13 DEF Owns
<1> QED BY <1>10, <1>11, <1>12, <1>13

LEMMA QueueLetterFits ==
  ASSUME CarryIInv, KeptInv, NEW p \in Phones, QueueLetter(p)
  PROVE  CarryIInv' /\ KeptInv'
<1> PICK d \in draft[p] :
       /\ Queue(p, d.tx)
       /\ draft' = [draft EXCEPT ![p] = {}]
       /\ returned' = [returned EXCEPT ![p] = @ \cup {d.tx}]
       /\ UNCHANGED <<chain, known, drain, task, written, told, muted, mishaps, tasks>>
  BY DEF QueueLetter, toldVars
<1> PICK tx : tx = d.tx
  OBVIOUS
<1>1. /\ LettersFit' /\ SaidFits' /\ Sealed' = Sealed /\ Queued \subseteq Queued'
      /\ tx \in Queued' /\ tx \notin Queued /\ tx \in LetterTx /\ tx.from = p
      /\ returned'[p] = returned[p] \cup {tx}
      /\ \A q \in Phones : returned[q] \subseteq returned'[q]
      /\ \A q \in Phones : q # p => returned'[q] = returned[q]
  BY ReturnedGrows
<1>2. /\ OutboxesFit(outbox', Queued') /\ OutboxesFit(file', Queued')
      /\ Owns(outbox'[p], tx) /\ file'[p] = outbox'[p]
      /\ \A t : Owns(outbox[p], t) => Owns(outbox'[p], t)
      /\ \A q \in Phones : q # p => outbox'[q] = outbox[q] /\ file'[q] = file[q]
  <2> PICK L : L = Queued'
    OBVIOUS
  <2>1. Queue(p, tx) /\ Queued \subseteq L /\ tx \in L
    BY <1>1
  <2> HIDE DEF Queue
  <2>2. /\ OutboxesFit(outbox', L) /\ OutboxesFit(file', L)
        /\ Owns(outbox'[p], tx) /\ file'[p] = outbox'[p]
        /\ \A t : Owns(outbox[p], t) => Owns(outbox'[p], t)
        /\ \A q \in Phones : q # p => outbox'[q] = outbox[q] /\ file'[q] = file[q]
    BY <1>1, <2>1, QueueFits
  <2> QED BY <2>2
<1>3. DrainsFit(drain, Queued', returned') /\ TasksFit(task, Queued', tasks)
  BY <1>1, MoreLetters, MoreReturned DEF CarryIInv
<1>4. CountsFit' /\ tasks <= tasks' /\ mishaps <= mishaps'
  BY DEF CarryIInv, CountsFit
<1>5. CarryIInv'
  BY <1>1, <1>2, <1>3, <1>4 DEF CarryIInv
<1>6. \A q \in Phones : Said(q)' = Said(q)
  BY SaidSame DEF toldVars
<1>7. \A t : Has(t) => Has(t)'
  BY DEF Has
<1>8. /\ \A t \in Said(p) : KeptLetter(p, t)'
      /\ \A t \in returned'[p] \ returned[p] : KeptLetter(p, t)'
  BY <1>1, <1>2, <1>6 DEF KeptLetter, Waits
<1>9. \A t : Owns(outbox[p], t) => Owns(outbox'[p], t) /\ Owns(file'[p], t)
  BY <1>2
<1> QED BY <1>1, <1>2, <1>4, <1>5, <1>6, <1>7, <1>8, <1>9, StaysKept

LEMMA SnapshotFits ==
  ASSUME NEW p, NEW L, NEW items, OutboxFits(items, p, L)
  PROVE  TodoFits(Snapshot(items), L)
<1> DEFINE s == Mine(items) \o Carried(items)
           n == Len(s)
<1>1. OutboxFits(Mine(items), p, L) /\ OutboxFits(Carried(items), p, L)
  BY SelectedFits DEF Mine, Carried, Owned
<1>2. /\ Mine(items) \in Seq(Item) /\ Carried(items) \in Seq(Item)
      /\ \A i \in 1 .. Len(Mine(items)) : Mine(items)[i].tx \in L
      /\ \A i \in 1 .. Len(Carried(items)) : Carried(items)[i].tx \in L
  BY <1>1, LenProperties DEF OutboxFits
<1>3. s \in Seq(Item) /\ n \in Nat /\ \A i \in 1 .. n : s[i] \in Item
  BY <1>2, ConcatProperties, LenProperties
<1>4. \A i \in 1 .. n : s[i].tx \in L
  <2> TAKE i \in 1 .. n
  <2>1. /\ n = Len(Mine(items)) + Len(Carried(items))
        /\ Len(Mine(items)) \in Nat /\ Len(Carried(items)) \in Nat
        /\ s[i] = IF i <= Len(Mine(items)) THEN Mine(items)[i]
                  ELSE Carried(items)[i - Len(Mine(items))]
    BY <1>2, ConcatProperties, LenProperties
  <2>2. CASE i <= Len(Mine(items))
    BY <1>2, <2>1, <2>2
  <2>3. CASE ~(i <= Len(Mine(items)))
    <3>1. i - Len(Mine(items)) \in 1 .. Len(Carried(items))
      BY <2>1, <2>3
    <3> QED BY <1>2, <2>1, <2>3, <3>1
  <2> QED BY <2>2, <2>3
<1>5. Snapshot(items) = [k \in 1 .. n |-> s[k].tx]
  BY DEF Snapshot
<1> HIDE DEF s, n
<1>6. \A i \in 1 .. n : s[i].tx \in LetterTx
  BY <1>3 DEF Item
<1>7. Snapshot(items) \in [1 .. n -> LetterTx]
  BY <1>5, <1>6
<1>8. Snapshot(items) \in Seq(LetterTx) /\ DOMAIN Snapshot(items) = 1 .. n
  BY <1>3, <1>7
<1> QED BY <1>4, <1>5, <1>8 DEF TodoFits

\* What a phone takes over from another are letters it does not have.
LEMMA TakenFits ==
  ASSUME NEW p, NEW q, NEW L, NEW items, OutboxFits(items, q, L), NEW wire, OutboxFits(wire, p, L)
  PROVE  /\ OutboxFits(items \o Taken(items, wire), q, L)
         /\ \A t : Owns(items, t) => Owns(items \o Taken(items, wire), t)
<1> DEFINE I == {i \in DOMAIN wire : ~Holds(items, wire[i].tx) /\ wire[i].hops < MaxHops}
           new == Selected(wire, I)
           more == Taken(items, wire)
<1>1. I \in SUBSET DOMAIN wire /\ wire \in Seq(Item) /\ items \in Seq(Item)
  BY DEF OutboxFits
<1>2. more = [k \in DOMAIN new |-> Further(new[k])]
  BY DEF Taken
<1>3. \A i \in I : ~Holds(items, wire[i].tx) /\ wire[i].hops < MaxHops
  OBVIOUS
<1> HIDE DEF I
<1>4. OutboxFits(new, p, L) /\ new \in Seq(Item)
  BY <1>1, SelectedFits, SelectedIs
<1>5. \A k \in DOMAIN new : Nth(I, k) \in I /\ new[k] = wire[Nth(I, k)]
  BY <1>1, SelectedIs
<1> HIDE DEF new
<1>6. \A k \in DOMAIN new : ~Holds(items, new[k].tx) /\ new[k].hops < MaxHops /\ new[k] \in Item
  <2> SUFFICES ASSUME NEW k \in DOMAIN new
               PROVE  ~Holds(items, new[k].tx) /\ new[k].hops < MaxHops /\ new[k] \in Item
    OBVIOUS
  <2>1. new[k] \in Item
    BY <1>4, LenProperties
  <2> PICK w : w = new[k]
    OBVIOUS
  <2>2. ~Holds(items, w.tx) /\ w.hops < MaxHops
    BY <1>3, <1>5
  <2> QED BY <2>1, <2>2
<1> DEFINE n == Len(items)
           m == Len(new)
           all == items \o more
<1>7. n \in Nat /\ m \in Nat /\ DOMAIN items = 1 .. n /\ DOMAIN new = 1 .. m
  BY <1>1, <1>4, LenProperties
<1>8. \A k \in 1 .. m : more[k] = Further(new[k]) /\ Further(new[k]) \in Item
                        /\ more[k].tx = new[k].tx /\ ~more[k].mine
  <2> TAKE k \in 1 .. m
  <2>1. new[k] \in Item /\ new[k].hops < MaxHops
    BY <1>6, <1>7
  <2>2. new[k].hops + 1 \in 0 .. MaxHops
    BY <2>1, CarryAssumption DEF Item
  <2>3. Further(new[k]) \in Item
    BY <2>1, <2>2 DEF Further, Item
  <2>4. more[k] = Further(new[k])
    BY <1>2, <1>7
  <2> HIDE DEF more
  <2> QED BY <2>3, <2>4 DEF Further
<1>9. more \in Seq(Item) /\ Len(more) = m
  <2>1. more \in [1 .. m -> Item]
    BY <1>2, <1>7, <1>8
  <2> QED BY <1>7, <2>1
<1> HIDE DEF more
<1>10. /\ all \in Seq(Item) /\ DOMAIN all = 1 .. n + m
       /\ \A i \in 1 .. n + m : all[i] = IF i <= n THEN items[i] ELSE more[i - n]
  <2>1. /\ all \in Seq(Item) /\ Len(all) = Len(items) + Len(more)
        /\ \A i \in 1 .. Len(items) + Len(more) :
              all[i] = IF i <= Len(items) THEN items[i] ELSE more[i - Len(items)]
    BY <1>1, <1>9, ConcatProperties
  <2> HIDE DEF all
  <2>2. DOMAIN all = 1 .. Len(all)
    BY <2>1, LenProperties
  <2> QED BY <1>9, <2>1, <2>2
<1> HIDE DEF all
<1>11. \A i \in 1 .. n : i \in 1 .. n + m /\ all[i] = items[i]
  BY <1>7, <1>10
<1>12. \A k \in 1 .. m : n + k \in 1 .. n + m /\ all[n + k] = more[k]
  BY <1>7, <1>10
<1>13. \A i \in 1 .. n + m : i \in 1 .. n \/ \E k \in 1 .. m : i = n + k
  <2> SUFFICES ASSUME NEW i \in 1 .. n + m, ~(i \in 1 .. n) PROVE \E k \in 1 .. m : i = n + k
    OBVIOUS
  <2>1. i - n \in 1 .. m /\ i = n + (i - n)
    BY <1>7
  <2> QED BY <2>1
<1>14. ASSUME NEW i \in 1 .. n, NEW k \in 1 .. m PROVE items[i].tx # more[k].tx
  <2>1. ~Holds(items, new[k].tx)
    BY <1>6, <1>7
  <2> QED BY <1>7, <1>8, <2>1 DEF Holds
<1>15. ASSUME NEW i \in 1 .. n + m, NEW j \in 1 .. n + m, all[i].tx = all[j].tx PROVE i = j
  <2>1. CASE i \in 1 .. n /\ j \in 1 .. n
    BY <1>7, <1>11, <1>15, <2>1 DEF OutboxFits
  <2>2. ASSUME i \in 1 .. n, NEW k \in 1 .. m, j = n + k PROVE FALSE
    BY <1>11, <1>12, <1>14, <1>15, <2>2
  <2>3. ASSUME j \in 1 .. n, NEW k \in 1 .. m, i = n + k PROVE FALSE
    BY <1>11, <1>12, <1>14, <1>15, <2>3
  <2>4. ASSUME NEW k \in 1 .. m, NEW h \in 1 .. m, i = n + k, j = n + h PROVE i = j
    <3>1. new[k].tx = new[h].tx
      BY <1>8, <1>12, <1>15, <2>4
    <3>2. k = h
      BY <1>4, <1>7, <3>1 DEF OutboxFits
    <3> QED BY <2>4, <3>2
  <2> QED BY <1>13, <2>1, <2>2, <2>3, <2>4
<1>16. ASSUME NEW i \in 1 .. n + m PROVE all[i].tx \in L /\ (all[i].mine => all[i].tx.from = q)
  <2>1. CASE i \in 1 .. n
    BY <1>7, <1>11, <2>1 DEF OutboxFits
  <2>2. ASSUME NEW k \in 1 .. m, i = n + k PROVE all[i].tx \in L /\ ~all[i].mine
    BY <1>4, <1>7, <1>8, <1>12, <2>2 DEF OutboxFits
  <2> QED BY <1>13, <2>1, <2>2
<1>17. OutboxFits(all, q, L)
  BY <1>10, <1>15, <1>16 DEF OutboxFits
<1>18. ASSUME NEW t, Owns(items, t) PROVE Owns(all, t)
  <2>1. PICK i \in 1 .. n : items[i].mine /\ items[i].tx = t
    BY <1>7, <1>18 DEF Owns
  <2> QED BY <1>10, <1>11, <2>1 DEF Owns
<1> QED BY <1>17, <1>18 DEF all, more

\* Steps that leave the letters alone, and what they leave alone with them.
LEMMA LettersStay ==
  ASSUME LettersFit, UNCHANGED letterVars
  PROVE  LettersFit' /\ Sealed' = Sealed /\ Queued' = Queued /\ returned' = returned
<1>1. written' = written /\ returned' = returned /\ draft' = draft
  BY DEF letterVars
<1> QED BY <1>1 DEF LettersFit, WrittenFits, Sealed, Queued

LEMMA SaidStays ==
  ASSUME SaidFits, UNCHANGED <<letterVars, toldVars>>
  PROVE  SaidFits'
<1>1. returned' = returned /\ told' = told /\ muted' = muted
  BY DEF letterVars, toldVars
<1> QED BY <1>1 DEF SaidFits

LEMMA RefreshFits ==
  ASSUME CarryIInv, KeptInv, NEW p \in Phones, Refresh(p)
  PROVE  CarryIInv' /\ KeptInv'
<1>1. /\ known' = [known EXCEPT ![p] = NextNonce(p)]
      /\ UNCHANGED <<chain, outbox, file, drain, task, letterVars, toldVars, mishaps, tasks>>
  BY DEF Refresh
<1>2. NextNonce(p) \in 0 .. MaxLetters
  <2> DEFINE n == Cardinality(written[p])
             k == NextNonce(p)
  <2>1. k \in 0 .. n
    BY NextNonceFits
  <2>2. n \in Nat /\ n <= MaxLetters /\ MaxLetters \in Nat
    BY FS_CardinalityType, CarryAssumption DEF CarryIInv, LettersFit, WrittenFits
  <2> HIDE DEF n, k
  <2>3. k \in 0 .. MaxLetters
    BY <2>1, <2>2
  <2> QED BY <2>3 DEF k
<1>3. known' \in [Phones -> 0 .. MaxLetters]
  BY <1>1, <1>2 DEF CarryIInv
<1>4. /\ LettersFit' /\ SaidFits' /\ (CountsFit' <=> CountsFit)
      /\ Sealed' = Sealed /\ Queued' = Queued /\ returned' = returned
  BY <1>1, LettersStay, SaidStays DEF CarryIInv, CountsFit
<1>5. CarryIInv'
  BY <1>1, <1>3, <1>4 DEF CarryIInv
<1>6. tasks <= tasks' /\ \A q \in Phones : Said(q)' = Said(q)
  BY <1>1, SaidSame DEF CarryIInv, CountsFit
<1> QED BY <1>1, <1>4, <1>5, <1>6, QuietKept

LEMMA RestOfTodo ==
  ASSUME NEW todo, NEW L, TodoFits(todo, L), todo # <<>>
  PROVE  /\ Head(todo) \in L /\ Head(todo) \in LetterTx
         /\ TodoFits(Tail(todo), L)
<1>1. todo \in Seq(LetterTx) /\ \A i \in DOMAIN todo : todo[i] \in L
  BY DEF TodoFits
<1>2. Len(todo) \in Nat \ {0} /\ DOMAIN todo = 1 .. Len(todo)
  BY <1>1, EmptySeq, LenProperties
<1>3. /\ Tail(todo) \in Seq(LetterTx) /\ Len(Tail(todo)) = Len(todo) - 1
      /\ \A i \in 1 .. Len(Tail(todo)) : Tail(todo)[i] = todo[i + 1]
      /\ DOMAIN Tail(todo) = 1 .. Len(Tail(todo))
  BY <1>1, HeadTailProperties, LenProperties
<1>4. \A i \in DOMAIN Tail(todo) : i + 1 \in DOMAIN todo /\ Tail(todo)[i] = todo[i + 1]
  BY <1>2, <1>3
<1>5. Head(todo) = todo[1] /\ 1 \in DOMAIN todo
  BY <1>1, <1>2
<1>6. Head(todo) \in L /\ Head(todo) \in LetterTx
  BY <1>1, <1>5, HeadTailProperties
<1> QED BY <1>1, <1>3, <1>4, <1>6 DEF TodoFits

LEMMA NoTodo == ASSUME NEW L PROVE TodoFits(<<>>, L)
<1>1. <<>> \in Seq(LetterTx) /\ DOMAIN <<>> = {}
  BY EmptySeq
<1> QED BY <1>1 DEF TodoFits

LEMMA BeginDrainFits ==
  ASSUME CarryIInv, KeptInv, NEW p \in Phones, BeginDrain(p)
  PROVE  CarryIInv' /\ KeptInv'
<1> DEFINE y == [on |-> TRUE, todo |-> Snapshot(outbox[p]), changed |-> FALSE, refused |-> <<>>]
<1>1. /\ drain' = [drain EXCEPT ![p] = y] /\ ~drain[p].on
      /\ UNCHANGED <<chain, outbox, file, known, task, letterVars, toldVars, mishaps, tasks>>
  BY DEF BeginDrain
<1>2. TodoFits(Snapshot(outbox[p]), Queued)
  BY SnapshotFits DEF CarryIInv, OutboxesFit
<1>3. y \in Drains /\ DrainFits(y, Queued, returned[p]) /\ y.refused = <<>>
  BY <1>2, NoTodo DEF Drains, DrainFits, RoundFits, TodoFits
<1> HIDE DEF y
<1>4. DrainsFit(drain', Queued, returned)
  BY <1>1, <1>3, DrainSet DEF CarryIInv
<1>5. /\ LettersFit' /\ SaidFits' /\ (CountsFit' <=> CountsFit)
      /\ Sealed' = Sealed /\ Queued' = Queued /\ returned' = returned
  BY <1>1, LettersStay, SaidStays DEF CarryIInv, CountsFit
<1>6. CarryIInv'
  BY <1>1, <1>4, <1>5 DEF CarryIInv
<1>7. tasks <= tasks'
  BY <1>1 DEF CarryIInv, CountsFit
<1>8. ASSUME NEW q \in Phones PROVE Said(q)' = Said(q)
  <2>1. /\ drain \in [Phones -> Drains]
        /\ drain[p].refused = <<>>
    BY <1>1 DEF CarryIInv, DrainsFit, DrainFits
  <2>2. drain'[q].refused = drain[q].refused
    BY <1>1, <1>3, <2>1
  <2> QED BY <1>1, <2>2, SaidSame
<1> QED BY <1>1, <1>5, <1>6, <1>7, <1>8, QuietKept

Listed(s, t) == \E i \in DOMAIN s : s[i] = t

\* One more letter among the refused.
LEMMA OneMore ==
  ASSUME NEW L, NEW s, TodoFits(s, L), NEW tx \in L, tx \in LetterTx, NEW w, w = Append(s, tx)
  PROVE  /\ TodoFits(w, L) /\ w # <<>>
         /\ \A t : Listed(w, t) <=> t = tx \/ Listed(s, t)
<1> DEFINE n == Len(s)
<1>1. s \in Seq(LetterTx) /\ \A i \in DOMAIN s : s[i] \in L
  BY DEF TodoFits
<1>2. /\ w \in Seq(LetterTx) /\ Len(w) = n + 1 /\ n \in Nat
      /\ \A i \in 1 .. n : w[i] = s[i]
      /\ w[n + 1] = tx
  BY <1>1, AppendProperties, LenProperties
<1>3. DOMAIN s = 1 .. n /\ DOMAIN w = 1 .. n + 1
  BY <1>1, <1>2, LenProperties
<1> HIDE DEF n
<1>4. \A i : i \in 1 .. n + 1 <=> i \in 1 .. n \/ i = n + 1
  BY <1>2
<1>5. TodoFits(w, L)
  BY <1>1, <1>2, <1>3, <1>4 DEF TodoFits
<1>6. w # <<>>
  <2>1. n + 1 # 0
    BY <1>2
  <2> QED BY <1>2, <2>1
<1>7. \A t : Listed(w, t) <=> t = tx \/ Listed(s, t)
  BY <1>2, <1>3, <1>4 DEF Listed
<1> QED BY <1>5, <1>6, <1>7

LEMMA DrainEdited ==
  ASSUME NEW d, NEW L, NEW r, DrainsFit(d, L, r), NEW p \in Phones, NEW todo, TodoFits(todo, L),
         d[p].on, NEW refused, TodoFits(refused, r[p])
  PROVE  /\ DrainsFit([d EXCEPT ![p].todo = todo], L, r)
         /\ DrainsFit([d EXCEPT ![p].todo = todo, ![p].changed = TRUE, ![p].refused = refused], L, r)
<1> DEFINE v == [d[p] EXCEPT !.todo = todo]
           z == [d[p] EXCEPT !.todo = todo, !.changed = TRUE, !.refused = refused]
<1>1. /\ d \in [Phones -> Drains] /\ d[p] \in Drains /\ DrainFits(d[p], L, r[p])
      /\ todo \in Seq(LetterTx) /\ refused \in Seq(LetterTx)
  BY DEF DrainsFit, TodoFits
<1>2. v \in Drains /\ v.todo = todo /\ v.on /\ v.refused = d[p].refused
  BY <1>1 DEF Drains
<1>3. [d EXCEPT ![p].todo = todo] = [d EXCEPT ![p] = v]
  BY <1>1
<1>4. [d EXCEPT ![p].todo = todo, ![p].changed = TRUE, ![p].refused = refused]
        = [d EXCEPT ![p] = z]
  <2>1. \A q \in Phones : [d EXCEPT ![p].todo = todo, ![p].changed = TRUE, ![p].refused = refused][q]
                            = [d EXCEPT ![p] = z][q]
    BY <1>1
  <2> QED BY <1>1, <2>1
<1>5. z \in Drains /\ z.todo = todo /\ z.on /\ z.refused = refused
  BY <1>1 DEF Drains
<1> HIDE DEF v, z
<1>6. DrainFits(v, L, r[p])
  BY <1>1, <1>2 DEF DrainFits, RoundFits
<1>7. DrainFits(z, L, r[p])
  BY <1>5 DEF DrainFits, RoundFits
<1>8. DrainsFit([d EXCEPT ![p] = v], L, r) /\ DrainsFit([d EXCEPT ![p] = z], L, r)
  BY <1>2, <1>5, <1>6, <1>7, DrainSet
<1> QED BY <1>3, <1>4, <1>8

LEMMA TaskEdited ==
  ASSUME NEW k, NEW L, NEW n, TasksFit(k, L, n), NEW p \in Phones,
         NEW todo, TodoFits(todo, L), todo # <<>> => k[p].on,
         NEW items, OutboxFits(items, p, L)
  PROVE  /\ TasksFit([k EXCEPT ![p].todo = todo], L, n)
         /\ TasksFit([k EXCEPT ![p].items = items, ![p].todo = todo, ![p].changed = TRUE], L, n)
<1> DEFINE x == [k[p] EXCEPT !.items = items]
           y == [x EXCEPT !.todo = todo]
           z == [y EXCEPT !.changed = TRUE]
           v == [k[p] EXCEPT !.todo = todo]
<1>1. /\ k \in [Phones -> Tasks] /\ k[p] \in Tasks /\ TaskFits(k[p], p, L, n)
      /\ todo \in Seq(LetterTx) /\ items \in Seq(Item)
  BY DEF TasksFit, TodoFits, OutboxFits
<1>2. x \in Tasks /\ x.items = items /\ x.on = k[p].on
  BY <1>1 DEF Tasks
<1>3. v \in Tasks /\ v.todo = todo /\ v.on = k[p].on /\ v.items = k[p].items
  BY <1>1 DEF Tasks
<1>4. [k EXCEPT ![p].todo = todo] = [k EXCEPT ![p] = v]
  BY <1>1
<1>5. [k EXCEPT ![p].items = items, ![p].todo = todo, ![p].changed = TRUE]
        = [[[k EXCEPT ![p] = x] EXCEPT ![p] = y] EXCEPT ![p] = z]
  BY <1>1
<1>6. \A q \in Phones : [[[k EXCEPT ![p] = x] EXCEPT ![p] = y] EXCEPT ![p] = z][q]
                          = [k EXCEPT ![p] = z][q]
  BY <1>1
<1> HIDE DEF x
<1>7. y \in Tasks /\ y.items = items /\ y.todo = todo /\ y.on = k[p].on
  BY <1>1, <1>2 DEF Tasks
<1> HIDE DEF y, v
<1>8. z \in Tasks /\ z.items = items /\ z.todo = todo /\ z.on = k[p].on
  BY <1>7 DEF Tasks
<1> HIDE DEF z
<1>9. [[[k EXCEPT ![p] = x] EXCEPT ![p] = y] EXCEPT ![p] = z] = [k EXCEPT ![p] = z]
  BY <1>1, <1>6
<1>10. TaskFits(v, p, L, n) /\ TaskFits(z, p, L, n)
  BY <1>1, <1>3, <1>8 DEF TaskFits, RoundFits
<1>11. TasksFit([k EXCEPT ![p] = v], L, n) /\ TasksFit([k EXCEPT ![p] = z], L, n)
  BY <1>3, <1>8, <1>10, TaskSet
<1> QED BY <1>4, <1>5, <1>9, <1>11

LEMMA DrainAnsweredFits ==
  ASSUME CarryIInv, KeptInv, NEW p \in Phones, DrainAnswered(p)
  PROVE  CarryIInv' /\ KeptInv'
<1> PICK todo : todo = drain[p].todo
  OBVIOUS
<1> PICK tx : tx = Head(todo)
  OBVIOUS
<1> PICK outcome \in {"delivered", "refused"} :
         /\ Submit(tx, outcome)
         /\ outbox' = [outbox EXCEPT ![p] = Without(@, tx)]
         /\ drain' = [drain EXCEPT ![p].todo = Tail(@), ![p].changed = TRUE,
                                   ![p].refused = Refused(p, tx, outcome)]
  BY DEF DrainAnswered
<1> PICK rest : rest = Tail(todo)
  OBVIOUS
<1> PICK refused : refused = Refused(p, tx, outcome)
  OBVIOUS
<1>1. todo # <<>> /\ UNCHANGED <<file, known, task, letterVars, toldVars, tasks>>
  BY DEF DrainAnswered
<1>2. /\ DrainsFit(drain, Queued, returned) /\ drain \in [Phones -> Drains]
      /\ TodoFits(todo, Queued) /\ drain[p].on /\ TodoFits(drain[p].refused, returned[p])
  BY <1>1 DEF CarryIInv, DrainsFit, DrainFits, RoundFits
<1>3. tx \in Queued /\ tx \in LetterTx /\ TodoFits(rest, Queued)
  BY <1>1, <1>2, RestOfTodo
<1>4. LettersFit /\ tx \in Sealed
  BY <1>3, QueuedLetters DEF CarryIInv
<1>5. /\ ChainFits(chain', Sealed)
      /\ \A t : Has(t) => Has(t)'
      /\ outcome = "delivered" => Has(tx)'
      /\ mishaps' \in Nat /\ mishaps <= mishaps' /\ mishaps' + tasks <= MaxMishaps
  BY <1>3, <1>4, SubmitFits
<1>6. /\ OutboxFits(outbox[p], p, Queued) /\ outbox[p] \in Seq(Item)
      /\ outbox \in [Phones -> Seq(Item)] /\ OutboxesFit(outbox, Queued)
  BY DEF CarryIInv, OutboxesFit
<1>7. /\ OutboxFits(Without(outbox[p], tx), p, Queued)
      /\ \A t : t # tx /\ Owns(outbox[p], t) => Owns(Without(outbox[p], tx), t)
  BY <1>6, WithoutFits
<1>8. /\ OutboxesFit(outbox', Queued) /\ outbox'[p] = Without(outbox[p], tx)
      /\ \A q \in Phones : q # p => outbox'[q] = outbox[q]
  BY <1>6, <1>7, BoxSet
<1>9. Owns(outbox[p], tx) => tx \in returned[p]
  BY <1>4, <1>6, OwnedReturned
<1>10. /\ TodoFits(refused, returned[p])
       /\ \A t : Listed(refused, t)
                   <=> \/ Listed(drain[p].refused, t)
                       \/ t = tx /\ outcome = "refused" /\ Owns(outbox[p], tx)
  <2> PICK old : old = drain[p].refused
    OBVIOUS
  <2>1. refused = IF outcome = "refused" /\ Owns(outbox[p], tx) THEN Append(old, tx) ELSE old
    BY <1>6, MineHolds DEF Refused
  <2>2. CASE outcome = "refused" /\ Owns(outbox[p], tx)
    <3>1. refused = Append(old, tx) /\ tx \in returned[p] /\ TodoFits(old, returned[p])
      BY <1>2, <1>9, <2>1, <2>2
    <3> PICK own : own = returned[p]
      OBVIOUS
    <3>2. TodoFits(old, own) /\ tx \in own /\ tx \in LetterTx /\ refused = Append(old, tx)
      BY <1>3, <3>1
    <3>3. TodoFits(refused, own) /\ \A t : Listed(refused, t) <=> t = tx \/ Listed(old, t)
      BY ONLY <3>2, OneMore
    <3>4. TodoFits(refused, returned[p])
      BY <3>3
    <3> QED BY <2>2, <3>3, <3>4
  <2>3. CASE ~(outcome = "refused" /\ Owns(outbox[p], tx))
    <3>1. refused = old
      BY <2>1, <2>3
    <3> QED BY <1>2, <2>3, <3>1
  <2> QED BY <2>2, <2>3
<1>11. /\ DrainsFit(drain', Queued, returned) /\ drain'[p].refused = refused
       /\ \A q \in Phones : q # p => drain'[q] = drain[q]
  <2>1. drain' = [drain EXCEPT ![p].todo = rest, ![p].changed = TRUE, ![p].refused = refused]
    OBVIOUS
  <2>2. DrainsFit([drain EXCEPT ![p].todo = rest, ![p].changed = TRUE, ![p].refused = refused],
                  Queued, returned)
    BY <1>2, <1>3, <1>10, DrainEdited
  <2>3. drain[p] \in Drains
    BY <1>2
  <2> QED BY <1>2, <2>1, <2>2, <2>3 DEF Drains
<1>12. /\ LettersFit' /\ SaidFits' /\ CountsFit' /\ tasks <= tasks' /\ tasks' = tasks
       /\ Sealed' = Sealed /\ Queued' = Queued /\ returned' = returned
  BY <1>1, <1>5, LettersStay, SaidStays DEF CarryIInv, CountsFit
<1>13. CarryIInv'
  BY <1>1, <1>5, <1>8, <1>11, <1>12 DEF CarryIInv
<1>14. /\ told' = told /\ muted' = muted /\ file' = file
       /\ \A q \in Phones : q # p => Said(q)' = Said(q)
  BY <1>1, <1>11, SaidSame DEF toldVars
<1>15. \A t : t \in Said(p)' <=> \/ t \in Said(p)
                                 \/ t = tx /\ outcome = "refused" /\ Owns(outbox[p], tx)
  <2>1. Refusals(p)' = {refused[i] : i \in DOMAIN refused}
    BY <1>11 DEF Refusals
  <2>2. \A t : t \in Refusals(p)' <=> \/ t \in Refusals(p)
                                      \/ t = tx /\ outcome = "refused" /\ Owns(outbox[p], tx)
    <3>1. \A t : t \in Refusals(p)' <=> Listed(refused, t)
      BY <2>1 DEF Listed
    <3>2. \A t : t \in Refusals(p) <=> Listed(drain[p].refused, t)
      BY DEF Refusals, Listed
    <3> QED BY <1>10, <3>1, <3>2
  <2> QED BY <1>14, <2>2 DEF Said
<1>16. ASSUME NEW t, Owns(outbox[p], t)
       PROVE  Owns(outbox'[p], t) \/ Has(t)' \/ t \in Said(p)'
  <2>1. CASE t # tx
    BY <1>7, <1>8, <1>16, <2>1
  <2>2. CASE t = tx /\ outcome = "delivered"
    BY <1>5, <2>2
  <2>3. CASE t = tx /\ outcome = "refused"
    BY <1>15, <1>16, <2>3
  <2> QED BY <2>1, <2>2, <2>3
<1>17. \A t \in Said(p) : KeptLetter(p, t)'
  BY <1>15 DEF KeptLetter
<1> QED BY <1>5, <1>8, <1>12, <1>13, <1>14, <1>16, <1>17, StaysKept

LEMMA DrainUnreachableFits ==
  ASSUME CarryIInv, KeptInv, NEW p \in Phones, DrainUnreachable(p)
  PROVE  CarryIInv' /\ KeptInv'
<1> PICK tx : tx = Head(drain[p].todo)
  OBVIOUS
<1> PICK none : none = <<>>
  OBVIOUS
<1>1. /\ Submit(tx, "unreachable") /\ drain[p].todo # <<>>
      /\ drain' = [drain EXCEPT ![p].todo = none]
      /\ UNCHANGED <<outbox, file, known, task, letterVars, toldVars, tasks>>
  BY DEF DrainUnreachable
<1>2. /\ DrainsFit(drain, Queued, returned) /\ drain \in [Phones -> Drains] /\ drain[p].on
      /\ TodoFits(drain[p].todo, Queued) /\ TodoFits(drain[p].refused, returned[p])
  BY <1>1 DEF CarryIInv, DrainsFit, DrainFits, RoundFits
<1>3. tx \in LetterTx /\ tx \in Sealed
  BY <1>1, <1>2, RestOfTodo, QueuedLetters DEF CarryIInv
<1>4. /\ ChainFits(chain', Sealed)
      /\ \A t : Has(t) => Has(t)'
      /\ mishaps' \in Nat /\ mishaps <= mishaps' /\ mishaps' + tasks <= MaxMishaps
  BY <1>1, <1>3, SubmitFits
<1>5. DrainsFit(drain', Queued, returned)
  <2>1. TodoFits(none, Queued)
    BY NoTodo
  <2>2. DrainsFit([drain EXCEPT ![p].todo = none], Queued, returned)
    BY <1>2, <2>1, DrainEdited
  <2> QED BY <1>1, <2>2
<1>6. ASSUME NEW q \in Phones PROVE Said(q)' = Said(q)
  <2>1. drain[p] \in Drains
    BY <1>2
  <2>2. drain'[q].refused = drain[q].refused
    BY <1>1, <1>2, <2>1 DEF Drains
  <2> QED BY <1>1, <2>2, SaidSame
<1>7. /\ LettersFit' /\ SaidFits' /\ CountsFit' /\ tasks <= tasks'
      /\ Sealed' = Sealed /\ Queued' = Queued /\ returned' = returned
  BY <1>1, <1>4, LettersStay, SaidStays DEF CarryIInv, CountsFit
<1>8. CarryIInv'
  BY <1>1, <1>4, <1>5, <1>7 DEF CarryIInv
<1>9. \A t \in Said(p) : KeptLetter(p, t)'
  BY <1>6 DEF KeptLetter
<1> QED BY <1>1, <1>4, <1>6, <1>7, <1>8, <1>9, StaysKept

\* An ended drain holds nothing, and what it was refused is shown or muted.
LEMMA DrainOver ==
  ASSUME DrainsFit(drain, Queued, returned), NEW p \in Phones, drain' = [drain EXCEPT ![p] = NoDrain]
  PROVE  /\ DrainsFit(drain', Queued, returned)
         /\ Refusals(p)' = {} /\ \A q \in Phones : q # p => drain'[q] = drain[q]
         /\ Refusals(p) \subseteq returned[p] /\ Shown(p) \subseteq Refusals(p)
<1> PICK y : y = NoDrain
  OBVIOUS
<1>1. /\ drain \in [Phones -> Drains] /\ DrainFits(drain[p], Queued, returned[p])
  BY DEF DrainsFit
<1>2. y \in Drains /\ DrainFits(y, Queued, returned[p]) /\ y.refused = <<>>
  BY EmptySeq, NoTodo DEF NoDrain, Drains, DrainFits, RoundFits
<1>3. DrainsFit([drain EXCEPT ![p] = y], Queued, returned)
  BY <1>2, DrainSet
<1>4. drain'[p] = y /\ \A q \in Phones : q # p => drain'[q] = drain[q]
  BY <1>1
<1>5. Refusals(p)' = {}
  <2>1. DOMAIN <<>> = {}
    OBVIOUS
  <2> QED BY <1>2, <1>4, <2>1 DEF Refusals
<1>6. Refusals(p) \subseteq returned[p]
  BY <1>1 DEF DrainFits, TodoFits, Refusals
<1>7. Shown(p) \subseteq Refusals(p)
  <2> PICK s : s = drain[p].refused
    OBVIOUS
  <2>1. s \in Seq(LetterTx)
    BY <1>1 DEF DrainFits, TodoFits
  <2>2. DOMAIN s = 1 .. Len(s) /\ Len(s) \in Nat
    BY <2>1, LenProperties
  <2>3. {Len(s)} \ {0} \subseteq DOMAIN s
    BY <2>2
  <2> QED BY <2>3 DEF Shown, Refusals
<1> QED BY <1>3, <1>4, <1>5, <1>6, <1>7

LEMMA EndDrainFits ==
  ASSUME CarryIInv, KeptInv, NEW p \in Phones, EndDrain(p)
  PROVE  CarryIInv' /\ KeptInv'
<1>1. /\ file' = IF drain[p].changed THEN [file EXCEPT ![p] = outbox[p]] ELSE file
      /\ drain' = [drain EXCEPT ![p] = NoDrain]
      /\ told' = [told EXCEPT ![p] = @ \cup Shown(p)]
      /\ muted' = [muted EXCEPT ![p] = @ \cup (Refusals(p) \ Shown(p))]
      /\ UNCHANGED <<chain, outbox, known, task, letterVars, mishaps, tasks>>
  BY DEF EndDrain
<1>2. /\ OutboxFits(outbox[p], p, Queued) /\ OutboxesFit(file, Queued)
      /\ file \in [Phones -> Seq(Item)]
  BY DEF CarryIInv, OutboxesFit
<1>3. /\ OutboxesFit(file', Queued)
      /\ file'[p] = outbox[p] \/ file'[p] = file[p]
      /\ \A q \in Phones : q # p => file'[q] = file[q]
  <2>1. CASE file' = file
    BY <1>2, <2>1
  <2>2. CASE file' = [file EXCEPT ![p] = outbox[p]]
    BY <1>2, <2>2, BoxSet
  <2> QED BY <1>1, <2>1, <2>2
<1>4. /\ DrainsFit(drain', Queued, returned)
      /\ Refusals(p)' = {} /\ \A q \in Phones : q # p => drain'[q] = drain[q]
      /\ Refusals(p) \subseteq returned[p] /\ Shown(p) \subseteq Refusals(p)
  BY <1>1, DrainOver DEF CarryIInv
<1>5. /\ LettersFit' /\ CountsFit' /\ tasks <= tasks' /\ mishaps <= mishaps'
      /\ Sealed' = Sealed /\ Queued' = Queued /\ returned' = returned
  BY <1>1, LettersStay DEF CarryIInv, CountsFit
<1>6. /\ told \in [Phones -> SUBSET LetterTx] /\ muted \in [Phones -> SUBSET LetterTx]
      /\ \A q \in Phones : told[q] \cup muted[q] \subseteq returned[q]
      /\ returned \in [Phones -> SUBSET LetterTx]
  BY DEF CarryIInv, SaidFits, LettersFit
<1>7. /\ told'[p] = told[p] \cup Shown(p)
      /\ muted'[p] = muted[p] \cup (Refusals(p) \ Shown(p))
      /\ \A q \in Phones : q # p => told'[q] = told[q] /\ muted'[q] = muted[q]
      /\ told' \in [Phones -> SUBSET LetterTx] /\ muted' \in [Phones -> SUBSET LetterTx]
  BY <1>1, <1>4, <1>6
<1>8. SaidFits'
  <2>1. \A q \in Phones : told'[q] \cup muted'[q] \subseteq returned[q]
    BY <1>4, <1>6, <1>7
  <2> QED BY <1>5, <1>7, <2>1 DEF SaidFits
<1>9. CarryIInv'
  BY <1>1, <1>3, <1>4, <1>5, <1>8 DEF CarryIInv
<1>10. \A t : Has(t) => Has(t)'
  BY <1>1 DEF Has
<1>11. /\ \A t \in Said(p) : KeptLetter(p, t)'
       /\ \A q \in Phones : q # p => Said(q)' = Said(q)
  <2>1. Said(p) \subseteq told'[p] \cup muted'[p]
    BY <1>7 DEF Said
  <2>2. ASSUME NEW q \in Phones, q # p PROVE Said(q)' = Said(q)
    BY <1>4, <1>7, <2>2 DEF Said, Refusals
  <2> QED BY <2>1, <2>2 DEF KeptLetter, Said
<1>12. /\ \A t : Owns(file[p], t) /\ Owns(outbox[p], t) => Owns(file'[p], t)
       /\ \A t : Owns(outbox[p], t) => Owns(outbox'[p], t)
  BY <1>1, <1>3
<1> QED BY <1>1, <1>3, <1>5, <1>9, <1>10, <1>11, <1>12, StaysKept

LEMMA HandOverFits ==
  ASSUME CarryIInv, KeptInv, NEW p \in Phones, NEW q \in Phones, HandOver(p, q)
  PROVE  CarryIInv' /\ KeptInv'
<1> PICK all : all = outbox[q] \o Taken(outbox[q], outbox[p])
  OBVIOUS
<1>1. /\ outbox' = [outbox EXCEPT ![q] = Prune(all)]
      /\ file' = [file EXCEPT ![q] = outbox'[q]]
      /\ UNCHANGED <<chain, known, drain, task, letterVars, toldVars, mishaps, tasks>>
  BY DEF HandOver
<1>2. /\ OutboxFits(outbox[p], p, Queued) /\ OutboxFits(outbox[q], q, Queued)
      /\ OutboxesFit(file, Queued) /\ OutboxesFit(outbox, Queued)
      /\ file \in [Phones -> Seq(Item)] /\ outbox \in [Phones -> Seq(Item)]
  BY DEF CarryIInv, OutboxesFit
<1>3. OutboxFits(all, q, Queued) /\ \A t : Owns(outbox[q], t) => Owns(all, t)
  BY <1>2, TakenFits
<1>4. OutboxFits(Prune(all), q, Queued) /\ \A t : Owns(all, t) => Owns(Prune(all), t)
  BY <1>3, PruneFits
<1>5. /\ OutboxesFit(outbox', Queued) /\ outbox'[q] = Prune(all)
      /\ \A r \in Phones : r # q => outbox'[r] = outbox[r]
  BY <1>1, <1>2, <1>4, BoxSet
<1>6. /\ OutboxesFit(file', Queued) /\ file'[q] = Prune(all)
      /\ \A r \in Phones : r # q => file'[r] = file[r]
  <2>1. file' = [file EXCEPT ![q] = Prune(all)]
    BY <1>1, <1>5
  <2> QED BY <1>2, <1>4, <2>1, BoxSet
<1>7. /\ LettersFit' /\ SaidFits' /\ CountsFit' /\ tasks <= tasks' /\ mishaps <= mishaps'
      /\ Sealed' = Sealed /\ Queued' = Queued /\ returned' = returned
  BY <1>1, LettersStay, SaidStays DEF CarryIInv, CountsFit
<1>8. CarryIInv'
  BY <1>1, <1>5, <1>6, <1>7 DEF CarryIInv
<1>9. \A t : Has(t) => Has(t)'
  BY <1>1 DEF Has
<1>10. \A t : Owns(outbox[q], t) => Owns(outbox'[q], t) /\ Owns(file'[q], t)
  BY <1>3, <1>4, <1>5, <1>6
<1>11. /\ \A r \in Phones : Said(r)' = Said(r)
       /\ \A t \in Said(q) : KeptLetter(q, t)'
  <2>1. \A r \in Phones : Said(r)' = Said(r)
    BY <1>1, SaidSame
  <2> QED BY <2>1 DEF KeptLetter
<1> QED BY <1>1, <1>5, <1>6, <1>7, <1>8, <1>9, <1>10, <1>11, StaysKept

LEMMA KillFits ==
  ASSUME CarryIInv, KeptInv, NEW p \in Phones, Kill(p)
  PROVE  CarryIInv' /\ KeptInv'
<1> PICK lost : lost = {tx \in Refusals(p) : ~Holds(Mine(file[p]), tx)}
  OBVIOUS
<1>1. /\ MayFail
      /\ outbox' = [outbox EXCEPT ![p] = Prune(file[p])]
      /\ drain' = [drain EXCEPT ![p] = NoDrain]
      /\ draft' = [draft EXCEPT ![p] = {}]
      /\ muted' = [muted EXCEPT ![p] = @ \cup lost]
      /\ mishaps' = mishaps + 1
      /\ UNCHANGED <<chain, file, known, task, written, returned, told, tasks>>
  BY DEF Kill
<1>2. /\ OutboxFits(file[p], p, Queued) /\ OutboxesFit(outbox, Queued)
      /\ outbox \in [Phones -> Seq(Item)] /\ file[p] \in Seq(Item)
  BY DEF CarryIInv, OutboxesFit
<1>3. OutboxFits(Prune(file[p]), p, Queued) /\ \A t : Owns(file[p], t) => Owns(Prune(file[p]), t)
  BY <1>2, PruneFits
<1>4. /\ OutboxesFit(outbox', Queued) /\ outbox'[p] = Prune(file[p])
      /\ \A q \in Phones : q # p => outbox'[q] = outbox[q]
  BY <1>1, <1>2, <1>3, BoxSet
<1>5. /\ DrainsFit(drain', Queued, returned)
      /\ \A q \in Phones : q # p => drain'[q] = drain[q]
      /\ Refusals(p) \subseteq returned[p]
  BY <1>1, DrainOver DEF CarryIInv
<1>6. /\ CountsFit' /\ mishaps' # 0 /\ tasks <= tasks' /\ mishaps <= mishaps'
  BY <1>1, CarryAssumption DEF CarryIInv, CountsFit, MayFail
<1>7. LettersFit' /\ Sealed' = Sealed /\ Queued' = Queued
  <2>1. /\ draft \in [Phones -> SUBSET Draft] /\ returned \in [Phones -> SUBSET LetterTx]
        /\ \A q \in Phones : /\ returned[q] \subseteq written[q]
                             /\ \A d \in draft[q] : d.tx \in written[q] \ returned[q]
    BY DEF CarryIInv, LettersFit
  <2>2. draft' \in [Phones -> SUBSET Draft] /\ \A q \in Phones : draft'[q] \subseteq draft[q]
    BY <1>1, <2>1
  <2>3. WrittenFits' /\ Sealed' = Sealed /\ Queued' = Queued
    BY <1>1 DEF CarryIInv, LettersFit, WrittenFits, Sealed, Queued
  <2> QED BY <1>1, <2>1, <2>2, <2>3 DEF LettersFit
<1>8. /\ muted \in [Phones -> SUBSET LetterTx] /\ returned \in [Phones -> SUBSET LetterTx]
      /\ told \in [Phones -> SUBSET LetterTx]
      /\ \A q \in Phones : told[q] \cup muted[q] \subseteq returned[q]
  BY DEF CarryIInv, SaidFits, LettersFit
<1>9. /\ muted' \in [Phones -> SUBSET LetterTx] /\ muted'[p] = muted[p] \cup lost
      /\ \A q \in Phones : q # p => muted'[q] = muted[q]
      /\ lost \subseteq returned[p]
  BY <1>1, <1>5, <1>8
<1>10. SaidFits'
  <2>1. \A q \in Phones : told[q] \cup muted'[q] \subseteq returned[q]
    BY <1>8, <1>9
  <2> QED BY <1>1, <1>8, <1>9, <2>1 DEF SaidFits
<1>11. CarryIInv'
  BY <1>1, <1>4, <1>5, <1>6, <1>7, <1>10 DEF CarryIInv
<1>12. \A t : Has(t) => Has(t)'
  BY <1>1 DEF Has
<1>13. \A q \in Phones : q # p => Said(q)' = Said(q)
  BY <1>1, <1>5, <1>9 DEF Said, Refusals
<1>14. ASSUME NEW t \in Said(p) PROVE KeptLetter(p, t)'
  <2>1. CASE t \in told[p] \cup muted[p] \cup lost
    <3>1. t \in told'[p] \cup muted'[p]
      BY <1>1, <1>9, <2>1
    <3> QED BY <3>1 DEF KeptLetter, Said
  <2>2. CASE t \in Refusals(p) /\ Holds(Mine(file[p]), t)
    <3>1. Owns(file[p], t)
      BY <1>2, <2>2, MineHolds
    <3>2. Waits(p, t)'
      BY <1>1, <1>3, <1>4, <3>1 DEF Waits
    <3> QED BY <3>2 DEF KeptLetter
  <2> QED BY <2>1, <2>2 DEF Said
<1>15. \A t : /\ tasks' = 0 \/ mishaps' = 0
              /\ Owns(outbox[p], t) /\ (tasks' = 0 => Owns(file[p], t))
              => Owns(outbox'[p], t)
  BY <1>3, <1>4, <1>6
<1> QED BY <1>1, <1>4, <1>6, <1>11, <1>12, <1>13, <1>14, <1>15, StaysKept

LEMMA BeginTaskFits ==
  ASSUME CarryIInv, KeptInv, NEW p \in Phones, BeginTask(p)
  PROVE  CarryIInv' /\ KeptInv'
<1> PICK items : items = Prune(file[p])
  OBVIOUS
<1> PICK y : y = [on |-> TRUE, items |-> items, todo |-> Snapshot(items), changed |-> FALSE]
  OBVIOUS
<1>1. /\ MayFail
      /\ task' = [task EXCEPT ![p] = y]
      /\ tasks' = tasks + 1
      /\ UNCHANGED <<chain, outbox, file, known, drain, letterVars, toldVars, mishaps>>
  BY DEF BeginTask, phoneVars
<1>2. OutboxFits(items, p, Queued)
  BY PruneFits DEF CarryIInv, OutboxesFit
<1>3. TodoFits(Snapshot(items), Queued)
  BY <1>2, SnapshotFits
<1>4. /\ CountsFit' /\ tasks' # 0 /\ tasks <= tasks'
  BY <1>1, CarryAssumption DEF CarryIInv, CountsFit, MayFail
<1>5. y \in Tasks /\ TaskFits(y, p, Queued, tasks')
  BY <1>2, <1>3, <1>4 DEF Tasks, TaskFits, RoundFits, TodoFits, OutboxFits
<1>6. TasksFit(task, Queued, tasks')
  BY <1>4 DEF CarryIInv, TasksFit, TaskFits
<1>7. TasksFit(task', Queued, tasks')
  <2> PICK n : n = tasks'
    OBVIOUS
  <2>1. TasksFit([task EXCEPT ![p] = y], Queued, n)
    BY <1>5, <1>6, TaskSet
  <2> QED BY <1>1, <2>1
<1>8. /\ LettersFit' /\ SaidFits'
      /\ Sealed' = Sealed /\ Queued' = Queued /\ returned' = returned
  BY <1>1, LettersStay, SaidStays DEF CarryIInv
<1>9. CarryIInv'
  BY <1>1, <1>4, <1>7, <1>8 DEF CarryIInv
<1>10. \A q \in Phones : Said(q)' = Said(q)
  BY <1>1, SaidSame
<1> QED BY <1>1, <1>4, <1>8, <1>9, <1>10, QuietKept

LEMMA TaskAnsweredFits ==
  ASSUME CarryIInv, KeptInv, NEW p \in Phones, TaskAnswered(p)
  PROVE  CarryIInv' /\ KeptInv'
<1> PICK todo : todo = task[p].todo
  OBVIOUS
<1> PICK tx : tx = Head(todo)
  OBVIOUS
<1> PICK items : items = Without(task[p].items, tx)
  OBVIOUS
<1> PICK rest : rest = Tail(todo)
  OBVIOUS
<1>1. /\ todo # <<>>
      /\ task' = [task EXCEPT ![p].items = items, ![p].todo = rest, ![p].changed = TRUE]
      /\ UNCHANGED <<outbox, file, known, drain, letterVars, toldVars, tasks>>
  BY DEF TaskAnswered, phoneVars
<1> PICK outcome : Submit(tx, outcome)
  BY DEF TaskAnswered
<1>2. /\ TasksFit(task, Queued, tasks) /\ TodoFits(todo, Queued) /\ task[p].on
      /\ OutboxFits(task[p].items, p, Queued)
  BY <1>1 DEF CarryIInv, TasksFit, TaskFits, RoundFits
<1>3. tx \in Sealed /\ tx \in LetterTx /\ TodoFits(rest, Queued)
  BY <1>1, <1>2, RestOfTodo, QueuedLetters DEF CarryIInv
<1>4. /\ ChainFits(chain', Sealed)
      /\ \A t : Has(t) => Has(t)'
      /\ mishaps' \in Nat /\ mishaps <= mishaps' /\ mishaps' + tasks <= MaxMishaps
  BY <1>3, SubmitFits
<1>5. TasksFit(task', Queued, tasks)
  <2>1. OutboxFits(items, p, Queued)
    BY <1>2, WithoutFits
  <2>2. TasksFit([task EXCEPT ![p].items = items, ![p].todo = rest, ![p].changed = TRUE], Queued, tasks)
    BY <1>2, <1>3, <2>1, TaskEdited
  <2> QED BY <1>1, <2>2
<1>6. /\ LettersFit' /\ SaidFits' /\ CountsFit' /\ tasks <= tasks'
      /\ Sealed' = Sealed /\ Queued' = Queued /\ returned' = returned
  BY <1>1, <1>4, LettersStay, SaidStays DEF CarryIInv, CountsFit
<1>7. CarryIInv'
  BY <1>1, <1>4, <1>5, <1>6 DEF CarryIInv
<1>8. /\ \A q \in Phones : Said(q)' = Said(q)
      /\ \A t \in Said(p) : KeptLetter(p, t)'
  <2>1. \A q \in Phones : Said(q)' = Said(q)
    BY <1>1, SaidSame
  <2> QED BY <2>1 DEF KeptLetter
<1> QED BY <1>1, <1>4, <1>6, <1>7, <1>8, StaysKept

LEMMA TaskUnreachableFits ==
  ASSUME CarryIInv, KeptInv, NEW p \in Phones, TaskUnreachable(p)
  PROVE  CarryIInv' /\ KeptInv'
<1> PICK tx : tx = Head(task[p].todo)
  OBVIOUS
<1> PICK none : none = <<>>
  OBVIOUS
<1>1. /\ task[p].todo # <<>> /\ Submit(tx, "unreachable")
      /\ task' = [task EXCEPT ![p].todo = none]
      /\ UNCHANGED <<outbox, file, known, drain, letterVars, toldVars, tasks>>
  BY DEF TaskUnreachable, phoneVars
<1>2. /\ TasksFit(task, Queued, tasks) /\ TodoFits(task[p].todo, Queued)
      /\ OutboxFits(task[p].items, p, Queued)
  BY DEF CarryIInv, TasksFit, TaskFits, RoundFits
<1>3. tx \in Sealed /\ tx \in LetterTx
  BY <1>1, <1>2, RestOfTodo, QueuedLetters DEF CarryIInv
<1>4. /\ ChainFits(chain', Sealed)
      /\ \A t : Has(t) => Has(t)'
      /\ mishaps' \in Nat /\ mishaps <= mishaps' /\ mishaps' + tasks <= MaxMishaps
  BY <1>1, <1>3, SubmitFits
<1>5. TasksFit(task', Queued, tasks)
  <2>1. TodoFits(none, Queued) /\ (none # <<>> => task[p].on)
    BY NoTodo
  <2>2. TasksFit([task EXCEPT ![p].todo = none], Queued, tasks)
    BY <1>2, <2>1, TaskEdited
  <2> QED BY <1>1, <2>2
<1>6. /\ LettersFit' /\ SaidFits' /\ CountsFit' /\ tasks <= tasks'
      /\ Sealed' = Sealed /\ Queued' = Queued /\ returned' = returned
  BY <1>1, <1>4, LettersStay, SaidStays DEF CarryIInv, CountsFit
<1>7. CarryIInv'
  BY <1>1, <1>4, <1>5, <1>6 DEF CarryIInv
<1>8. /\ \A q \in Phones : Said(q)' = Said(q)
      /\ \A t \in Said(p) : KeptLetter(p, t)'
  <2>1. \A q \in Phones : Said(q)' = Said(q)
    BY <1>1, SaidSame
  <2> QED BY <2>1 DEF KeptLetter
<1> QED BY <1>1, <1>4, <1>6, <1>7, <1>8, StaysKept

\* The background check may write an old outbox over the file; then it has run,
\* and QueuedIsKept asks no more of the file.
LEMMA EndTaskFits ==
  ASSUME CarryIInv, KeptInv, NEW p \in Phones, EndTask(p)
  PROVE  CarryIInv' /\ KeptInv'
<1>1. /\ task[p].on
      /\ file' = IF task[p].changed THEN [file EXCEPT ![p] = task[p].items] ELSE file
      /\ task' = [task EXCEPT ![p] = Off]
      /\ UNCHANGED <<chain, outbox, known, drain, letterVars, toldVars, mishaps, tasks>>
  BY DEF EndTask
<1>2. /\ TasksFit(task, Queued, tasks) /\ TaskFits(task[p], p, Queued, tasks)
      /\ OutboxesFit(file, Queued) /\ file \in [Phones -> Seq(Item)]
  BY DEF CarryIInv, TasksFit, OutboxesFit
<1>3. OutboxesFit(file', Queued) /\ \A q \in Phones : q # p => file'[q] = file[q]
  <2>1. CASE file' = file
    BY <1>2, <2>1
  <2>2. CASE file' = [file EXCEPT ![p] = task[p].items]
    BY <1>2, <2>2, BoxSet DEF TaskFits
  <2> QED BY <1>1, <2>1, <2>2
<1>4. TasksFit(task', Queued, tasks)
  <2> PICK y : y = Off
    OBVIOUS
  <2>1. y \in Tasks /\ TaskFits(y, p, Queued, tasks)
    BY EmptySeq, NoTodo, EmptyOutbox DEF Off, Tasks, TaskFits, RoundFits
  <2>2. TasksFit([task EXCEPT ![p] = y], Queued, tasks)
    BY <1>2, <2>1, TaskSet
  <2> QED BY <1>1, <2>2
<1>5. tasks' # 0 /\ tasks' = tasks
  BY <1>1, <1>2 DEF TaskFits
<1>6. /\ LettersFit' /\ SaidFits' /\ CountsFit' /\ tasks <= tasks' /\ mishaps <= mishaps'
      /\ Sealed' = Sealed /\ Queued' = Queued /\ returned' = returned
  BY <1>1, LettersStay, SaidStays DEF CarryIInv, CountsFit
<1>7. CarryIInv'
  BY <1>1, <1>3, <1>4, <1>6 DEF CarryIInv
<1>8. \A t : Has(t) => Has(t)'
  BY <1>1 DEF Has
<1>9. /\ \A q \in Phones : Said(q)' = Said(q)
      /\ \A t \in Said(p) : KeptLetter(p, t)'
  <2>1. \A q \in Phones : Said(q)' = Said(q)
    BY <1>1, SaidSame
  <2> QED BY <2>1 DEF KeptLetter
<1> QED BY <1>1, <1>3, <1>5, <1>6, <1>7, <1>8, <1>9, StaysKept

LEMMA CarryBegins == CarryInit => CarryIInv /\ KeptInv
<1> SUFFICES ASSUME CarryInit PROVE CarryIInv /\ KeptInv
  OBVIOUS
<1>1. /\ \A p \in Phones : /\ outbox[p] = <<>> /\ file[p] = <<>>
                           /\ written[p] = {} /\ returned[p] = {} /\ draft[p] = {}
                           /\ told[p] = {} /\ muted[p] = {} /\ known[p] = 0
                           /\ drain[p] = NoDrain /\ task[p] = Off
      /\ chain = <<>> /\ mishaps = 0 /\ tasks = 0
  BY DEF CarryInit
<1>2. MaxLetters \in Nat /\ MaxMishaps \in Nat
  BY CarryAssumption
<1>3. WrittenFits
  <2>1. IsFiniteSet({}) /\ Cardinality({}) = 0
    BY FS_EmptySet
  <2>2. written \in [Phones -> SUBSET LetterTx]
    BY DEF CarryInit
  <2>3. 0 <= MaxLetters
    BY <1>2
  <2>4. ASSUME NEW p \in Phones
        PROVE  IsFiniteSet(written[p]) /\ Cardinality(written[p]) <= MaxLetters
    BY <1>1, <2>1, <2>3
  <2>5. \A p \in Phones : written[p] = {}
    BY <1>1
  <2> QED BY <2>2, <2>4, <2>5 DEF WrittenFits
<1>4. LettersFit
  BY <1>1, <1>3 DEF LettersFit, CarryInit
<1>5. SaidFits
  BY <1>1 DEF SaidFits, CarryInit
<1>6. ChainFits(chain, Sealed)
  <2>1. DOMAIN <<>> = {}
    OBVIOUS
  <2> QED BY <1>1, <2>1, NoTodo DEF ChainFits
<1>7. OutboxesFit(outbox, Queued) /\ OutboxesFit(file, Queued)
  <2>1. outbox \in [Phones -> Seq(Item)] /\ file = outbox
    BY EmptySeq DEF CarryInit
  <2> QED BY <1>1, <2>1, EmptyOutbox DEF OutboxesFit
<1>8. NoDrain \in Drains /\ \A R : DrainFits(NoDrain, Queued, R)
  BY EmptySeq, NoTodo DEF NoDrain, Drains, DrainFits, RoundFits
<1>9. DrainsFit(drain, Queued, returned)
  <2>1. drain \in [Phones -> Drains]
    BY <1>8 DEF CarryInit
  <2> QED BY <1>1, <1>8, <2>1 DEF DrainsFit
<1>10. ASSUME NEW p PROVE Off \in Tasks /\ TaskFits(Off, p, Queued, 0)
  BY EmptySeq, NoTodo, EmptyOutbox DEF Off, Tasks, TaskFits, RoundFits
<1>11. TasksFit(task, Queued, tasks)
  <2>1. task \in [Phones -> Tasks]
    BY <1>10 DEF CarryInit
  <2> QED BY <1>1, <1>10, <2>1 DEF TasksFit
<1>12. known \in [Phones -> 0 .. MaxLetters]
  BY <1>1, <1>2 DEF CarryInit
<1>13. CountsFit
  BY <1>1, <1>2 DEF CountsFit
<1>14. KeptInv
  BY <1>1, CarryAssumption DEF KeptInv
<1> QED BY <1>4, <1>5, <1>6, <1>7, <1>9, <1>11, <1>12, <1>13, <1>14 DEF CarryIInv

LEMMA CarryStays ==
  ASSUME CarryIInv, KeptInv, UNCHANGED carryVars
  PROVE  CarryIInv' /\ KeptInv'
<1>1. UNCHANGED <<chain, outbox, file, known, drain, task, letterVars, toldVars, mishaps, tasks>>
  BY DEF carryVars, phoneVars
<1>2. /\ LettersFit' /\ SaidFits' /\ CountsFit' /\ tasks <= tasks'
      /\ Sealed' = Sealed /\ Queued' = Queued /\ returned' = returned
  BY <1>1, LettersStay, SaidStays DEF CarryIInv, CountsFit
<1>3. CarryIInv'
  BY <1>1, <1>2 DEF CarryIInv
<1>4. \A q \in Phones : Said(q)' = Said(q)
  BY <1>1, SaidSame
<1> QED BY <1>1, <1>2, <1>3, <1>4, QuietKept

LEMMA CarryStep ==
  ASSUME CarryIInv, KeptInv, [CarryNext]_carryVars
  PROVE  CarryIInv' /\ KeptInv'
<1>1. ASSUME NEW p \in Phones, SealLetter(p) \/ TryPost(p) \/ QueueLetter(p) \/ Refresh(p)
      PROVE  CarryIInv' /\ KeptInv'
  BY <1>1, SealLetterFits, TryPostFits, QueueLetterFits, RefreshFits
<1>2. ASSUME NEW p \in Phones,
             BeginDrain(p) \/ DrainAnswered(p) \/ DrainUnreachable(p) \/ EndDrain(p) \/ Kill(p)
      PROVE  CarryIInv' /\ KeptInv'
  BY <1>2, BeginDrainFits, DrainAnsweredFits, DrainUnreachableFits, EndDrainFits, KillFits
<1>3. ASSUME NEW p \in Phones,
             BeginTask(p) \/ TaskAnswered(p) \/ TaskUnreachable(p) \/ EndTask(p)
      PROVE  CarryIInv' /\ KeptInv'
  BY <1>3, BeginTaskFits, TaskAnsweredFits, TaskUnreachableFits, EndTaskFits
<1>4. ASSUME NEW p \in Phones, NEW q \in Phones, HandOver(p, q)
      PROVE  CarryIInv' /\ KeptInv'
  BY <1>4, HandOverFits
<1> QED BY <1>1, <1>2, <1>3, <1>4, CarryStays DEF CarryNext

LEMMA CarryInvariant == CarrySpec => [](CarryIInv /\ KeptInv)
<1>1. CarryInit => CarryIInv /\ KeptInv
  BY CarryBegins
<1>2. CarryIInv /\ KeptInv /\ [CarryNext]_carryVars => (CarryIInv /\ KeptInv)'
  BY CarryStep
<1> QED BY <1>1, <1>2, PTL DEF CarrySpec

\* The types of the outbox, its drains and the chain of a seed; with them, that
\* the nonces of letters written offline stay in bounds, as a phone queues no
\* letter twice and a seed takes none twice, and that only letters the app has
\* queued are ever shown or dropped as refused (outbox.dart, session.dart).
THEOREM CarryTypeCorrect == CarrySpec => []CarryTypeOK
<1>1. CarryIInv => CarryTypeOK
  <2> SUFFICES ASSUME CarryIInv PROVE CarryTypeOK
    OBVIOUS
  <2>1. chain \in Seq(LetterTx) /\ CountsFit
    BY DEF CarryIInv, ChainFits, TodoFits
  <2>2. ASSUME NEW p \in Phones
        PROVE  /\ outbox[p] \in Seq(Item) /\ file[p] \in Seq(Item)
               /\ known[p] \in 0 .. MaxLetters
               /\ drain[p].todo \in Seq(LetterTx) /\ (drain[p].todo # <<>> => drain[p].on)
               /\ task[p].todo \in Seq(LetterTx) /\ (task[p].todo # <<>> => task[p].on)
    BY DEF CarryIInv, OutboxesFit, DrainsFit, DrainFits, RoundFits, TasksFit, TaskFits, TodoFits
  <2>3. ASSUME NEW p \in Phones
        PROVE  /\ draft[p] \subseteq Draft /\ {d.tx : d \in draft[p]} \subseteq written[p]
               /\ Refusals(p) \cup told[p] \cup muted[p] \subseteq returned[p]
               /\ returned[p] \subseteq written[p] /\ written[p] \subseteq LetterTx
    <3>1. Refusals(p) \subseteq returned[p]
      BY DEF CarryIInv, DrainsFit, DrainFits, TodoFits, Refusals
    <3> QED BY <3>1 DEF CarryIInv, LettersFit, WrittenFits, SaidFits
  <2> QED BY <2>1, <2>2, <2>3 DEF CarryTypeOK, CountsFit
<1> QED BY <1>1, CarryInvariant, PTL

\* No letter that sendLetter has sent or queued is lost without a refusal, whatever
\* answers are lost, refused or late and wherever the app is killed (outbox.dart
\* drain, addMine, prune; session.dart; background.dart).  Refused letters that
\* the app never shows, `muted`, and what a background check beside the app takes
\* away are the exemptions QueuedIsKept names.
THEOREM QueuedLettersStay == CarrySpec => []QueuedIsKept
<1>1. CarryIInv /\ KeptInv => QueuedIsKept
  BY KeptIs
<1> QED BY <1>1, CarryInvariant, PTL

=============================================================================
