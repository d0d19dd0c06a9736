-------------------------- MODULE ConversationsProofs --------------------------
(***************************************************************************)
(* What holds of Conversations for numbers of every length and country,    *)
(* every way to write them and every line that Asterisk may list.          *)
(***************************************************************************)
EXTENDS Conversations, SequenceTheorems, TLAPS

(* A number in one of its spellings comes out as itself, unless it is one  *)
(* of another country, of ten digits and without its "+".                  *)
LEMMA SpelledNumber ==
  ASSUME NEW p \in Numbers, Len(p) = 10 => p[1] # 1,
         NEW w \in Spelled(p), ~Bare(w, p), NEW n \in Normalized(w)
  PROVE  n = p
  <1>1. CASE w = Written(TRUE, p)
    BY <1>1 DEF Normalized, Written
  <1>2. CASE w = Written(FALSE, p)
    <2>1. w.digits = p /\ ~w.plus /\ Len(p) # 10
      BY <1>2 DEF Written, Bare
    <2>2. Normalized(w) = {} \/ Normalized(w) = {p}
      BY <2>1 DEF Normalized
    <2> QED BY <2>2
  <1>3. CASE Len(p) = 11 /\ p[1] = 1 /\ w = Written(FALSE, Tail(p))
    <2>0. p # <<>>
      BY <1>3, EmptySeq
    <2>1. w.digits = Tail(p) /\ ~w.plus /\ p # <<>>
      BY <1>3, <2>0 DEF Written
    <2>2. Len(Tail(p)) = 10
      BY <1>3, <2>1, HeadTailProperties DEF Numbers
    <2>3. n = <<1>> \o Tail(p)
      BY <2>1, <2>2 DEF Normalized
    <2>4. p = <<Head(p)>> \o Tail(p)
      BY <2>1 DEF Numbers
    <2> QED BY <1>3, <2>3, <2>4
  <1> QED BY <1>1, <1>2, <1>3 DEF Spelled

LEMMA OwnNumber ==
  ASSUME NEW w \in OwnSpellings, NEW n \in Normalized(w)
  PROVE  n = Own
  BY SpelledNumber, ConversationsAssumption

LEMMA PeerNumber ==
  ASSUME NEW p \in Peers, NEW w \in Spellings[p], ~Bare(w, p), NEW n \in Normalized(w)
  PROVE  n = p
  BY SpelledNumber, ConversationsAssumption

(* A listing that shows the number is read as the number.                  *)
LEMMA ListedNumber ==
  ASSUME NEW tokens \in Listings, NEW i \in DOMAIN tokens, Normalized(tokens[i]) = {Own}
  PROVE  Listed(tokens) = {Own}
  <1> DEFINE good == {j \in DOMAIN tokens : Normalized(tokens[j]) # {}}
  <1>0. tokens \in Seq([plus : BOOLEAN, digits : Numbers])
    BY ConversationsAssumption
  <1>1. DOMAIN tokens \subseteq Nat /\ i \in Nat /\ i \in good
    BY <1>0
  <1>2. ASSUME NEW j \in good PROVE j \in Nat /\ i >= j
    <2>1. ~(i < j)
      BY ConversationsAssumption
    <2> QED BY <1>1, <2>1
  <1>3. Max(good) = i
    <2> HIDE DEF good
    <2>1. \A j \in good : j >= i => j = i
      BY <1>1, <1>2
    <2> QED BY <1>1, <1>2, <2>1 DEF Max
  <1>4. good # {}
    BY <1>1
  <1> QED BY <1>3, <1>4 DEF Listed

(***************************************************************************)
(* Where each source of messages files them.                               *)
(***************************************************************************)
SettingKnown == setting \in OwnSpellings \cup {None} /\ listing \in Listings \cup {None}

FiledKnown == \A m \in filed : /\ ~m.hidden => m.local = Own
                               /\ ~m.bare => m.remote = m.peer

ChatsInv == SettingKnown /\ FiledKnown

(* Unless the listing shows another number, what the gateway takes for its *)
(* own is its own.                                                         *)
LEMMA AvailableNumber ==
  ASSUME SettingKnown, ~Hidden, NEW n \in Available
  PROVE  n = Own
  <1>1. ASSUME NEW m \in Fallback PROVE m = Own
    BY <1>1, OwnNumber DEF Fallback, SettingKnown
  <1>2. CASE listing = None
    BY <1>1, <1>2 DEF Available
  <1>3. CASE listing # None /\ \E i \in DOMAIN listing : Normalized(listing[i]) = {Own}
    <2>1. Listed(listing) = {Own}
      BY <1>3, ListedNumber DEF SettingKnown
    <2> QED BY <1>3, <2>1 DEF Available
  <1>4. CASE listing # None /\ \A i \in DOMAIN listing : Normalized(listing[i]) = {}
    <2>1. Listed(listing) = {}
      BY <1>4 DEF Listed
    <2> QED BY <1>1, <1>4, <2>1 DEF Available
  <1> QED BY <1>2, <1>3, <1>4 DEF Hidden

LEMMA FileStep ==
  ASSUME FiledKnown, NEW p \in Peers, NEW w \in Spellings[p], NEW local, NEW hidden,
         ~hidden => local = Own, File(local, w, p, hidden)
  PROVE  FiledKnown'
  <1>1. PICK remote \in Normalized(w) :
          filed' = filed \cup {[local |-> local, remote |-> remote, peer |-> p,
                                hidden |-> hidden, bare |-> Bare(w, p)]}
    BY DEF File
  <1>2. ~Bare(w, p) => remote = p
    BY PeerNumber
  <1> QED BY <1>1, <1>2 DEF FiledKnown

LEMMA ChatsStep ==
  ASSUME ChatsInv, [Next]_vars
  PROVE  ChatsInv'
  <1>0. SettingKnown /\ FiledKnown
    BY DEF ChatsInv
  <1>1. SettingKnown'
    BY <1>0 DEF SettingKnown, Next, vars, Text, Mms, CreateChat, File, ListingChanges
  <1>2. ASSUME NEW p \in Peers, Text(p) PROVE FiledKnown'
    BY <1>0, <1>2, FileStep, AvailableNumber DEF Text
  <1>3. ASSUME NEW p \in Peers, Mms(p) PROVE FiledKnown'
    BY <1>0, <1>3, FileStep, OwnNumber DEF Mms, SettingKnown
  <1>4. ASSUME NEW p \in Peers, CreateChat(p) PROVE FiledKnown'
    <2>0. PICK from \in OwnSpellings \cup {Written(TRUE, d) : d \in Available}, w \in Spellings[p] :
            \E local \in Normalized(from) : File(local, w, p, Hidden)
      BY <1>4 DEF CreateChat
    <2>1. PICK local \in Normalized(from) : File(local, w, p, Hidden)
      BY <2>0
    <2>2. ASSUME ~Hidden PROVE local = Own
      <3>1. CASE from \in OwnSpellings
        BY <3>1, OwnNumber
      <3>2. ASSUME NEW d \in Available, from = Written(TRUE, d) PROVE local = d
        BY <3>2 DEF Written, Normalized
      <3> QED BY <1>0, <2>2, <3>1, <3>2, AvailableNumber
    <2> QED BY <1>0, <2>1, <2>2, FileStep
  <1>5. ASSUME UNCHANGED filed PROVE FiledKnown'
    BY <1>0, <1>5 DEF FiledKnown
  <1>6. \/ \E p \in Peers : Text(p) \/ Mms(p) \/ CreateChat(p)
        \/ UNCHANGED filed
    BY DEF Next, ListingChanges, vars
  <1>7. FiledKnown'
    BY <1>2, <1>3, <1>4, <1>5, <1>6, Zenon
  <1> QED BY <1>1, <1>7 DEF ChatsInv

(* Texts, MMS and outbound messages of one correspondent are in one chat,  *)
(* and those of two never are, however normalize_phone_number is given the *)
(* numbers and whichever of the three sources names the gateway's own.     *)
THEOREM OneChatPerCorrespondent == Spec => []OneConversation
  <1>1. Init => ChatsInv
    BY DEF Init, ChatsInv, SettingKnown, FiledKnown
  <1>2. ChatsInv /\ [Next]_vars => ChatsInv'
    BY ChatsStep
  <1>3. ChatsInv => OneConversation
    BY DEF ChatsInv, FiledKnown, OneConversation, SameChat
  <1> QED BY <1>1, <1>2, <1>3, PTL DEF Spec
===============================================================================
