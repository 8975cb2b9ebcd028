------------------------------- MODULE Notes --------------------------------
(***************************************************************************)
(* Checkpoints as signed notes: signTreeHead, openCheckpoint, and the      *)
(* parser and the RFC 6962 verifier of package sunlight.                   *)
(*                                                                         *)
(* A note is a text and a sequence of signatures.  A text is a sequence of *)
(* lines, each with its newline, as note.Open leaves it, which refuses     *)
(* notes of more than a megabyte itself; the tree size is a line of        *)
(* digits.  Cryptographic signatures are perfect: Sig(key, msg) exists if  *)
(* the key signed the message.                                             *)
(***************************************************************************)
EXTENDS Integers, FiniteSets, SequencesExt

CONSTANTS Name,        \* Config.Name
          Key,         \* Config.Key
          WitnessKey,  \* Config.WitnessKey
          Trees,       \* the tree heads that the log comes to have: [n, hash]
          MaxNow       \* bound on the clock

Sig(key, msg) == [key |-> key, msg |-> msg]

-----------------------------------------------------------------------------
(* FormatCheckpoint and ParseCheckpoint.                                   *)

\* strconv.FormatInt and ParseInt, on sequences of digits and signs.  An
\* error of ParseInt is given as a negative number, which nobody accepts.
Plus == 10
Minus == 11
FormatInt[n \in Nat] == IF n < 10 THEN <<n>> ELSE Append(FormatInt[n \div 10], n % 10)
FromDigits(s) ==
    LET value[i \in 0 .. Len(s)] == IF i = 0 THEN 0 ELSE 10 * value[i - 1] + s[i]
    IN  value[Len(s)]
ParseInt(line) ==
    IF line = <<>> THEN -1
    ELSE IF Head(line) = Minus THEN -FromDigits(Tail(line))
    ELSE FromDigits(IF Head(line) = Plus THEN Tail(line) ELSE line)

\* The line of a hash: StdEncoding is not strict, so that a hash has more
\* than one encoding that is decoded, of which EncodeToString gives one.  The
\* length of what cannot be decoded is -1.
Base64(hash) == [hash |-> hash, strict |-> TRUE, len |-> 32]

FormatCheckpoint(c) == <<c.origin, FormatInt[c.n], Base64(c.hash)>> \o c.extension

ASSUME TreesAssumption ==
    \A t \in Trees : t = [n |-> t.n, hash |-> t.hash] /\ t.n \in Nat

Malformed == [origin |-> "malformed"]

ParseCheckpoint(text) ==
    IF /\ Len(text) >= 3
       /\ ParseInt(text[2]) >= 0 /\ text[2] = FormatInt[ParseInt(text[2])]
       /\ text[3].len = 32
       /\ \A i \in 4 .. Len(text) : text[i] # ""
    THEN [origin |-> text[1], n |-> ParseInt(text[2]), hash |-> text[3].hash,
          extension |-> SubSeq(text, 4, Len(text))]
    ELSE Malformed

-----------------------------------------------------------------------------
(* Signatures and verifiers.                                               *)

\* keyHash, and note's for Ed25519.
KeyHash(name, alg, key) == <<name, alg, key>>

TreeHead(n, hash, time) == [size |-> n, root |-> hash, timestamp |-> time]

\* NewRFC6962Verifier: its name and hash, and the verify function for an
\* ECDSA key.
V1 == KeyHash(Name, 5, Key)

\* (Mutant: extension lines, which the tree head does not have, are ignored.)
VerifyV1Extended(text, raw) ==
    LET c == ParseCheckpoint(text)
    IN  /\ c # Malformed
        /\ raw.signature = Sig(Key, TreeHead(c.n, c.hash, raw.timestamp))

VerifyV1(text, raw) ==
    LET c == ParseCheckpoint(text)
    IN  /\ c # Malformed /\ c.extension = <<>>
        /\ raw.signature = Sig(Key, TreeHead(c.n, c.hash, raw.timestamp))

V2 == KeyHash(Name, 1, WitnessKey)
VerifyV2(text, raw) == raw.signature = Sig(WitnessKey, text)

Signature(name, hash, time, signature) ==
    [name |-> name, hash |-> hash, raw |-> [timestamp |-> time, signature |-> signature]]

\* greaseSignatures: of no key that anyone verifies with.
Grease ==
    {Signature("grease.invalid", KeyHash("grease.invalid", 0, "none"), 0, "random"),
     Signature(Name, KeyHash(Name, 0, "none"), 0, "random")}

\* What is signed, and the signatures of the two signers.
TextOf(name, tree) ==
    FormatCheckpoint([origin |-> name, n |-> tree.n, hash |-> tree.hash, extension |-> <<>>])
SignedV1(name, key, tree, time) ==
    Signature(name, KeyHash(name, 5, key), time, Sig(key, TreeHead(tree.n, tree.hash, time)))
SignedV2(name, witness, tree) ==
    Signature(name, KeyHash(name, 1, witness), 0, Sig(witness, TextOf(name, tree)))

\* Every note that signTreeHead may produce, as the signers and the grease
\* are shuffled.
SignTreeHead(name, key, witness, tree, time) ==
    LET signers == {SignedV1(name, key, tree, time), SignedV2(name, witness, tree)}
    IN  {[text |-> TextOf(name, tree), sigs |-> g \o s] :
            g \in SetToSeqs(Grease), s \in SetToSeqs(signers)}

\* The signature that note.Open takes to be of verifier v: the first; others
\* of the same verifier are dropped.  Those of no verifier are set aside.
Of(note, v) == SelectInSeq(note.sigs, LAMBDA s : s.name = Name /\ s.hash = v)
Found(note, v) == Of(note, v) # 0
Raw(note, v) == note.sigs[Of(note, v)].raw

NoteOpens(note) ==
    /\ Found(note, V1) \/ Found(note, V2)
    /\ Found(note, V1) => VerifyV1(note.text, Raw(note, V1))
    /\ Found(note, V2) => VerifyV2(note.text, Raw(note, V2))

Refused == [time |-> -1]
Opened(c, time) == [tree |-> [n |-> c.n, hash |-> c.hash], time |-> time]

\* (Mutants: either signature will do; the signatures are expected in the
\* order in which they were made.)
OpenCheckpointEither(note, t) ==
    LET time == IF Found(note, V1) THEN Raw(note, V1).timestamp ELSE 0
        c == ParseCheckpoint(note.text)
    IN  IF NoteOpens(note) /\ c # Malformed /\ time <= t /\ c.origin = Name /\ c.extension = <<>>
        THEN Opened(c, time) ELSE Refused
OpenCheckpointOrdered(note, t) ==
    IF NoteOpens(note) /\ Found(note, V1) /\ Of(note, V2) > Of(note, V1)
    THEN Opened(ParseCheckpoint(note.text), Raw(note, V1).timestamp) ELSE Refused

\* A time past MaxInt64 is an error of its own, but is past the clock as well.
OpenCheckpoint(note, t) ==
    LET time == Raw(note, V1).timestamp
        c == ParseCheckpoint(note.text)
    IN  IF /\ NoteOpens(note)
           /\ Found(note, V1) /\ Found(note, V2)
           /\ c # Malformed
           /\ time <= t
           /\ c.origin = Name /\ c.extension = <<>>
        THEN Opened(c, time) ELSE Refused

-----------------------------------------------------------------------------
(* The log signs checkpoints while its clock is set forth and back.  What  *)
(* LoadLog then reads from a store may be any of them, or put together     *)
(* from parts of them, of altered ones, and of another log's.              *)

VARIABLES now, signed, received, opened

noteVars == <<now, signed, received, opened>>

NoteInit ==
    /\ now = 1
    /\ signed = {}
    /\ received = [text |-> <<>>, sigs |-> <<>>]
    /\ opened = Refused

Sign(tree) ==
    /\ Cardinality(signed) < 2
    /\ \E note \in SignTreeHead(Name, Key, WitnessKey, tree, now) :
          signed' = signed \cup {[note |-> note, tree |-> tree, time |-> now]}
    /\ UNCHANGED <<now, received, opened>>

SetClock(t) == now' = t /\ UNCHANGED <<signed, received, opened>>

\* Of another log, and the same that claim to be of this log's keys.
Own(alg) == IF alg = 5 THEN Key ELSE WitnessKey
Foreign(tree) == SignTreeHead(Name, "otherKey", "otherWitness", tree, 1)

ASSUME KeysAssumption == Key # "otherKey" /\ WitnessKey # "otherWitness" /\ MaxNow \in Nat

\* A text and what may become of it on its way.
Altered(t) ==
    {t, Append(t, "extra"), Append(t, ""), [t EXCEPT ![1] = "other"],
     [t EXCEPT ![2] = <<Plus>> \o @], [t EXCEPT ![2] = <<Minus>> \o @],
     [t EXCEPT ![2] = <<0>> \o @], [t EXCEPT ![2] = Append(@, 0)], [t EXCEPT ![2] = <<>>],
     [t EXCEPT ![3].len = -1], [t EXCEPT ![3].len = 31], [t EXCEPT ![3].strict = FALSE]}
Texts == UNION {Altered(s.note.text) : s \in signed}
Parts ==
    LET parts == UNION {Range(s.note.sigs) \ Grease : s \in signed}
        foreign == UNION {Range(note.sigs) \ Grease : note \in Foreign(CHOOSE t \in Trees : TRUE)}
    IN  parts \cup {[s EXCEPT !.raw.timestamp = @ + 1] : s \in {x \in parts : x.hash = V1}}
              \cup foreign \cup {[s EXCEPT !.hash = <<Name, s.hash[2], Own(s.hash[2])>>] : s \in foreign}

Receive(note) ==
    /\ received' = note
    /\ opened' = OpenCheckpoint(note, now)
    /\ UNCHANGED <<now, signed>>

NoteNext ==
    /\ received.text = <<>>
    /\ \/ \E tree \in Trees : Sign(tree)
       \/ \E t \in 1 .. MaxNow : SetClock(t)
       \/ \E text \in Texts, sigs \in SeqOf(Parts, 2) : Receive([text |-> text, sigs |-> sigs])

NoteSpec == NoteInit /\ [][NoteNext]_noteVars

-----------------------------------------------------------------------------
(* Properties.                                                             *)

(* Every checkpoint that signTreeHead makes opens, as the tree and time    *)
(* that were signed, in whichever order its signatures are and whatever    *)
(* grease is among them, unless the clock has gone back behind its time.   *)
CheckpointsOpen ==
    \A s \in signed :
        OpenCheckpoint(s.note, now) = IF s.time <= now THEN [tree |-> s.tree, time |-> s.time]
                                                       ELSE Refused

(* What openCheckpoint accepts is a tree and a time that the log signed    *)
(* together: a signature of another checkpoint, of another log's keys or   *)
(* with another timestamp does not do, nor does only one of the two.       *)
OnlySignedOpens ==
    opened # Refused => \E s \in signed : opened = [tree |-> s.tree, time |-> s.time]

(* The RFC 6962 signature of a note is not one of its text, but of a tree  *)
(* head that the verifier makes of the text.  Still a client with no other *)
(* verifier than NewRFC6962Verifier's accepts a text only if it is that of *)
(* a checkpoint signed at the time in the signature: another notation of   *)
(* the size or lines that are not in the tree head do not pass, and all    *)
(* that may differ are the origin and the encoding of the hash.            *)
TextCovered ==
    LET text == received.text
    IN  Found(received, V1) /\ VerifyV1(text, Raw(received, V1)) =>
            \E s \in signed :
                /\ s.time = Raw(received, V1).timestamp
                /\ s.note.text = [text EXCEPT ![1] = Name, ![3].strict = TRUE]
=============================================================================
