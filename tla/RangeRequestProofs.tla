------------------------- MODULE RangeRequestProofs -------------------------
(***************************************************************************)
(* What RangeServed checks for small files, for files and buffers of every *)
(* size: the handler answers with the bytes asked for, and with all of     *)
(* them unless something fails.                                            *)
(*                                                                         *)
(* The invariant says what the two loops have in common.  Skipping, the    *)
(* reader's offset and what is left to skip add up to the start of the     *)
(* range; copying, the offset is where the bytes sent began plus what was  *)
(* sent, and what was sent and what is left add up to Content-Length.      *)
(***************************************************************************)
EXTENDS RangeRequest, SequenceTheorems, TLAPS

Aligned ==
    /\ pc = "serve" => status = 0 /\ at = 0
    /\ status # 206 => sent = <<>>
    /\ status = 206 => Satisfiable(header, total) /\ ContentLength \in Nat
                       /\ Start(header, total) \in Nat
    /\ pc = "skip" => status = 206 /\ sent = <<>> /\ at + left = Start(header, total)
                      /\ seek = "none"
    /\ pc = "copy" => status = 206 /\ at = Origin + Len(sent)
                      /\ Len(sent) + left = ContentLength
    /\ status = 206 => Len(sent) <= ContentLength

SentInPlace ==
    \A i \in 1 .. Len(sent) : sent[i] = Origin + i - 1

Finished ==
    pc = "done" /\ status = 206 /\ faults = 0 =>
        Len(sent) = ContentLength \/ avail <= End(header, total)

IInv == TypeOK /\ Aligned /\ SentInPlace /\ Finished

USE TotalsAssumption, NumbersAssumption, BufSizeAssumption, MaxFaultsAssumption,
    TextsAssumption

-----------------------------------------------------------------------------
(* The parser. *)

\* An accepted range starts in the file, and ends in it: or just before its
\* start, when the file is empty.
LEMMA RangeFits ==
    ASSUME NEW h \in Header, NEW size \in Totals, Satisfiable(h, size)
    PROVE  /\ Start(h, size) \in Nat
           /\ End(h, size) \in Int
           /\ End(h, size) < size
           /\ Start(h, size) <= End(h, size) + 1
<1> h.to \in Int \/ h.to \in {Absent, Bad}
  BY DEF Header, Texts
<1>1. size \in Nat /\ End(h, size) \in Int /\ End(h, size) < size
  BY DEF End
<1>2. CASE h.from = Absent
  <2>1. h.to \in Int /\ h.to > 0 /\ End(h, size) = size - 1
    BY <1>2 DEF Satisfiable, End
  <2>2. Start(h, size) = IF size > h.to THEN size - h.to ELSE 0
    BY <1>2 DEF Start
  <2> QED BY <1>1, <2>1, <2>2
<1>3. CASE h.from # Absent
  <2>1. h.from \in Int /\ h.from >= 0 /\ h.from <= End(h, size)
    BY <1>3 DEF Satisfiable
  <2>2. Start(h, size) = h.from
    BY <1>3 DEF Start
  <2> QED BY <1>1, <2>1, <2>2
<1> QED BY <1>2, <1>3

\* For a file that is not empty, the accepted headers are those that ask for some
\* of its bytes, and the range is what they ask for.
LEMMA ParsedAsAsked ==
    ASSUME NEW h \in Header, NEW size \in Totals, size > 0
    PROVE  /\ Satisfiable(h, size) <=> h.bytes /\ Asked(h, size) # {}
           /\ Satisfiable(h, size) => Asked(h, size) = Start(h, size) .. End(h, size)
<1>0. /\ h.from \in Numbers \/ h.from \in {Absent, Bad}
      /\ h.to \in Numbers \/ h.to \in {Absent, Bad}
      /\ h.bytes \in BOOLEAN
      /\ size \in Nat
  BY DEF Header, Texts
<1>1. CASE h.from = Absent
  <2>1. \A b : b \in Asked(h, size) <=>
                b \in 0 .. size - 1 /\ h.to \in Numbers /\ b >= size - h.to
    BY <1>1 DEF Asked
  <2>2. Satisfiable(h, size) <=> h.bytes /\ h.to \in Numbers /\ h.to > 0
    BY <1>1 DEF Satisfiable
  <2>3. ASSUME h.to \in Numbers, h.to > 0
        PROVE  /\ size - 1 \in Asked(h, size)
               /\ Asked(h, size) = Start(h, size) .. End(h, size)
    <3>1. h.to \in Int /\ h.to > 0
      BY <2>3
    <3>2. End(h, size) = size - 1
      BY <1>1 DEF End
    <3>3. Start(h, size) = IF size > h.to THEN size - h.to ELSE 0
      BY <1>1 DEF Start
    <3>4. size - 1 \in Asked(h, size)
      BY <2>1, <2>3, <3>1
    <3>5. \A b : b \in Asked(h, size) <=> b \in Start(h, size) .. size - 1
      BY <2>1, <2>3, <3>1, <3>3
    <3> QED BY <3>2, <3>4, <3>5
  <2>4. ASSUME NEW b \in Asked(h, size) PROVE h.to \in Numbers /\ h.to > 0
    <3>1. h.to \in Int /\ b \in 0 .. size - 1 /\ b >= size - h.to
      BY <2>1
    <3> QED BY <2>1, <3>1
  <2> QED BY <2>2, <2>3, <2>4
<1>2. CASE h.from # Absent
  <2>1. \A b : b \in Asked(h, size) <=>
                /\ b \in 0 .. size - 1
                /\ h.from \in Numbers /\ h.from >= 0 /\ b >= h.from
                /\ h.to \in Numbers => b <= h.to
    BY <1>2 DEF Asked
  <2>2. Satisfiable(h, size) <=>
          /\ h.bytes /\ h.from \in Numbers /\ h.from >= 0 /\ h.from < size
          /\ h.from <= End(h, size)
    BY <1>2 DEF Satisfiable
  <2>3. /\ End(h, size) = IF h.to \in {Absent, Bad} \/ h.to >= size
                            THEN size - 1 ELSE h.to
        /\ Start(h, size) = h.from
    BY <1>2 DEF End, Start
  <2>4. ASSUME NEW b \in Asked(h, size)
        PROVE  h.from \in Numbers /\ h.from >= 0 /\ h.from < size /\ h.from <= End(h, size)
    <3>1. /\ b \in 0 .. size - 1 /\ h.from \in Int /\ h.from \in Numbers
          /\ h.from >= 0 /\ b >= h.from /\ (h.to \in Numbers => b <= h.to)
      BY <2>1
    <3>2. h.from <= size - 1 /\ h.from < size
      BY <1>0, <3>1
    <3>3. ASSUME h.to \in Numbers PROVE h.from <= End(h, size)
      <4>1. h.to \in Int /\ h.to \notin {Absent, Bad} /\ h.from <= h.to
        <5>1. h.to \in Int
          BY <3>3
        <5> QED BY <3>1, <3>3, <5>1
      <4> QED BY <2>3, <3>2, <4>1
    <3>4. ASSUME h.to \in {Absent, Bad} PROVE h.from <= End(h, size)
      BY <2>3, <3>1, <3>2, <3>4
    <3>5. h.from <= End(h, size)
      BY <1>0, <3>3, <3>4
    <3> QED BY <3>1, <3>2, <3>5
  <2>5. ASSUME Satisfiable(h, size)
        PROVE  Asked(h, size) # {} /\ Asked(h, size) = Start(h, size) .. End(h, size)
    <3>1. h.from \in Int /\ h.from \in Numbers /\ 0 <= h.from /\ h.from < size
          /\ h.from <= End(h, size)
      BY <2>2, <2>5
    <3>2. \A b : b \in Asked(h, size) <=> b \in h.from .. End(h, size)
      <4>0. h.to \in Int \/ h.to \in {Absent, Bad}
        BY <1>0
      <4>1. CASE h.to \in Numbers
        <5>1. h.to \in Int /\ h.to \notin {Absent, Bad}
          BY <4>1
        <5> QED BY <1>0, <2>1, <2>3, <3>1, <4>1, <5>1
      <4>2. CASE h.to \in {Absent, Bad}
        <5>1. h.to \notin Numbers
          BY <4>2
        <5> QED BY <1>0, <2>1, <2>3, <3>1, <4>2, <5>1
      <4> QED BY <1>0, <4>1, <4>2
    <3>3. End(h, size) \in Int
      BY <2>5, RangeFits
    <3>4. Asked(h, size) = h.from .. End(h, size)
      BY <3>1, <3>2, <3>3
    <3> QED BY <2>3, <3>1, <3>3, <3>4
  <2> QED BY <2>2, <2>4, <2>5
<1> QED BY <1>1, <1>2

-----------------------------------------------------------------------------
(* The handler. *)

\* n more bytes of the file, sent after those in place, are in place.
LEMMA SentOn ==
    ASSUME TypeOK, SentInPlace, NEW n \in Nat,
           Origin \in Nat, at = Origin + Len(sent)
    PROVE  LET on == sent \o Bytes(n)
           IN  /\ on \in Seq(Nat)
               /\ Len(on) = Len(sent) + n
               /\ \A i \in 1 .. Len(on) : on[i] = Origin + i - 1
<1>1. Bytes(n) \in Seq(Nat) /\ Len(Bytes(n)) = n
  <2>1. Bytes(n) \in [1 .. n -> Nat]
    BY DEF Bytes, TypeOK
  <2>2. Bytes(n) \in Seq(Nat)
    BY <2>1, SeqDef
  <2>3. Len(Bytes(n)) \in Nat /\ 1 .. Len(Bytes(n)) = 1 .. n
    BY <2>1, <2>2, LenProperties
  <2> QED BY <2>2, <2>3
<1>2. /\ sent \o Bytes(n) \in Seq(Nat)
      /\ Len(sent \o Bytes(n)) = Len(sent) + n
      /\ \A i \in 1 .. Len(sent) + n : (sent \o Bytes(n))[i] =
            IF i <= Len(sent) THEN sent[i] ELSE Bytes(n)[i - Len(sent)]
  <2>1. sent \in Seq(Nat)
    BY DEF TypeOK
  <2>2. Bytes(n) \in Seq(Nat) /\ Len(Bytes(n)) = n
    BY <1>1
  <2> HIDE DEF Bytes
  <2> QED BY <2>1, <2>2, ConcatProperties
<1>3. ASSUME NEW i \in 1 .. Len(sent) + n
      PROVE  (sent \o Bytes(n))[i] = Origin + i - 1
  <2>0. Len(sent) \in Nat
    BY LenProperties DEF TypeOK
  <2>1. CASE i <= Len(sent)
    BY <1>2, <2>0, <2>1 DEF SentInPlace
  <2>2. CASE i > Len(sent)
    <3>1. (sent \o Bytes(n))[i] = Bytes(n)[i - Len(sent)]
      BY <1>2, <2>0, <2>2
    <3>2. i - Len(sent) \in 1 .. n
      BY <2>0, <2>2
    <3>3. Bytes(n)[i - Len(sent)] = at + (i - Len(sent)) - 1
      BY <3>2 DEF Bytes
    <3>4. at + (i - Len(sent)) - 1 = Origin + i - 1
      BY <2>0
    <3> QED BY <3>1, <3>3, <3>4
  <2>3. i <= Len(sent) \/ i > Len(sent)
    BY <2>0
  <2> QED BY <2>1, <2>2, <2>3, Zenon
<1> QED BY <1>2, <1>3

\* The invariant holds initially.
LEMMA IInvInit == Init => IInv
  BY DEF Init, IInv, TypeOK, Aligned, SentInPlace, Finished

\* Every step of the handler keeps the invariant.
LEMMA IInvNext == IInv /\ [Next]_vars => IInv'
<1> SUFFICES ASSUME IInv, [Next]_vars PROVE IInv'
  OBVIOUS
<1>1. /\ Start(header, total)' = Start(header, total)
      /\ End(header, total)' = End(header, total)
      /\ ContentLength' = ContentLength
      /\ Origin' = Origin
      /\ Satisfiable(header, total)' = Satisfiable(header, total)
  <2>1. UNCHANGED request
    BY DEF Next, vars, request, Refuse, Accept, Skipped, Copied, Skip, Copy, WriteFails
  <2> QED BY <2>1 DEF request, ContentLength, Origin
<1>2. TypeOK /\ Aligned /\ SentInPlace /\ Finished
  BY DEF IInv
<1>3. Len(sent) \in Nat /\ (sent = <<>> => Len(sent) = 0)
  BY <1>2, LenProperties, EmptySeq DEF TypeOK
<1>4. Satisfiable(header, total) =>
        /\ Start(header, total) \in Nat /\ End(header, total) \in Int
        /\ ContentLength \in Nat
        /\ Origin \in Nat /\ Origin <= Start(header, total)
        /\ seek # "fails" => Origin = Start(header, total)
  BY <1>2, RangeFits DEF TypeOK, ContentLength, Origin
<1>5. /\ total \in Nat /\ avail \in Nat /\ left \in Nat /\ at \in Nat
      /\ ContentLength = End(header, total) - Start(header, total) + 1
  BY <1>2 DEF TypeOK, ContentLength
<1>6. ASSUME sent' = sent PROVE SentInPlace'
  BY <1>1, <1>2, <1>6 DEF SentInPlace
<1>7. CASE Refuse
  <2>1. TypeOK'
    BY <1>2, <1>7 DEF Refuse, request, TypeOK
  <2> QED
    BY <1>1, <1>2, <1>6, <1>7, <2>1 DEF Refuse, IInv, Aligned, Finished
<1>8. CASE Accept
  <2>1. TypeOK'
    BY <1>2, <1>4, <1>8 DEF Accept, request, TypeOK
  <2>2. Aligned'
    <3>1. /\ Satisfiable(header, total) /\ status' = 206 /\ sent = <<>> /\ at = 0
          /\ sent' = sent /\ Len(sent') = 0 /\ pc' # "serve"
      BY <1>2, <1>3, <1>8 DEF Accept, Aligned
    <3>2. pc' = "skip" => at' + left' = Start(header, total)
      BY <1>4, <1>8, <3>1 DEF Accept
    <3>3. pc' = "copy" => at' = Origin /\ left' = ContentLength
      BY <1>8 DEF Accept
    <3>4. pc' = "skip" => seek' = "none"
      BY <1>8 DEF Accept, request
    <3> QED BY <1>1, <1>3, <1>4, <3>1, <3>2, <3>3, <3>4 DEF Aligned
  <2>3. Finished'
    BY <1>8 DEF Accept, Finished
  <2> QED
    BY <1>6, <1>8, <2>1, <2>2, <2>3 DEF Accept, IInv
<1>9. ASSUME NEW n \in 0 .. BufSize, NEW error \in BOOLEAN, Skip(n, error)
      PROVE  IInv'
  <2>1. /\ n \in Nat /\ n <= left /\ left' = left - n /\ at' = at + n /\ pc = "skip"
        /\ pc' \in {"skip", "done"} /\ faults' \in Nat
        /\ (pc' = "done" => faults' > 0 \/ at + n >= avail)
        /\ UNCHANGED <<request, status, sent>>
    BY <1>2, <1>9 DEF Skip, Reads, TypeOK
  <2>2. TypeOK'
    BY <1>2, <2>1 DEF request, TypeOK
  <2>3. Aligned'
    <3>1. pc' = "skip" => at' + left' = Start(header, total)
      <4>1. at + left = Start(header, total)
        BY <1>2, <2>1 DEF Aligned
      <4> QED BY <1>5, <2>1, <4>1
    <3>2. Len(sent') = Len(sent)
      BY <2>1
    <3> QED BY <1>1, <1>2, <2>1, <3>1, <3>2 DEF Aligned, request
  <2>4. Finished'
    BY <1>1, <1>2, <1>3, <1>4, <1>5, <2>1 DEF Aligned, Finished, TypeOK, request
  <2> QED
    BY <1>6, <2>1, <2>2, <2>3, <2>4 DEF IInv
<1>10. CASE Skipped
  <2>1. TypeOK'
    BY <1>2, <1>4, <1>10 DEF Skipped, request, TypeOK, Aligned
  <2>2. Aligned'
    BY <1>1, <1>2, <1>3, <1>4, <1>10 DEF Skipped, request, TypeOK, Aligned
  <2>3. Finished'
    BY <1>10 DEF Skipped, Finished
  <2> QED
    BY <1>6, <1>10, <2>1, <2>2, <2>3 DEF Skipped, IInv
<1>11. ASSUME NEW n \in 0 .. BufSize, NEW error \in BOOLEAN, Copy(n, error)
       PROVE  IInv'
  <2>1. /\ n \in Nat /\ n <= left /\ left' = left - n /\ at' = at + n /\ pc = "copy"
        /\ pc' \in {"copy", "done"} /\ faults' \in Nat
        /\ sent' = sent \o Bytes(n)
        /\ (pc' = "done" => faults' > 0 \/ at + n >= avail)
        /\ UNCHANGED <<request, status>>
    BY <1>2, <1>11 DEF Copy, Reads, TypeOK
  <2>2. /\ status = 206 /\ at = Origin + Len(sent)
        /\ Len(sent) + left = ContentLength
        /\ Satisfiable(header, total)
    BY <1>2, <2>1 DEF Aligned
  <2>3. /\ sent' \in Seq(Nat) /\ Len(sent') = Len(sent) + n
        /\ \A i \in 1 .. Len(sent') : sent'[i] = Origin + i - 1
    BY <1>2, <1>4, <2>1, <2>2, SentOn
  <2>4. TypeOK'
    BY <1>2, <2>1, <2>3 DEF request, TypeOK
  <2>5. n \in Nat /\ n <= left /\ left' = left - n /\ at' = at + n
    BY <2>1
  <2>6. Len(sent') + left' = ContentLength /\ Len(sent') <= ContentLength
    BY <1>3, <1>4, <1>5, <2>2, <2>3, <2>5, SMTT(30)
  <2>7. at' = Origin + Len(sent')
    BY <1>3, <1>4, <1>5, <2>2, <2>3, <2>5, SMTT(30)
  <2>8. Aligned'
    BY <1>1, <1>2, <2>1, <2>2, <2>6, <2>7 DEF Aligned
  <2>10. Finished'
    <3> SUFFICES ASSUME at' >= avail, Len(sent') # ContentLength
                 PROVE  avail <= End(header, total)
      BY <1>1, <2>1, <2>5 DEF Finished, request
    <3>1. Len(sent') \in Nat /\ Len(sent') < ContentLength
      BY <1>3, <1>4, <2>2, <2>3, <2>5, <2>6
    <3> QED BY <1>4, <1>5, <2>2, <2>7, <3>1, SMTT(30)
  <2>9. SentInPlace'
    BY <1>1, <2>3 DEF SentInPlace
  <2> QED
    BY <2>4, <2>8, <2>9, <2>10 DEF IInv
<1>12. ASSUME NEW n \in 0 .. BufSize, NEW m \in 0 .. n, WriteFails(n, m)
       PROVE  IInv'
  <2>1. /\ m \in Nat /\ m <= left /\ at' \in Nat /\ left' = left /\ pc = "copy"
        /\ pc' = "done" /\ faults' \in Nat /\ faults' > 0
        /\ sent' = sent \o Bytes(m)
        /\ UNCHANGED <<request, status>>
    BY <1>2, <1>12 DEF WriteFails, TypeOK
  <2>2. /\ status = 206 /\ at = Origin + Len(sent)
        /\ Len(sent) + left = ContentLength
        /\ Satisfiable(header, total)
    BY <1>2, <2>1 DEF Aligned
  <2>3. /\ sent' \in Seq(Nat) /\ Len(sent') = Len(sent) + m
        /\ \A i \in 1 .. Len(sent') : sent'[i] = Origin + i - 1
    BY <1>2, <1>4, <2>1, <2>2, SentOn
  <2>4. TypeOK'
    BY <1>2, <2>1, <2>3 DEF request, TypeOK
  <2>5. Aligned'
    BY <1>1, <1>2, <1>3, <1>4, <2>1, <2>2, <2>3 DEF Aligned, TypeOK
  <2>6. Finished'
    BY <2>1 DEF Finished
  <2>7. SentInPlace'
    BY <1>1, <2>3 DEF SentInPlace
  <2> QED
    BY <2>4, <2>5, <2>6, <2>7 DEF IInv
<1>13. CASE Copied
  <2>1. TypeOK'
    BY <1>2, <1>13 DEF Copied, request, TypeOK
  <2>2. Aligned'
    BY <1>1, <1>2, <1>13 DEF Copied, Aligned
  <2>3. Finished'
    BY <1>1, <1>2, <1>3, <1>4, <1>13 DEF Copied, Finished, Aligned, TypeOK
  <2> QED
    BY <1>6, <1>13, <2>1, <2>2, <2>3 DEF Copied, IInv
<1>14. CASE UNCHANGED vars
  BY <1>1, <1>2, <1>6, <1>14 DEF vars, IInv, TypeOK, Aligned, Finished
<1> QED
  BY <1>7, <1>8, <1>9, <1>10, <1>11, <1>12, <1>13, <1>14 DEF Next

\* The invariant holds in every state of every behaviour.
LEMMA Invariant == Spec => []IInv
<1> QED BY IInvInit, IInvNext, PTL DEF Spec

\* The handler's variables have their types: no loop counter is ever negative.
THEOREM TypeCorrect == Spec => []TypeOK
<1>1. IInv => TypeOK
  BY DEF IInv
<1> QED BY <1>1, Invariant, PTL

\* What the handler sends is the range it announced, from its start on, unless the
\* reader's Seek fails: then it is as much from the start of the file.
THEOREM SentIsTheRange == Spec => []SentIsRange
<1>1. IInv => SentIsRange
  BY DEF IInv, Aligned, SentInPlace, SentIsRange, Origin
<1> QED BY <1>1, Invariant, PTL

\* The range announced is the one asked for, for every file that is not empty.
THEOREM RangeIsTheOneAsked == Spec => []RangeIsAsked
<1> DEFINE Answered == IInv /\ (status # 0 => (status = 206 <=> Satisfiable(header, total)))
<1>1. Init => Answered
  BY IInvInit DEF Init
<1>2. Answered /\ [Next]_vars => Answered'
  <2> SUFFICES ASSUME Answered, [Next]_vars PROVE Answered'
    OBVIOUS
  <2>1. IInv'
    BY IInvNext
  <2>2. UNCHANGED request
    BY DEF Next, vars, request, Refuse, Accept, Skipped, Copied, Skip, Copy, WriteFails
  <2>3. CASE Refuse
    BY <2>1, <2>2, <2>3 DEF Refuse, request
  <2>4. CASE Accept
    BY <2>1, <2>2, <2>4 DEF Accept, request
  <2>5. CASE UNCHANGED status
    BY <2>1, <2>2, <2>5 DEF request
  <2> QED
    BY <2>3, <2>4, <2>5 DEF Next, vars, Skipped, Copied, Skip, Copy, WriteFails
<1>3. Answered => RangeIsAsked
  BY ParsedAsAsked DEF IInv, TypeOK, RangeIsAsked
<1> QED BY <1>1, <1>2, <1>3, PTL DEF Spec

\* A response no read or write failed is complete, unless the file has shrunk.
THEOREM ResponsesComplete == Spec => []Completes
<1>1. IInv => Completes
  <2> SUFFICES ASSUME IInv, pc = "done", status = 206, faults = 0,
                      avail > End(header, total)
               PROVE  Len(sent) = ContentLength
    BY DEF Completes
  <2>1. End(header, total) \in Int /\ avail \in Nat
    BY RangeFits DEF IInv, Aligned, TypeOK
  <2>2. Len(sent) = ContentLength \/ avail <= End(header, total)
    BY DEF IInv, Finished
  <2> QED BY <2>1, <2>2
<1> QED BY <1>1, Invariant, PTL
=============================================================================
