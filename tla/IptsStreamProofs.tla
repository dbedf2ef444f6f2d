-------------------------- MODULE IptsStreamProofs --------------------------
(***************************************************************************)
(* Safety of the parser for every message, every damage to it and whatever *)
(* other data reads as: no handler leaves the data it was given.           *)
(***************************************************************************)
EXTENDS IptsStream, SequenceTheorems, TLAPS

Readers ==
    [in : {"frame", "frames", "legacy", "groups", "reports"}, left : Int, index : Nat, end : Nat]

\* A reader that is given away or left behind.
Windows == [index : Nat, end : Nat]

\* Confined, said of any stack of readers and any number of bytes.
Nested(readers, length) ==
    \A i \in DOMAIN readers :
        /\ readers[i].index <= readers[i].end /\ readers[i].end <= length
        /\ i > 1 => readers[i].end <= readers[i - 1].index

\* A handler is only at work on the structs of a message, and only on its data.
BufferTyped ==
    /\ buffer.length \in Nat
    /\ \A s \in buffer.structs : Typed(s.kind, s.value)

DimOK ==
    /\ m_dim \in [rows : Nat, columns : Nat, z_max : 0..255]
    /\ m_dim = NoDim \/ m_dim.z_max \in 1..255

\* The reader left behind has kept to its data, which its caller has passed over.
UsedOK ==
    /\ used \in Windows
    /\ used.index <= used.end /\ used.end <= buffer.length
    /\ stack # <<>> => used.end <= Last(stack).index

IInv ==
    /\ TypeOK
    /\ DimOK
    /\ stack \in Seq(Readers)
    /\ BufferTyped
    /\ Nested(stack, buffer.length)
    /\ UsedOK
    /\ status = "idle" => used = NoReader

-----------------------------------------------------------------------------
(* Readers and stacks of them.                                             *)

\* What does not throw fits into what is left.
LEMMA Fits ==
  ASSUME NEW reader, reader.index \in Nat, reader.end \in Nat, NEW size \in Int,
         ~Throws(reader, size)
  PROVE  size \in Nat /\ reader.index + size <= reader.end
  BY DEF Throws, Left

LEMMA SkipType ==
  ASSUME NEW reader \in Readers, NEW size \in Nat
  PROVE  /\ Skip(reader, size) \in Readers
         /\ Skip(reader, size).index = reader.index + size
         /\ Skip(reader, size).end = reader.end
  BY DEF Skip, Readers

LEMMA WindowMoved ==
  ASSUME NEW reader \in Windows, NEW size \in Nat
  PROVE  /\ Skip(reader, size) \in Windows
         /\ Skip(reader, size).index = reader.index + size
         /\ Skip(reader, size).end = reader.end
  BY DEF Skip, Windows

LEMMA WindowSkip ==
  ASSUME NEW reader \in Windows, NEW size \in Int, ~Throws(reader, size)
  PROVE  /\ Skip(reader, size) \in Windows
         /\ Skip(reader, size).index = reader.index + size
         /\ Skip(reader, size).end = reader.end
         /\ Skip(reader, size).index <= Skip(reader, size).end
<1>1. reader.index \in Nat /\ reader.end \in Nat
  BY DEF Windows
<1>2. size \in Nat /\ reader.index + size <= reader.end
  BY <1>1, Fits
<1>3. /\ Skip(reader, size) \in Windows
      /\ Skip(reader, size).index = reader.index + size
      /\ Skip(reader, size).end = reader.end
  BY <1>2, WindowMoved
<1> QED
  BY <1>2, <1>3

\* As many structs as there are leave the reader within its data.
LEMMA AllSkipped ==
  ASSUME NEW reader \in Windows, reader.index <= reader.end, NEW size \in {12, 16}
  PROVE  /\ SkipAll(reader, size) \in Windows
         /\ SkipAll(reader, size).index <= SkipAll(reader, size).end
         /\ SkipAll(reader, size).end = reader.end
<1> DEFINE bytes == size * ((reader.end - reader.index) \div size)
<1>1. reader.index \in Nat /\ reader.end \in Nat
  BY DEF Windows
<1>2. bytes \in Nat /\ reader.index + bytes <= reader.end
  <2>1. CASE size = 12
    BY <1>1, <2>1
  <2>2. CASE size = 16
    BY <1>1, <2>2
  <2> QED
    BY <2>1, <2>2
<1>3. SkipAll(reader, size) = [reader EXCEPT !.index = @ + bytes]
  BY DEF SkipAll, Skip, Left
<1> HIDE DEF bytes
<1> QED
  BY <1>1, <1>2, <1>3 DEF Windows

\* So may what it has left to read be counted.
LEMMA CountType ==
  ASSUME NEW reader \in Readers
  PROVE  LET counted == [reader EXCEPT !.left = @ - 1]
         IN  /\ counted \in Readers
             /\ counted.index = reader.index /\ counted.end = reader.end
  BY DEF Readers

LEMMA RestartType ==
  ASSUME NEW reader \in Readers, NEW left \in Nat
  PROVE  LET restarted == [reader EXCEPT !.in = "groups", !.left = left]
         IN  /\ restarted \in Readers
             /\ restarted.index = reader.index /\ restarted.end = reader.end
<1> DEFINE named == [reader EXCEPT !.in = "groups"]
           restarted == [named EXCEPT !.left = left]
<1>1. named \in Readers /\ named.index = reader.index /\ named.end = reader.end
  BY DEF Readers
<1> HIDE DEF named
<1>2. restarted \in Readers /\ restarted.index = named.index /\ restarted.end = named.end
  BY <1>1 DEF Readers
<1>3. restarted = [reader EXCEPT !.in = "groups", !.left = left]
  BY DEF named
<1> QED
  BY <1>1, <1>2, <1>3

\* What is read of a kind of struct is typed as such, be it there or not.
LEMMA ReadType ==
  ASSUME BufferTyped, NEW reader, NEW kind \in DOMAIN Size, NEW value \in Read(reader, kind)
  PROVE  Typed(kind, value)
  BY GarbageAssumption DEF BufferTyped, Read

\* The reader on top may be moved on within its data.
LEMMA Moved ==
  ASSUME NEW readers \in Seq(Readers), readers # <<>>, NEW length, Nested(readers, length),
         NEW reader \in Readers, reader.end = Last(readers).end,
         Last(readers).index <= reader.index, reader.index <= reader.end
  PROVE  /\ [readers EXCEPT ![Len(readers)] = reader] \in Seq(Readers)
         /\ [readers EXCEPT ![Len(readers)] = reader] # <<>>
         /\ Nested([readers EXCEPT ![Len(readers)] = reader], length)
         /\ Last([readers EXCEPT ![Len(readers)] = reader]) = reader
<1> DEFINE n == Len(readers)
           moved == [readers EXCEPT ![n] = reader]
<1>1. n \in Nat \ {0} /\ DOMAIN readers = 1..n /\ \A i \in 1..n : readers[i] \in Readers
  BY DEF Last
<1>2. /\ moved \in Seq(Readers) /\ Len(moved) = n /\ moved # <<>>
      /\ DOMAIN moved = 1..n
      /\ moved[n] = reader /\ \A i \in 1..(n - 1) : moved[i] = readers[i]
  <2>1. n \in 1..Len(readers)
    BY <1>1
  <2> HIDE DEF n
  <2>2. /\ moved \in Seq(Readers) /\ Len(moved) = Len(readers)
        /\ \A i \in 1..Len(readers) : moved[i] = IF i = n THEN reader ELSE readers[i]
    BY <2>1, ExceptSeq
  <2> HIDE DEF moved
  <2>3. Len(moved) = n /\ n \in Nat \ {0}
    BY <1>1, <2>2 DEF n
  <2> QED
    BY <2>2, <2>3
<1>3. ASSUME NEW i \in 1..n
      PROVE  /\ moved[i].index <= moved[i].end /\ moved[i].end <= length
             /\ i > 1 => moved[i].end <= moved[i - 1].index
  <2> HIDE DEF n, moved
  <2>1. moved[i].end = readers[i].end /\ moved[i].index <= moved[i].end
    <3>1. readers[i].index <= readers[i].end /\ moved[n].end = readers[n].end
      BY <1>1, <1>2 DEF Nested, Last, n
    <3>2. CASE i = n
      BY <1>2, <3>1, <3>2
    <3>3. CASE i # n
      BY <1>1, <1>2, <3>1, <3>3
    <3> QED
      BY <3>2, <3>3
  <2>2. readers[i].end <= length
    BY <1>1 DEF Nested
  <2>3. ASSUME i > 1 PROVE readers[i].end <= readers[i - 1].index /\ moved[i - 1] = readers[i - 1]
    BY <1>1, <1>2, <2>3 DEF Nested
  <2> QED
    BY <2>1, <2>2, <2>3
<1> QED
  BY <1>1, <1>2, <1>3 DEF Nested, Last

\* A handler may be called for data that the reader on top has passed.
LEMMA Called ==
  ASSUME NEW readers \in Seq(Readers), readers # <<>>,
         NEW length \in Nat, Nested(readers, length),
         NEW name \in {"frame", "frames", "legacy", "groups", "reports"}, NEW reader,
         reader.index \in Nat, reader.end \in Nat,
         reader.index <= reader.end, reader.end <= Last(readers).index
  PROVE  /\ Call(readers, name, reader) \in Seq(Readers)
         /\ Call(readers, name, reader) # <<>>
         /\ Nested(Call(readers, name, reader), length)
<1> DEFINE n == Len(readers)
           called == Call(readers, name, reader)
           new == Handler(name, 0, reader)
<1>1. new \in Readers /\ new.index = reader.index /\ new.end = reader.end
  BY DEF Handler, Readers
<1>2. n \in Nat \ {0} /\ DOMAIN readers = 1..n /\ \A i \in 1..n : readers[i] \in Readers
  OBVIOUS
<1> HIDE DEF new
<1>3. /\ called = Append(readers, new)
      /\ called \in Seq(Readers) /\ Len(called) = n + 1 /\ called # <<>>
      /\ DOMAIN called = 1..(n + 1)
      /\ called[n + 1] = new /\ \A i \in 1..n : called[i] = readers[i]
  BY <1>1, <1>2, AppendProperties DEF Call, new
<1> HIDE DEF called
<1>4. readers[n].index <= readers[n].end /\ readers[n].end <= length
  BY <1>2 DEF Nested
<1>5. ASSUME NEW i \in 1..(n + 1)
      PROVE  /\ called[i].index <= called[i].end /\ called[i].end <= length
             /\ i > 1 => called[i].end <= called[i - 1].index
  <2>1. CASE i = n + 1
    <3>1. reader.end <= readers[n].index /\ readers[n] \in Readers
      BY <1>2 DEF Last
    <3>2. called[i] = new /\ called[i - 1] = readers[n]
      <4>1. n \in 1..n /\ i - 1 = n
        BY <1>2, <2>1
      <4> HIDE DEF n
      <4> QED
        BY <1>3, <2>1, <4>1
    <3> HIDE DEF n
    <3>3. reader.end <= length
      <4>1. readers[n].index \in Nat /\ readers[n].end \in Nat
        BY <3>1 DEF Readers
      <4> QED
        BY <1>4, <3>1, <4>1
    <3> QED
      BY <1>1, <3>1, <3>2, <3>3
  <2>2. CASE i \in 1..n
    <3>1. called[i] = readers[i] /\ (i > 1 => called[i - 1] = readers[i - 1])
      BY <1>2, <1>3, <2>2
    <3> QED
      BY <1>2, <2>2, <3>1 DEF Nested
  <2> QED
    BY <1>2, <2>1, <2>2
<1> QED
  BY <1>3, <1>5 DEF Nested, called

\* Taking data that is there moves the reader on top behind it.
LEMMA TakenType ==
  ASSUME IInv, stack # <<>>, NEW size \in Nat, Top.index + size <= Top.end
  PROVE  /\ Taken(size) \in Seq(Readers) /\ Taken(size) # <<>>
         /\ Nested(Taken(size), buffer.length)
         /\ Last(Taken(size)).index = Top.index + size
         /\ Last(Taken(size)).end = Top.end
<1> DEFINE reader == [Top EXCEPT !.left = @ - 1]
           rest == Skip(reader, size)
<1>1. Top \in Readers /\ stack \in Seq(Readers)
  BY DEF IInv, Top, Last
<1>2. Taken(size) = [stack EXCEPT ![Len(stack)] = rest]
  BY DEF Taken
<1>3. reader \in Readers /\ reader.index = Top.index /\ reader.end = Top.end
  BY <1>1, CountType
<1> HIDE DEF reader
<1>4. rest \in Readers /\ rest.index = Top.index + size /\ rest.end = Top.end
  BY <1>3, SkipType
<1> HIDE DEF rest
<1>5. Top.index <= rest.index /\ rest.index <= rest.end
  BY <1>1, <1>4 DEF Readers
<1>6. Nested(stack, buffer.length) /\ Last(stack) = Top
  BY DEF IInv, Top
<1>7. /\ [stack EXCEPT ![Len(stack)] = rest] \in Seq(Readers)
      /\ [stack EXCEPT ![Len(stack)] = rest] # <<>>
      /\ Nested([stack EXCEPT ![Len(stack)] = rest], buffer.length)
      /\ Last([stack EXCEPT ![Len(stack)] = rest]) = rest
  <2>1. /\ rest.end = Last(stack).end
        /\ Last(stack).index <= rest.index /\ rest.index <= rest.end
    BY <1>4, <1>5, <1>6
  <2> QED
    BY <1>1, <1>4, <1>6, <2>1, Moved
<1> QED
  BY <1>2, <1>4, <1>7

-----------------------------------------------------------------------------
(* The invariant holds at first and every action preserves it.             *)

\* What becomes of a handler: an exception or the end of the process drops all of
\* them, or the stack is replaced.  Its reader is left behind within its data.
Ends(readers, reader) ==
    /\ \/ stack' = <<>> /\ status' \in {"thrown", "aborted"}
       \/ stack' = readers /\ UNCHANGED status
    /\ UNCHANGED buffer
    /\ used' \in Windows /\ used'.index <= used'.end /\ used'.end <= reader.end

LEMMA EndsIInv ==
  ASSUME IInv, status = "parsing", DimOK',
         NEW readers \in Seq(Readers), readers # <<>>, Nested(readers, buffer.length),
         NEW reader \in Windows, reader.end <= Last(readers).index,
         Ends(readers, reader)
  PROVE  IInv'
<1>1. /\ Len(readers) \in DOMAIN readers /\ Last(readers) = readers[Len(readers)]
      /\ Last(readers) \in Readers
  BY DEF Last
<1>2. Last(readers).index <= Last(readers).end /\ Last(readers).end <= buffer.length
  BY <1>1 DEF Nested
<1>3. /\ Last(readers).index \in Nat /\ Last(readers).end \in Nat /\ reader.end \in Nat
      /\ buffer.length \in Nat
  BY <1>1 DEF Readers, Windows, IInv, BufferTyped
<1>4. /\ used' \in Windows /\ used'.index <= used'.end /\ used'.end <= reader.end
      /\ used'.end \in Nat /\ UNCHANGED buffer
  BY DEF Ends, Windows
<1>5. used'.end <= Last(readers).index /\ used'.end <= buffer'.length
  BY <1>2, <1>3, <1>4
<1>6. stack' = <<>> \/ stack' = readers
  BY DEF Ends
<1>7. UsedOK'
  BY <1>4, <1>5, <1>6 DEF UsedOK
<1>8. stack' \in Seq(Readers) /\ Nested(stack', buffer'.length) /\ status' # "idle"
  <2>1. Nested(stack', buffer.length)
    <3>1. CASE stack' = <<>>
      BY <3>1 DEF Nested
    <3>2. CASE stack' = readers
      BY <3>2
    <3> QED
      BY <1>6, <3>1, <3>2
  <2>2. stack' \in Seq(Readers)
    <3>1. <<>> \in Seq(Readers)
      OBVIOUS
    <3> QED
      BY <1>6, <3>1
  <2>3. status' # "idle"
    BY DEF Ends
  <2>4. buffer'.length = buffer.length
    BY <1>4
  <2> QED
    BY <2>1, <2>2, <2>3, <2>4
<1>9. BufferTyped'
  BY <1>4 DEF IInv, BufferTyped
<1>10. TypeOK'
  BY DEF Ends, TypeOK, IInv, DimOK
<1> QED
  BY <1>7, <1>8, <1>9, <1>10 DEF IInv

LEMMA FailEnds ==
  ASSUME NEW how \in {"thrown", "aborted"}, NEW readers, NEW reader,
         NEW rest \in Windows, rest.index <= rest.end, rest.end <= reader.end,
         DimOK, Fail(how, rest)
  PROVE  Ends(readers, reader) /\ DimOK'
<1>1. used' = rest
  BY DEF Fail, Leave, Windows
<1> QED
  BY <1>1 DEF Fail, Ends, DimOK

LEMMA GoneOn ==
  ASSUME NEW readers, NEW reader,
         NEW rest \in Windows, rest.index <= rest.end, rest.end <= reader.end,
         DimOK, Goto(readers, rest)
  PROVE  Ends(readers, reader) /\ (UNCHANGED m_dim => DimOK')
<1>1. used' = rest
  BY DEF Goto, Leave, Windows
<1> QED
  BY <1>1 DEF Goto, Ends, DimOK

LEMMA MetadataEnds ==
  ASSUME DimOK, NEW reader \in Windows, reader.index <= reader.end,
         NEW readers, MetadataFrame(reader, readers)
  PROVE  Ends(readers, reader) /\ DimOK'
<1> DEFINE rest == Skip(reader, Size.metadata)
<1>0. reader.end <= reader.end
  BY DEF Windows
<1>1. CASE Throws(reader, Size.metadata)
  <2>1. Fail("thrown", reader)
    BY <1>1 DEF MetadataFrame
  <2> QED
    BY <1>0, <2>1, FailEnds
<1>2. CASE ~Throws(reader, Size.metadata)
  <2>1. Fail("thrown", rest) \/ (Goto(readers, rest) /\ UNCHANGED m_dim)
    BY <1>2 DEF MetadataFrame
  <2>2. rest \in Windows /\ rest.index <= rest.end /\ rest.end = reader.end
    BY <1>2, WindowSkip DEF Size
  <2> HIDE DEF rest
  <2> QED
    BY <1>0, <2>1, <2>2, FailEnds, GoneOn
<1> QED
  BY <1>1, <1>2

LEMMA HeatmapDataEnds ==
  ASSUME DimOK, NEW reader \in Windows, reader.index <= reader.end,
         NEW readers, HeatmapData(reader, readers)
  PROVE  Ends(readers, reader) /\ DimOK'
<1> DEFINE size == m_dim.rows * m_dim.columns
           rest == Skip(reader, size)
<1>0. reader.end <= reader.end /\ size \in Int
  BY DEF Windows, DimOK
<1>1. CASE Throws(reader, size)
  <2>1. Fail("thrown", reader)
    BY <1>1 DEF HeatmapData
  <2> QED
    BY <1>0, <2>1, FailEnds
<1>2. CASE ~Throws(reader, size)
  <2>1. Goto(readers, rest) /\ UNCHANGED m_dim
    BY <1>2 DEF HeatmapData
  <2> HIDE DEF size
  <2>2. rest \in Windows /\ rest.index <= rest.end /\ rest.end = reader.end
    BY <1>0, <1>2, WindowSkip
  <2> HIDE DEF rest
  <2> QED
    BY <1>0, <2>1, <2>2, GoneOn
<1> QED
  BY <1>1, <1>2

LEMMA HeatmapEnds ==
  ASSUME DimOK, BufferTyped, NEW reader \in Windows, reader.index <= reader.end,
         NEW readers, HeatmapFrame(reader, readers)
  PROVE  Ends(readers, reader) /\ DimOK'
<1> DEFINE rest == Skip(reader, Size.heatmap)
<1>0. reader.end <= reader.end /\ reader.end \in Nat
  BY DEF Windows
<1>1. CASE Throws(reader, Size.heatmap)
  <2>1. Fail("thrown", reader)
    BY <1>1 DEF HeatmapFrame
  <2> QED
    BY <1>0, <2>1, FailEnds
<1>2. CASE ~Throws(reader, Size.heatmap)
  <2>1. PICK frame \in Read(reader, "heatmap") :
            IF Throws(rest, frame.size) THEN Fail("thrown", rest)
            ELSE HeatmapData(Sub(rest, frame.size), readers)
    BY <1>2 DEF HeatmapFrame
  <2> DEFINE sub == Sub(rest, frame.size)
  <2>2. rest \in Windows /\ rest.index <= rest.end /\ rest.end = reader.end
    BY <1>2, WindowSkip DEF Size
  <2>3. frame.size \in Int
    BY ReadType DEF Typed, Size
  <2> HIDE DEF rest
  <2>4. CASE Throws(rest, frame.size)
    BY <1>0, <2>1, <2>2, <2>4, FailEnds
  <2>5. CASE ~Throws(rest, frame.size)
    <3>1. /\ rest.index \in Nat /\ rest.end \in Nat
          /\ frame.size \in Nat /\ rest.index + frame.size <= rest.end
      <4>1. rest.index \in Nat /\ rest.end \in Nat
        BY <2>2 DEF Windows
      <4> QED
        BY <2>3, <2>5, <4>1, Fits
    <3>2. sub \in Windows /\ sub.index <= sub.end /\ sub.end <= reader.end
      BY <2>2, <3>1 DEF Sub, Windows
    <3>3. HeatmapData(sub, readers)
      BY <2>1, <2>5
    <3> HIDE DEF sub
    <3>4. Ends(readers, sub) /\ DimOK'
      BY <3>2, <3>3, HeatmapDataEnds
    <3>5. used'.end \in Nat /\ sub.end \in Nat
      BY <3>2, <3>4 DEF Ends, Windows
    <3> QED
      BY <1>0, <3>2, <3>4, <3>5 DEF Ends
  <2> QED
    BY <2>4, <2>5
<1> QED
  BY <1>1, <1>2

LEMMA StylusEnds ==
  ASSUME DimOK, BufferTyped, NEW reader \in Windows, reader.index <= reader.end,
         NEW sample \in {"mpp_1_0", "mpp_1_51"}, NEW readers, Stylus(sample, reader, readers)
  PROVE  Ends(readers, reader) /\ DimOK'
<1> DEFINE rest == Skip(reader, Size.stylus)
<1>0. reader.end <= reader.end /\ reader.end \in Nat
  BY DEF Windows
<1>1. CASE Throws(reader, Size.stylus)
  <2>1. Fail("thrown", reader)
    BY <1>1 DEF Stylus
  <2> QED
    BY <1>0, <2>1, FailEnds
<1>2. CASE ~Throws(reader, Size.stylus)
  <2>1. PICK report \in Read(reader, "stylus") :
            LET last == Skip(rest, (IF report.samples = 0 THEN 0 ELSE report.samples - 1) * Size[sample])
            IN  IF Left(last) < Size[sample] THEN Fail("thrown", SkipAll(rest, Size[sample])) ELSE
                \E value \in Read(last, sample) :
                    /\ Emit(<<[kind |-> "stylus", sample |-> value]>>)
                    /\ Goto(readers, Skip(last, Size[sample])) /\ UNCHANGED <<m_dim, m_dft_meta>>
    BY <1>2 DEF Stylus
  <2> DEFINE size == Size[sample]
             skipped == (IF report.samples = 0 THEN 0 ELSE report.samples - 1) * size
             last == Skip(rest, skipped)
             after == Skip(last, size)
  <2>2. rest \in Windows /\ rest.index <= rest.end /\ rest.end = reader.end
    BY <1>2, WindowSkip DEF Size
  <2>3. size \in {12, 16} /\ size \in Nat
    BY DEF Size
  <2>4. skipped \in Nat
    <3>1. report.samples \in Nat
      BY ReadType DEF Typed, Size
    <3> HIDE DEF size
    <3>2. (IF report.samples = 0 THEN 0 ELSE report.samples - 1) \in Nat
      BY <3>1
    <3> QED
      BY <2>3, <3>2
  <2>5. \/ Fail("thrown", SkipAll(rest, size))
        \/ ~(Left(last) < size) /\ Goto(readers, after) /\ UNCHANGED m_dim
    BY <2>1
  <2> HIDE DEF rest, size, skipped
  <2>6. CASE Fail("thrown", SkipAll(rest, size))
    <3>1. /\ SkipAll(rest, size) \in Windows
          /\ SkipAll(rest, size).index <= SkipAll(rest, size).end
          /\ SkipAll(rest, size).end = reader.end
      BY <2>2, <2>3, AllSkipped
    <3> QED
      BY <1>0, <2>6, <3>1, FailEnds
  <2>7. CASE ~(Left(last) < size) /\ Goto(readers, after) /\ UNCHANGED m_dim
    <3>1. last \in Windows /\ last.end = reader.end
      BY <2>2, <2>4, WindowMoved
    <3> HIDE DEF last
    <3>2. after \in Windows /\ after.index = last.index + size /\ after.end = last.end
      BY <2>3, <3>1, WindowMoved
    <3>3. last.index + size <= last.end
      BY <2>3, <2>7, <3>1 DEF Left, Windows
    <3> HIDE DEF after
    <3> QED
      BY <1>0, <2>7, <3>1, <3>2, <3>3, GoneOn
  <2> QED
    BY <2>5, <2>6, <2>7
<1> QED
  BY <1>1, <1>2

\* A range of zero is taken for 255.
LEMMA DimensionsEnd ==
  ASSUME DimOK, BufferTyped, NEW reader \in Windows, reader.index <= reader.end,
         NEW readers, HeatmapDimensions(reader, readers)
  PROVE  Ends(readers, reader) /\ DimOK'
<1> DEFINE rest == Skip(reader, Size.dims)
<1>0. reader.end <= reader.end
  BY DEF Windows
<1>1. CASE Throws(reader, Size.dims)
  <2>1. Fail("thrown", reader)
    BY <1>1 DEF HeatmapDimensions
  <2> QED
    BY <1>0, <2>1, FailEnds
<1>2. CASE ~Throws(reader, Size.dims)
  <2>1. PICK dim \in Read(reader, "dims") :
            m_dim' = [dim EXCEPT !.z_max = IF @ = 0 THEN 255 ELSE @]
    BY <1>2 DEF HeatmapDimensions
  <2>2. dim \in [rows : Nat, columns : Nat, z_max : 0..255]
    BY ReadType DEF Typed, Size
  <2>3. m_dim' \in [rows : Nat, columns : Nat, z_max : 0..255] /\ m_dim'.z_max \in 1..255
    BY <2>1, <2>2
  <2>4. Goto(readers, rest)
    BY <1>2 DEF HeatmapDimensions
  <2>5. rest \in Windows /\ rest.index <= rest.end /\ rest.end = reader.end
    BY <1>2, WindowSkip DEF Size
  <2> HIDE DEF rest
  <2>6. Ends(readers, reader)
    BY <1>0, <2>4, <2>5, GoneOn
  <2> QED
    BY <2>3, <2>6 DEF DimOK
<1> QED
  BY <1>1, <1>2

LEMMA DftMetadataEnds ==
  ASSUME DimOK, NEW reader \in Windows, reader.index <= reader.end,
         NEW readers, DftMetadata(reader, readers)
  PROVE  Ends(readers, reader) /\ DimOK'
<1> DEFINE rest == Skip(reader, Size.dftmeta)
<1>0. reader.end <= reader.end
  BY DEF Windows
<1>1. CASE Throws(reader, Size.dftmeta)
  <2>1. Fail("thrown", reader)
    BY <1>1 DEF DftMetadata
  <2> QED
    BY <1>0, <2>1, FailEnds
<1>2. CASE ~Throws(reader, Size.dftmeta)
  <2>1. Goto(readers, rest) /\ UNCHANGED m_dim
    BY <1>2 DEF DftMetadata
  <2>2. rest \in Windows /\ rest.index <= rest.end /\ rest.end = reader.end
    BY <1>2, WindowSkip DEF Size
  <2> HIDE DEF rest
  <2> QED
    BY <1>0, <2>1, <2>2, GoneOn
<1> QED
  BY <1>1, <1>2

\* What neither throws nor ends the process leaves room for all of the rows.
LEMMA RowsFit ==
  ASSUME NEW reader \in Windows, NEW rows \in Nat,
         ~RowsThrow(reader, rows), ~RowsAbort(reader, rows)
  PROVE  LET rest == Skip(reader, rows * Size.row)
         IN  rest \in Windows /\ rest.index <= rest.end /\ rest.end = reader.end
<1> DEFINE bytes == rows * Size.row
           rest == Skip(reader, bytes)
<1>1. bytes \in Nat
  BY DEF Size
<1>2. bytes <= reader.end - reader.index
  BY <1>1 DEF RowsThrow, RowsAbort, Left, Windows
<1> HIDE DEF bytes
<1>3. rest \in Windows /\ rest.index = reader.index + bytes /\ rest.end = reader.end
  BY <1>1, WindowMoved
<1> HIDE DEF rest
<1>4. rest.index <= rest.end
  BY <1>1, <1>2, <1>3 DEF Windows
<1> QED
  BY <1>3, <1>4 DEF rest, bytes

LEMMA DftWindowEnds ==
  ASSUME DimOK, BufferTyped, NEW reader \in Windows, reader.index <= reader.end,
         NEW readers, DftWindow(reader, readers)
  PROVE  Ends(readers, reader) /\ DimOK'
<1> DEFINE x == Skip(reader, Size.window)
<1>0. reader.end <= reader.end
  BY DEF Windows
<1>1. CASE Throws(reader, Size.window)
  <2>1. Fail("thrown", reader)
    BY <1>1 DEF DftWindow
  <2> QED
    BY <1>0, <2>1, FailEnds
<1>2. CASE ~Throws(reader, Size.window)
  <2>1. PICK window \in Read(reader, "window") :
            \/ \E how \in {"thrown", "aborted"} : Fail(how, x)
            \/ LET y == Skip(x, window.num_rows * Size.row)
                   z == Skip(y, window.num_rows * Size.row)
               IN  /\ ~RowsThrow(x, window.num_rows) /\ ~RowsAbort(x, window.num_rows)
                   /\ \/ \E how \in {"thrown", "aborted"} : Fail(how, y)
                      \/ /\ ~RowsThrow(y, window.num_rows) /\ ~RowsAbort(y, window.num_rows)
                         /\ Goto(readers, z) /\ UNCHANGED m_dim
    BY <1>2 DEF DftWindow
  <2> DEFINE rows == window.num_rows
             y == Skip(x, rows * Size.row)
             z == Skip(y, rows * Size.row)
  <2>2. x \in Windows /\ x.index <= x.end /\ x.end = reader.end
    BY <1>2, WindowSkip DEF Size
  <2>3. rows \in Nat
    BY ReadType DEF Typed, Size
  <2> HIDE DEF x, rows
  <2>4. CASE \E how \in {"thrown", "aborted"} : Fail(how, x)
    BY <1>0, <2>2, <2>4, FailEnds
  <2>5. CASE /\ ~RowsThrow(x, rows) /\ ~RowsAbort(x, rows)
             /\ \/ \E how \in {"thrown", "aborted"} : Fail(how, y)
                \/ ~RowsThrow(y, rows) /\ ~RowsAbort(y, rows) /\ Goto(readers, z) /\ UNCHANGED m_dim
    <3>1. y \in Windows /\ y.index <= y.end /\ y.end = reader.end
      BY <2>2, <2>3, <2>5, RowsFit
    <3> HIDE DEF y
    <3>2. CASE \E how \in {"thrown", "aborted"} : Fail(how, y)
      BY <1>0, <3>1, <3>2, FailEnds
    <3>3. CASE ~RowsThrow(y, rows) /\ ~RowsAbort(y, rows) /\ Goto(readers, z) /\ UNCHANGED m_dim
      <4>1. z \in Windows /\ z.index <= z.end /\ z.end = reader.end
        BY <2>3, <3>1, <3>3, RowsFit
      <4> HIDE DEF z
      <4> QED
        BY <1>0, <3>3, <4>1, GoneOn
    <3> QED
      BY <2>5, <3>2, <3>3
  <2> QED
    BY <2>1, <2>4, <2>5 DEF rows
<1> QED
  BY <1>1, <1>2

LEMMA ButtonEnds ==
  ASSUME DimOK, NEW reader \in Windows, reader.index <= reader.end,
         NEW readers, Button(reader, readers)
  PROVE  Ends(readers, reader) /\ DimOK'
<1> DEFINE rest == SkipAll(reader, Size.button)
<1>1. rest \in Windows /\ rest.index <= rest.end /\ rest.end = reader.end /\ rest.end <= reader.end
  <2>1. Size.button \in {12, 16}
    BY DEF Size
  <2>2. rest \in Windows /\ rest.index <= rest.end /\ rest.end = reader.end
    BY <2>1, AllSkipped
  <2> HIDE DEF rest
  <2> QED
    BY <2>2 DEF Windows
<1>2. Fail("thrown", rest) \/ (Goto(readers, rest) /\ UNCHANGED m_dim)
  BY DEF Button
<1> HIDE DEF rest
<1> QED
  BY <1>1, <1>2, FailEnds, GoneOn

\* A handler on the stack is one of the readers, and the one on top is at work.
LEMMA TopType ==
  ASSUME IInv, status = "parsing"
  PROVE  /\ stack # <<>> /\ stack \in Seq(Readers) /\ Top \in Readers /\ Top = Last(stack)
         /\ Top.index \in Nat /\ Top.end \in Nat /\ Top.index <= Top.end
         /\ buffer.length \in Nat /\ BufferTyped /\ Nested(stack, buffer.length) /\ DimOK
<1>1. stack # <<>> /\ stack \in Seq(Readers)
  BY DEF IInv, TypeOK
<1>2. Len(stack) \in DOMAIN stack /\ Top = stack[Len(stack)] /\ Top \in Readers
  BY <1>1 DEF Top, Last
<1>3. Top.index <= Top.end
  BY <1>2 DEF IInv, Nested
<1> QED
  BY <1>1, <1>2, <1>3 DEF IInv, BufferTyped, Top, Readers, TypeOK, DimOK

\* What every handler does once it has read the head of a struct, which says how
\* many bytes are to follow: the reader on top is moved behind them.
LEMMA HeadRead ==
  ASSUME IInv, status = "parsing", NEW head \in Nat, NEW size \in Int,
         ~Throws(Top, head), ~Throws(Skip(Top, head), size)
  PROVE  LET sub == Sub(Skip(Top, head), size)
             callers == Taken(head + size)
         IN  /\ callers \in Seq(Readers) /\ callers # <<>>
             /\ Nested(callers, buffer.length)
             /\ Last(callers) \in Readers /\ Last(callers).end = Top.end
             /\ sub.index \in Nat /\ sub.end \in Nat
             /\ sub.index <= sub.end /\ sub.end <= Last(callers).index
<1> DEFINE rest == Skip(Top, head)
           sub == Sub(rest, size)
           callers == Taken(head + size)
<1>1. rest \in Readers /\ rest.index = Top.index + head /\ rest.end = Top.end
  BY TopType, SkipType
<1>2. size \in Nat /\ rest.index + size <= rest.end
  <2>1. rest.index \in Nat /\ rest.end \in Nat
    BY <1>1 DEF Readers
  <2> HIDE DEF rest
  <2> QED
    BY <2>1, Fits DEF rest
<1>3. head + size \in Nat /\ Top.index + (head + size) <= Top.end
  BY <1>1, <1>2, TopType
<1> HIDE DEF rest
<1>4. /\ callers \in Seq(Readers) /\ callers # <<>>
      /\ Nested(callers, buffer.length)
      /\ Last(callers).index = Top.index + (head + size) /\ Last(callers).end = Top.end
  BY <1>3, TopType, TakenType
<1> HIDE DEF callers
<1>5. Last(callers) \in Readers
  BY <1>4 DEF Last
<1>6. sub.index = rest.index /\ sub.end = rest.index + size
  BY DEF Sub
<1> HIDE DEF sub
<1>7. sub.index \in Nat /\ sub.end \in Nat /\ sub.index <= sub.end /\ sub.end <= Last(callers).index
  BY <1>1, <1>2, <1>4, <1>6, TopType
<1> QED
  BY <1>4, <1>5, <1>7 DEF callers, sub, rest

LEMMA SubType ==
  ASSUME IInv, status = "parsing", NEW head \in Nat, NEW size \in Int,
         ~Throws(Top, head), ~Throws(Skip(Top, head), size)
  PROVE  LET sub == Sub(Skip(Top, head), size)
         IN  sub \in Windows /\ sub.index <= sub.end /\ sub.end <= sub.end
<1> DEFINE sub == Sub(Skip(Top, head), size)
<1>1. sub.index \in Nat /\ sub.end \in Nat /\ sub.index <= sub.end
  BY HeadRead
<1>2. sub = [index |-> sub.index, end |-> sub.end]
  BY DEF Sub
<1> HIDE DEF sub
<1> QED
  BY <1>1, <1>2 DEF Windows, sub

\* The handlers on a stack go on, and no other reader is left behind.
LEMMA GotoIInv ==
  ASSUME IInv, status = "parsing", UNCHANGED m_dim,
         NEW readers \in Seq(Readers), readers # <<>>, Nested(readers, buffer.length),
         Goto(readers, NoReader)
  PROVE  IInv'
<1>1. NoReader \in Windows /\ NoReader.index <= NoReader.end /\ NoReader.end <= NoReader.end
  BY DEF NoReader, Windows
<1>2. Last(readers) \in Readers
  BY DEF Last
<1>3. NoReader.end <= Last(readers).index
  BY <1>2 DEF NoReader, Readers
<1>4. Ends(readers, NoReader) /\ DimOK'
  BY <1>1, TopType, GoneOn
<1> QED
  BY <1>1, <1>3, <1>4, EndsIInv

\* The handlers of a kind of data are called with what HeadRead makes of the stack.
LEMMA CallIInv ==
  ASSUME IInv, status = "parsing", NEW head \in Nat, NEW size \in Int,
         ~Throws(Top, head), ~Throws(Skip(Top, head), size),
         NEW name \in {"frame", "frames", "legacy", "groups", "reports"},
         Goto(Call(Taken(head + size), name, Sub(Skip(Top, head), size)), NoReader), UNCHANGED m_dim
  PROVE  IInv'
<1> DEFINE sub == Sub(Skip(Top, head), size)
           callers == Taken(head + size)
           called == Call(callers, name, sub)
<1>1. /\ callers \in Seq(Readers) /\ callers # <<>>
      /\ Nested(callers, buffer.length)
      /\ sub.index \in Nat /\ sub.end \in Nat
      /\ sub.index <= sub.end /\ sub.end <= Last(callers).index
  BY HeadRead
<1>2. buffer.length \in Nat
  BY TopType
<1>3. Goto(called, NoReader)
  OBVIOUS
<1> HIDE DEF sub, callers
<1>4. called \in Seq(Readers) /\ called # <<>> /\ Nested(called, buffer.length)
  BY <1>1, <1>2, Called
<1> HIDE DEF called
<1> QED
  BY <1>3, <1>4, GotoIInv

LEMMA CallersIInv ==
  ASSUME IInv, status = "parsing", NEW head \in Nat, NEW size \in Int,
         ~Throws(Top, head), ~Throws(Skip(Top, head), size),
         Ends(Taken(head + size), Sub(Skip(Top, head), size)), DimOK'
  PROVE  IInv'
<1> DEFINE callers == Taken(head + size)
           sub == Sub(Skip(Top, head), size)
<1>1. /\ callers \in Seq(Readers) /\ callers # <<>> /\ Nested(callers, buffer.length)
      /\ sub \in Windows /\ sub.end <= Last(callers).index
      /\ Ends(callers, sub)
  BY HeadRead DEF Sub, Windows
<1> HIDE DEF callers, sub
<1> QED
  BY <1>1, EndsIInv

\* A handler whose reader has too little left drops all of them.
LEMMA FailIInv ==
  ASSUME IInv, status = "parsing", NEW head \in Nat,
         Fail("thrown", Top) \/ (~Throws(Top, head) /\ Fail("thrown", Skip(Top, head)))
  PROVE  IInv'
<1>1. /\ Top \in Readers /\ Top.index \in Nat /\ Top.end \in Nat /\ Top.index <= Top.end
      /\ Top.end <= buffer.length /\ buffer.length \in Nat
  <2>1. stack # <<>> /\ stack \in Seq(Readers) /\ Nested(stack, buffer.length) /\ Top = Last(stack)
    BY TopType
  <2>2. Len(stack) \in DOMAIN stack /\ Top = stack[Len(stack)]
    BY <2>1 DEF Last
  <2> QED
    BY <2>1, <2>2, TopType DEF Nested
<1>2. PICK rest \in Readers : /\ rest.index \in Nat /\ rest.end \in Nat
                              /\ rest.index <= rest.end /\ rest.end = Top.end
                              /\ Fail("thrown", rest)
  <2>1. CASE Fail("thrown", Top)
    BY <1>1, <2>1
  <2>2. CASE ~Throws(Top, head) /\ Fail("thrown", Skip(Top, head))
    <3>1. Top.index + head <= Top.end
      BY <1>1, <2>2, Fits
    <3>2. /\ Skip(Top, head) \in Readers /\ Skip(Top, head).index = Top.index + head
          /\ Skip(Top, head).end = Top.end
      BY <1>1, SkipType
    <3> QED
      BY <1>1, <2>2, <3>1, <3>2
  <2> QED
    BY <2>1, <2>2
<1>3. /\ used' = [index |-> rest.index, end |-> rest.end]
      /\ stack' = <<>> /\ status' = "thrown" /\ UNCHANGED <<buffer, m_dim>>
  BY <1>2 DEF Fail, Leave
<1>4. UsedOK'
  BY <1>1, <1>2, <1>3 DEF UsedOK, Windows
<1>5. DimOK' /\ BufferTyped' /\ Nested(stack', buffer'.length)
  BY <1>3, TopType DEF DimOK, BufferTyped, Nested
<1>6. TypeOK'
  BY <1>3, <1>5 DEF TypeOK, DimOK
<1> QED
  BY <1>3, <1>4, <1>5, <1>6 DEF IInv

\* The four bytes behind a reports frame are the rest of what the caller has.
LEMMA QuirkIInv ==
  ASSUME IInv, status = "parsing", NEW head \in Nat, NEW size \in Int,
         ~Throws(Top, head), ~Throws(Skip(Top, head), size),
         Left(Last(Taken(head + size))) = 4, UNCHANGED m_dim,
         Goto([Taken(head + size) EXCEPT ![Len(Taken(head + size))] = Skip(@, 4)], NoReader)
  PROVE  IInv'
<1> DEFINE callers == Taken(head + size)
           past == Skip(Last(callers), 4)
           skipped == [callers EXCEPT ![Len(callers)] = past]
<1>1. /\ callers \in Seq(Readers) /\ callers # <<>>
      /\ Nested(callers, buffer.length)
      /\ Last(callers) \in Readers
  BY HeadRead
<1>2. Left(Last(callers)) = 4
  OBVIOUS
<1>3. Goto(skipped, NoReader)
  BY DEF Last
<1> HIDE DEF callers
<1>4. past \in Readers /\ past.index = Last(callers).index + 4 /\ past.end = Last(callers).end
  BY <1>1, SkipType
<1>5. Last(callers).index <= past.index /\ past.index <= past.end
  <2>1. Last(callers).index \in Nat /\ Last(callers).end \in Nat
    BY <1>1 DEF Readers
  <2>2. Last(callers).end - Last(callers).index = 4
    BY <1>2 DEF Left
  <2> HIDE DEF past
  <2> QED
    BY <1>4, <2>1, <2>2
<1> HIDE DEF past
<1>6. skipped \in Seq(Readers) /\ skipped # <<>> /\ Nested(skipped, buffer.length)
  BY <1>1, <1>4, <1>5, Moved
<1> HIDE DEF skipped
<1> QED
  BY <1>3, <1>6, GotoIInv

LEMMA HidFrameIInv == ASSUME IInv, HidFrame PROVE IInv'
<1>1. status = "parsing"
  BY DEF HidFrame
<1> DEFINE failed == \/ Fail("thrown", Top)
                     \/ ~Throws(Top, Size.hid) /\ Fail("thrown", Skip(Top, Size.hid))
<1>2. CASE failed
  BY <1>1, <1>2, FailIInv DEF Size
<1>3. CASE ~failed
  <2>1. ~Throws(Top, Size.hid)
    BY <1>3 DEF HidFrame
  <2>2. PICK frame \in Read(Top, "hid") :
           LET rest == Skip(Top, Size.hid)
               size == frame.size - Size.hid
               callers == Taken(Size.hid + size)
               sub == Sub(rest, size)
           IN  IF Throws(rest, size) THEN Fail("thrown", rest) ELSE
               CASE frame.type = "Hid" -> Goto(Call(callers, "frames", sub), NoReader) /\ Unchanged
                 [] frame.type = "Legacy" -> Goto(Call(callers, "legacy", sub), NoReader) /\ Unchanged
                 [] frame.type = "Heatmap" -> HeatmapFrame(sub, callers)
                 [] frame.type = "Metadata" -> MetadataFrame(sub, callers)
                 [] frame.type = "Reports" ->
                        /\ Goto(IF Left(Last(callers)) = 4
                                THEN [callers EXCEPT ![Len(callers)] = Skip(@, 4)]
                                ELSE Call(callers, "reports", sub), NoReader)
                        /\ Unchanged
                 [] OTHER -> Goto(callers, sub) /\ Unchanged
    BY <1>3, <2>1 DEF HidFrame
  <2> DEFINE head == Size.hid
             size == frame.size - Size.hid
             sub == Sub(Skip(Top, head), size)
             callers == Taken(head + size)
  <2>3. head \in Nat /\ size \in Int
    BY TopType, <1>1, ReadType DEF Typed, Size
  <2>4. ~Throws(Top, head) /\ ~Throws(Skip(Top, head), size)
    BY <1>3, <2>1, <2>2
  <2>5. Unchanged => UNCHANGED m_dim
    BY DEF Unchanged
  <2>6. \/ Goto(Call(callers, "frames", sub), NoReader) /\ Unchanged
        \/ Goto(Call(callers, "legacy", sub), NoReader) /\ Unchanged
        \/ Goto(Call(callers, "reports", sub), NoReader) /\ Unchanged
        \/ HeatmapFrame(sub, callers)
        \/ MetadataFrame(sub, callers)
        \/ /\ Left(Last(callers)) = 4
           /\ Goto([callers EXCEPT ![Len(callers)] = Skip(@, 4)], NoReader)
           /\ Unchanged
        \/ Goto(callers, sub) /\ Unchanged
    BY <2>2, <2>4
  <2>7. ASSUME HeatmapFrame(sub, callers) \/ MetadataFrame(sub, callers) \/ (Goto(callers, sub) /\ Unchanged)
        PROVE  Ends(callers, sub) /\ DimOK'
    <3>1. sub \in Windows /\ sub.index <= sub.end /\ sub.end <= sub.end
      BY <1>1, <2>3, <2>4, SubType
    <3> HIDE DEF sub, callers
    <3> QED
      BY <1>1, <2>5, <2>7, <3>1, TopType, HeatmapEnds, MetadataEnds, GoneOn
  <2> HIDE DEF head, size
  <2> QED
    BY <1>1, <2>3, <2>4, <2>5, <2>6, <2>7, CallIInv, QuirkIInv, CallersIInv
<1> QED
  BY <1>2, <1>3

LEMMA LegacyHeaderIInv == ASSUME IInv, LegacyHeader PROVE IInv'
<1>1. status = "parsing" /\ Top.in = "legacy"
  BY DEF LegacyHeader
<1>2. CASE Fail("thrown", Top)
  BY <1>1, <1>2, FailIInv DEF Size
<1>3. CASE ~Fail("thrown", Top)
  <2>1. ~Throws(Top, Size.legacy) /\ Unchanged
    BY <1>3 DEF LegacyHeader
  <2>2. PICK header \in Read(Top, "legacy") :
            Goto([stack EXCEPT ![Len(stack)] =
                     [Skip(@, Size.legacy) EXCEPT !.in = "groups", !.left = header.elements]],
                 NoReader)
    BY <1>3 DEF LegacyHeader
  <2> DEFINE rest == Skip(Top, Size.legacy)
             groups == [rest EXCEPT !.in = "groups", !.left = header.elements]
  <2>3. Size.legacy \in Nat /\ Size.legacy \in Int /\ header.elements \in Nat
    BY <1>1, TopType, ReadType DEF Typed, Size
  <2>4. /\ rest \in Readers /\ rest.index = Top.index + Size.legacy /\ rest.end = Top.end
        /\ Top.index <= rest.index /\ rest.index <= rest.end
    <3>1. Top.index + Size.legacy <= Top.end
      BY <1>1, <2>1, <2>3, TopType, Fits
    <3>2. rest \in Readers /\ rest.index = Top.index + Size.legacy /\ rest.end = Top.end
      BY <1>1, <2>3, TopType, SkipType
    <3> HIDE DEF rest
    <3> QED
      BY <1>1, <2>3, <3>1, <3>2, TopType
  <2>5. Goto([stack EXCEPT ![Len(stack)] = groups], NoReader)
    BY <2>2 DEF Top, Last
  <2> HIDE DEF rest
  <2>6. groups \in Readers /\ groups.index = rest.index /\ groups.end = rest.end
    BY <2>3, <2>4, RestartType
  <2> HIDE DEF groups
  <2>7. /\ [stack EXCEPT ![Len(stack)] = groups] \in Seq(Readers)
        /\ [stack EXCEPT ![Len(stack)] = groups] # <<>>
        /\ Nested([stack EXCEPT ![Len(stack)] = groups], buffer.length)
    <3>1. /\ groups.end = Last(stack).end
          /\ Last(stack).index <= groups.index /\ groups.index <= groups.end
      BY <1>1, <2>4, <2>6, TopType
    <3> QED
      BY <1>1, <2>6, <3>1, TopType, Moved
  <2>8. UNCHANGED m_dim
    BY <2>1 DEF Unchanged
  <2> QED
    BY <1>1, <2>5, <2>7, <2>8, GotoIInv
<1> QED
  BY <1>2, <1>3

LEMMA ReportGroupIInv == ASSUME IInv, ReportGroup PROVE IInv'
<1>1. status = "parsing"
  BY DEF ReportGroup
<1> DEFINE failed == \/ Fail("thrown", Top)
                     \/ ~Throws(Top, Size.group) /\ Fail("thrown", Skip(Top, Size.group))
<1>2. CASE failed
  BY <1>1, <1>2, FailIInv DEF Size
<1>3. CASE ~failed
  <2>1. ~Throws(Top, Size.group)
    BY <1>3 DEF ReportGroup
  <2>2. PICK group \in Read(Top, "group") :
           LET rest == Skip(Top, Size.group)
               callers == Taken(Size.group + group.size)
           IN  IF Throws(rest, group.size) THEN Fail("thrown", rest) ELSE
               /\ Goto(IF group.type \in {"Stylus", "Touch"}
                       THEN Call(callers, "reports", Sub(rest, group.size))
                       ELSE callers, NoReader)
               /\ Unchanged
    BY <1>3, <2>1 DEF ReportGroup
  <2> DEFINE head == Size.group
             size == group.size
             sub == Sub(Skip(Top, head), size)
             callers == Taken(head + size)
  <2>3. head \in Nat /\ size \in Int
    BY TopType, <1>1, ReadType DEF Typed, Size
  <2>4. ~Throws(Top, head) /\ ~Throws(Skip(Top, head), size)
    BY <1>3, <2>1, <2>2
  <2>5. (Goto(Call(callers, "reports", sub), NoReader) \/ Goto(callers, NoReader)) /\ Unchanged
    BY <2>2, <2>4
  <2>6. UNCHANGED m_dim
    BY <2>5 DEF Unchanged
  <2>7. callers \in Seq(Readers) /\ callers # <<>> /\ Nested(callers, buffer.length)
    BY <1>1, <2>3, <2>4, HeadRead
  <2> HIDE DEF head, size
  <2> QED
    BY <1>1, <2>3, <2>4, <2>5, <2>6, <2>7, CallIInv, GotoIInv
<1> QED
  BY <1>2, <1>3

LEMMA ReportFrameIInv == ASSUME IInv, ReportFrame PROVE IInv'
<1>1. status = "parsing"
  BY DEF ReportFrame
<1> DEFINE failed == \/ Fail("thrown", Top)
                     \/ ~Throws(Top, Size.report) /\ Fail("thrown", Skip(Top, Size.report))
<1>2. CASE failed
  BY <1>1, <1>2, FailIInv DEF Size
<1>3. CASE ~failed
  <2>1. ~Throws(Top, Size.report)
    BY <1>3 DEF ReportFrame
  <2>2. PICK frame \in Read(Top, "report") :
           LET rest == Skip(Top, Size.report)
               callers == Taken(Size.report + frame.size)
               sub == Sub(rest, frame.size)
           IN  IF Throws(rest, frame.size) THEN Fail("thrown", rest) ELSE
               CASE frame.type = "StylusMPP_1_0"     -> Stylus("mpp_1_0", sub, callers)
                 [] frame.type = "StylusMPP_1_51"    -> Stylus("mpp_1_51", sub, callers)
                 [] frame.type = "HeatmapDimensions" -> HeatmapDimensions(sub, callers)
                 [] frame.type = "HeatmapData"       -> HeatmapData(sub, callers)
                 [] frame.type = "DftMetadata"       -> DftMetadata(sub, callers)
                 [] frame.type = "DftWindow"         -> DftWindow(sub, callers)
                 [] frame.type = "Button"            -> Button(sub, callers)
                 [] OTHER -> Goto(callers, sub) /\ Unchanged
    BY <1>3, <2>1 DEF ReportFrame
  <2> DEFINE head == Size.report
             size == frame.size
             sub == Sub(Skip(Top, head), size)
             callers == Taken(head + size)
  <2>3. head \in Nat /\ size \in Int
    BY TopType, <1>1, ReadType DEF Typed, Size
  <2>4. ~Throws(Top, head) /\ ~Throws(Skip(Top, head), size)
    BY <1>3, <2>1, <2>2
  <2>5. \/ Stylus("mpp_1_0", sub, callers)
        \/ Stylus("mpp_1_51", sub, callers)
        \/ HeatmapDimensions(sub, callers)
        \/ HeatmapData(sub, callers)
        \/ DftMetadata(sub, callers)
        \/ DftWindow(sub, callers)
        \/ Button(sub, callers)
        \/ Goto(callers, sub) /\ Unchanged
    BY <2>2, <2>4
  <2>6. DimOK /\ BufferTyped
    BY <1>1, TopType
  <2>9. sub \in Windows /\ sub.index <= sub.end /\ sub.end <= sub.end
    BY <1>1, <2>3, <2>4, SubType
  <2> HIDE DEF sub, callers
  <2>7. Goto(callers, sub) /\ Unchanged => Ends(callers, sub) /\ DimOK'
    BY <2>6, <2>9, GoneOn DEF Unchanged
  <2>8. Ends(callers, sub) /\ DimOK'
    BY <2>5, <2>6, <2>7, <2>9, StylusEnds, DimensionsEnd, HeatmapDataEnds, DftMetadataEnds,
       DftWindowEnds, ButtonEnds
  <2> HIDE DEF head, size
  <2> QED
    BY <1>1, <2>3, <2>4, <2>8, CallersIInv DEF callers, sub
<1> QED
  BY <1>2, <1>3

LEMMA ReturnIInv == ASSUME IInv, Return PROVE IInv'
<1>1. /\ status = "parsing" /\ stack' = Front(stack) /\ UNCHANGED <<m_dim, buffer>>
      /\ used' = NoReader
      /\ status' = IF Len(stack) = 1 THEN "done" ELSE status
  BY DEF Return, Unchanged, Leave, NoReader
<1>2. /\ stack # <<>> /\ stack \in Seq(Readers) /\ Nested(stack, buffer.length)
      /\ DimOK /\ BufferTyped /\ Len(stack) \in Nat \ {0}
  BY <1>1, TopType
<1>3. /\ Front(stack) \in Seq(Readers) /\ Len(Front(stack)) = Len(stack) - 1
      /\ \A i \in DOMAIN Front(stack) : i \in DOMAIN stack /\ Front(stack)[i] = stack[i]
      /\ \A i \in DOMAIN Front(stack) : i \in Nat /\ (i > 1 => i - 1 \in DOMAIN Front(stack))
  <2> DEFINE n == Len(stack) - 1
  <2>1. n \in Nat /\ DOMAIN stack = 1..(n + 1) /\ \A i \in 1..n : stack[i] \in Readers
    BY <1>2
  <2>2. Front(stack) = SubSeq(stack, 1, n)
    BY DEF Front
  <2> HIDE DEF n
  <2>3. /\ SubSeq(stack, 1, n) \in Seq(Readers)
        /\ Len(SubSeq(stack, 1, n)) = IF 1 <= n THEN n - 1 + 1 ELSE 0
        /\ \A i \in 1..(n - 1 + 1) : SubSeq(stack, 1, n)[i] = stack[1 + i - 1]
    BY <2>1, SubSeqProperties
  <2>4. /\ Front(stack) \in Seq(Readers) /\ Len(Front(stack)) = n
        /\ \A i \in 1..n : Front(stack)[i] = stack[i]
    BY <2>1, <2>2, <2>3
  <2>5. DOMAIN Front(stack) = 1..n
    BY <2>4
  <2> QED
    BY <2>1, <2>4, <2>5 DEF n
<1>4. Nested(Front(stack), buffer.length)
  BY <1>2, <1>3 DEF Nested
<1>5. stack' = <<>> <=> Len(stack) = 1
  BY <1>1, <1>2, <1>3
<1>6. DimOK' /\ BufferTyped'
  BY <1>1, <1>2 DEF DimOK, BufferTyped
<1>7. TypeOK'
  BY <1>1, <1>2, <1>5, <1>6 DEF TypeOK, DimOK
<1>8. UsedOK'
  <2>1. stack' # <<>> => Last(stack') \in Readers
    BY <1>1, <1>3 DEF Last
  <2>2. stack' # <<>> => NoReader.end <= Last(stack').index
    BY <2>1 DEF Readers, NoReader
  <2> QED
    BY <1>1, <1>2, <2>2 DEF UsedOK, NoReader, Windows, BufferTyped
<1> QED
  BY <1>1, <1>3, <1>4, <1>6, <1>7, <1>8 DEF IInv

\* A new buffer: its header is skipped and one handler is at work.
LEMMA ParseIInv ==
  ASSUME IInv, NEW data, Parse(data), data.length \in Nat,
         \A s \in data.structs : Typed(s.kind, s.value)
  PROVE  IInv'
<1> DEFINE reader == [index |-> 0, end |-> data.length]
           first == Handler("frame", 1, Skip(reader, Size.header))
<1>1. UNCHANGED <<m_dim, used>> /\ status = "idle" /\ stack = <<>> /\ DimOK'
  BY DEF Parse, IInv, TypeOK, DimOK
<1>2. CASE status' = "thrown" /\ UNCHANGED <<stack, buffer>>
  <2>1. TypeOK'
    BY <1>1, <1>2 DEF IInv, TypeOK
  <2> QED
    BY <1>1, <1>2, <2>1 DEF IInv, BufferTyped, Nested, UsedOK
<1>3. CASE ~Throws(reader, Size.header) /\ status' = "parsing" /\ buffer' = data /\ stack' = <<first>>
  <2>1. 3 <= data.length
    BY <1>3 DEF Throws, Left, Size
  <2>2. first = [in |-> "frame", left |-> 1, index |-> 3, end |-> data.length]
    BY DEF Handler, Skip, Size
  <2>3. first \in Readers /\ first.index = 3 /\ first.end = data.length
    BY <2>2 DEF Readers
  <2> HIDE DEF first
  <2>4. stack' \in Seq(Readers) /\ Nested(stack', data.length) /\ stack' # <<>> /\ Last(stack') = first
    BY <1>3, <2>1, <2>3 DEF Nested, Last
  <2>5. TypeOK' /\ BufferTyped'
    BY <1>1, <1>3, <2>4 DEF IInv, TypeOK, BufferTyped
  <2>6. UsedOK'
    <3>1. used = NoReader
      BY <1>1 DEF IInv
    <3> QED
      BY <1>1, <1>3, <2>3, <2>4, <3>1 DEF UsedOK, NoReader, Windows
  <2> QED
    BY <1>1, <1>3, <2>4, <2>5, <2>6 DEF IInv
<1>4. \/ status' = "thrown" /\ UNCHANGED <<stack, buffer>>
      \/ ~Throws(reader, Size.header) /\ status' = "parsing" /\ buffer' = data /\ stack' = <<first>>
  BY DEF Parse
<1> QED
  BY <1>2, <1>3, <1>4

LEMMA FinishIInv == ASSUME IInv, Finish PROVE IInv'
<1>1. /\ stack = <<>> /\ status' = "idle" /\ UNCHANGED <<stack, m_dim>>
      /\ buffer' = NoBuffer /\ used' = NoReader
  BY DEF Finish, IInv, TypeOK, Leave, NoReader
<1>2. DimOK' /\ BufferTyped' /\ UsedOK' /\ stack' \in Seq(Readers) /\ Nested(stack', buffer'.length)
  BY <1>1 DEF IInv, DimOK, BufferTyped, UsedOK, Nested, NoBuffer, NoReader, Windows
<1>3. TypeOK'
  BY <1>1 DEF IInv, TypeOK
<1> QED
  BY <1>1, <1>2, <1>3 DEF IInv

LEMMA InitIInv == Init => IInv
<1> SUFFICES ASSUME Init PROVE IInv
  OBVIOUS
<1>1. /\ stack = <<>> /\ buffer = NoBuffer /\ used = NoReader
      /\ status = "idle" /\ m_dim = NoDim
  BY DEF Init, ParserInit
<1> QED
  BY <1>1 DEF IInv, TypeOK, DimOK, NoDim, BufferTyped, Nested, NoBuffer, UsedOK, NoReader, Windows

LEMMA NextIInv == ASSUME IInv, [Next]_vars PROVE IInv'
<1>1. ASSUME NEW m \in Messages, SendIntact(m) PROVE IInv'
  BY <1>1, ParseIInv, MessageAssumption DEF SendIntact
<1>2. ASSUME NEW m \in Messages, SendDamaged(m) PROVE IInv'
  BY <1>2, ParseIInv, MessageAssumption DEF SendDamaged
<1>3. CASE Handle
  BY <1>3, HidFrameIInv, LegacyHeaderIInv, ReportGroupIInv, ReportFrameIInv, ReturnIInv DEF Handle
<1>4. CASE Finish
  BY <1>4, FinishIInv
<1>5. CASE UNCHANGED vars
  BY <1>5 DEF IInv, TypeOK, DimOK, BufferTyped, Nested, UsedOK, vars, parserVars
<1> QED
  BY <1>1, <1>2, <1>3, <1>4, <1>5 DEF Next

LEMMA Inductive == Spec => []IInv
<1> QED
  BY InitIInv, NextIInv, PTL DEF Spec

\* There are readers exactly while a buffer is parsed, and whatever the device or
\* leftover data says, the range of a heatmap is not zero: the values of a heatmap
\* are divided by it (ipts/parser.hpp, parse_heatmap_dimensions).
THEOREM TypeCorrect == Spec => []TypeOK
<1>1. IInv => TypeOK
  BY DEF IInv
<1> QED
  BY <1>1, Inductive, PTL

\* Whatever sizes and counts the structs have and whatever other data reads as, a
\* handler stays within the bytes received and within the part its caller has passed
\* over, up to the last byte it reads, skips or hands on as rows: the checks of Reader
\* suffice, subtraction below zero included, and where they do not for the rows of a
\* DFT window the process ends (common/reader.hpp; ipts/parser.hpp, parse_hid_frame to
\* parse_button).
THEOREM ReadersAreConfined == Spec => []Confined
<1>1. IInv => Confined
  <2> SUFFICES ASSUME IInv PROVE Confined
    OBVIOUS
  <2>1. \A i \in DOMAIN stack : stack[i] \in Readers
    BY DEF IInv
  <2>2. \A i \in DOMAIN stack : 0 <= stack[i].index
    BY <2>1 DEF Readers
  <2>3. Within(used) /\ (stack # <<>> => used.end <= Top.index)
    BY DEF IInv, UsedOK, Windows, Within, Top
  <2> QED
    BY <2>2, <2>3 DEF IInv, Nested, Confined, Within
<1> QED
  BY <1>1, Inductive, PTL
=============================================================================
