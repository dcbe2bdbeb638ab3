--------------------------- MODULE ServicesProofs ---------------------------
(***************************************************************************)
(* What is proved of the parts of Services that keep and tell what was     *)
(* found: the event stream, the halt log and the order-flow store, each    *)
(* for every value of its constants.  A part's initial states and steps    *)
(* are those of the composition, up to stuttering.                         *)
(***************************************************************************)
EXTENDS Services, FoldTheorems, SequenceTheorems, TLAPS

-----------------------------------------------------------------------------
(***************************************************************************)
(* The event stream: no connection has a gap it does not know of, and what *)
(* a gap hid is mended.                                                    *)
(***************************************************************************)

(* The capacity of the broadcast and the bounds of the snapshot are         *)
(* numbers, and None is none.                                              *)
StreamConfigured ==
    /\ Capacity \in Nat /\ StreamMaxAlerts \in Nat /\ MaxLatest \in Nat
    /\ MaxChatter \in Nat /\ Slots \in Nat /\ MaxEvents \in Nat
    /\ Screens \cap Traders = {}
    /\ None \notin Int

(* Where the receivers stand, and what has become of the frames they have  *)
(* passed.  A receiver is taken at the accept and read from the hello on,  *)
(* so between the two it has passed nothing.                               *)
StreamPlaced(c) ==
    /\ start[c] \in Nat /\ streamNext[c] \in Nat
    /\ 1 <= start[c] /\ start[c] <= streamNext[c] /\ streamNext[c] <= Stream!Published + 1
    /\ streamConn[c] = "hello" => start[c] = streamNext[c]
FrameMatters(i) == Stream!Matters(frames[i])
StreamTold(c) ==
    streamConn[c] = "live" => \A i \in start[c] .. streamNext[c] - 1 :
        /\ (c \in Screens /\ FrameMatters(i)) => i \in sent[c] \cup told[c]
        /\ c \in Traders => i \in sent[c]

StreamFunctions ==
    /\ streamConn \in [Stream!Clients -> {"closed", "hello", "live"}]
    /\ start \in [Stream!Clients -> Nat] /\ streamNext \in [Stream!Clients -> Nat]
    /\ sent = [c \in Stream!Clients |-> sent[c]]
    /\ told = [c \in Stream!Clients |-> told[c]]

StreamInv ==
    /\ frames \in Seq(Stream!Kinds) /\ StreamFunctions
    /\ \A c \in Stream!Clients : StreamPlaced(c) /\ StreamTold(c)

(* Every event the collector has passed is a frame, in the order of the    *)
(* scan, or lost; what it lost was a whole channel behind.                 *)
EventsInv ==
    /\ scanned \in Seq(Stream!Kinds) /\ Len(scanned) <= MaxEvents
    /\ streamRead \in 1 .. Len(scanned) + 1
    /\ frames \in Seq(Stream!Kinds) /\ frameEvent \in Seq(Nat)
    /\ Len(frameEvent) = Len(frames) /\ Len(frames) < streamRead
    /\ \A i \in 1 .. Len(frames) :
          frameEvent[i] \in 1 .. streamRead - 1 /\ frames[i] = scanned[frameEvent[i]]
    /\ \A i, j \in 1 .. Len(frames) : i < j => frameEvent[i] < frameEvent[j]
    /\ \A e \in 1 .. streamRead - 1 :
          e \in streamLost \/ \E i \in 1 .. Len(frames) : frameEvent[i] = e
    /\ \A e \in streamLost : /\ e \in 1 .. streamRead - 1 /\ e + Capacity <= Len(scanned)
                            /\ \A i \in 1 .. Len(frames) : frameEvent[i] # e

(* The collector makes a frame of the event f.                             *)
Publishes(f) == Stream!Publish /\ f = scanned[streamRead]

(* Before the scan has sent anything, nothing is read and nothing lost.    *)
LEMMA EventsInit == ASSUME StreamConfigured, Stream!Init PROVE EventsInv
<1>1. /\ scanned = <<>> /\ streamRead = 1 /\ streamLost = {}
      /\ frames = <<>> /\ frameEvent = <<>>
  BY DEF Stream!Init
<1> QED BY <1>1 DEF EventsInv, StreamConfigured

(* What is published is an event of the scan.                              *)
LEMMA PublishOf ==
    ASSUME EventsInv, Stream!Publish PROVE \E f \in Stream!Kinds : Publishes(f)
<1>1. streamRead \in 1 .. Len(scanned) BY DEF Stream!Publish, EventsInv
<1>2. scanned[streamRead] \in Stream!Kinds BY <1>1 DEF EventsInv
<1> QED BY <1>2 DEF Publishes

(* An event more of the scan is behind all that was read and lost.         *)
LEMMA SendCounts ==
    ASSUME StreamConfigured, EventsInv, NEW f \in Stream!Kinds, Stream!Send(f)
    PROVE  EventsInv'
<1>1. /\ scanned' = Append(scanned, f) /\ Len(scanned) < MaxEvents
      /\ UNCHANGED <<streamRead, streamLost, frames, frameEvent>>
  BY DEF Stream!Send, Stream!stream
<1>2. /\ scanned' \in Seq(Stream!Kinds) /\ Len(scanned) \in Nat
      /\ Len(scanned') = Len(scanned) + 1
      /\ \A i \in 1 .. Len(scanned) : scanned'[i] = scanned[i]
  BY <1>1, AppendProperties DEF EventsInv
<1>3. MaxEvents \in Nat /\ Capacity \in Nat BY DEF StreamConfigured
<1>4. streamRead \in 1 .. Len(scanned) + 1 /\ Len(scanned) <= MaxEvents BY DEF EventsInv
<1>5. Len(scanned') <= MaxEvents /\ streamRead' \in 1 .. Len(scanned') + 1
  BY <1>1, <1>2, <1>3, <1>4
<1>6. ASSUME NEW i \in 1 .. Len(frames)
      PROVE  frameEvent[i] \in 1 .. streamRead - 1 /\ frames[i] = scanned'[frameEvent[i]]
  <2>1. frameEvent[i] \in 1 .. streamRead - 1 /\ frames[i] = scanned[frameEvent[i]]
    BY DEF EventsInv
  <2>2. frameEvent[i] \in 1 .. Len(scanned) BY <1>2, <1>4, <2>1
  <2> QED BY <1>2, <2>1, <2>2
<1>7. ASSUME NEW e \in streamLost
      PROVE  /\ e \in 1 .. streamRead - 1 /\ e + Capacity <= Len(scanned')
             /\ \A i \in 1 .. Len(frames) : frameEvent[i] # e
  <2>1. /\ e \in 1 .. streamRead - 1 /\ e + Capacity <= Len(scanned)
        /\ \A i \in 1 .. Len(frames) : frameEvent[i] # e
    BY DEF EventsInv
  <2>2. e + Capacity <= Len(scanned') BY <1>2, <1>3, <2>1
  <2> QED BY <2>1, <2>2
<1> QED BY <1>1, <1>2, <1>5, <1>6, <1>7 DEF EventsInv

(* The next event becomes the next frame.                                  *)
LEMMA PublishCounts == ASSUME EventsInv, Stream!Publish PROVE EventsInv'
<1> DEFINE r == streamRead  n == Len(frames)
<1>1. PICK f \in Stream!Kinds : Publishes(f) BY PublishOf
<1>2. /\ f = scanned[r] /\ frames' = Append(frames, f) /\ frameEvent' = Append(frameEvent, r)
      /\ streamRead' = r + 1 /\ UNCHANGED <<scanned, streamLost>> /\ r <= Len(scanned)
  BY <1>1 DEF Publishes, Stream!Publish
<1>3. /\ scanned \in Seq(Stream!Kinds) /\ Len(scanned) <= MaxEvents
      /\ r \in 1 .. Len(scanned) + 1 /\ n < r
      /\ frames \in Seq(Stream!Kinds) /\ frameEvent \in Seq(Nat) /\ Len(frameEvent) = n
      /\ \A i \in 1 .. n : frameEvent[i] \in 1 .. r - 1 /\ frames[i] = scanned[frameEvent[i]]
      /\ \A i, j \in 1 .. n : i < j => frameEvent[i] < frameEvent[j]
      /\ \A e \in 1 .. r - 1 : e \in streamLost \/ \E i \in 1 .. n : frameEvent[i] = e
      /\ \A e \in streamLost : /\ e \in 1 .. r - 1 /\ e + Capacity <= Len(scanned)
                              /\ \A i \in 1 .. n : frameEvent[i] # e
  BY DEF EventsInv
<1>4. r \in Nat /\ n \in Nat /\ Len(scanned) \in Nat /\ r >= 1 BY <1>3
<1>5. /\ frames' \in Seq(Stream!Kinds) /\ Len(frames') = n + 1
      /\ \A i \in 1 .. n : frames'[i] = frames[i]
      /\ frames'[n + 1] = f
  BY <1>2, <1>3, AppendProperties
<1>6. /\ frameEvent' \in Seq(Nat) /\ Len(frameEvent') = n + 1
      /\ \A i \in 1 .. n : frameEvent'[i] = frameEvent[i]
      /\ frameEvent'[n + 1] = r
  BY <1>2, <1>3, <1>4, AppendProperties
<1> HIDE DEF r, n
<1>7. /\ r + 1 \in 1 .. Len(scanned) + 1 /\ n + 1 < r + 1
      /\ \A i \in 1 .. n + 1 : i \in 1 .. n \/ i = n + 1
      /\ \A i \in 1 .. n : i \in 1 .. n + 1
      /\ n + 1 \in 1 .. n + 1
      /\ \A e \in 1 .. r : e \in 1 .. r - 1 \/ e = r
      /\ \A e \in 1 .. r - 1 : e \in 1 .. r /\ e < r /\ e # r
      /\ r \in 1 .. r /\ (r + 1) - 1 = r
  BY <1>2, <1>3, <1>4
<1>8. \A i \in 1 .. n + 1 : frameEvent'[i] \in 1 .. r /\ frames'[i] = scanned[frameEvent'[i]]
  BY <1>2, <1>3, <1>5, <1>6, <1>7
<1>9. ASSUME NEW i \in 1 .. n + 1, NEW j \in 1 .. n + 1, i < j
      PROVE  frameEvent'[i] < frameEvent'[j]
  <2>1. i \in 1 .. n BY <1>4, <1>9
  <2>2. CASE j \in 1 .. n BY <1>3, <1>6, <1>9, <2>1, <2>2
  <2>3. CASE j = n + 1 BY <1>3, <1>6, <1>7, <2>1, <2>3
  <2> QED BY <1>7, <2>2, <2>3
<1>10. ASSUME NEW e \in 1 .. r
       PROVE  e \in streamLost \/ \E i \in 1 .. n + 1 : frameEvent'[i] = e
  <2>1. CASE e = r BY <1>6, <1>7, <2>1
  <2>2. ASSUME e # r, e \notin streamLost PROVE \E i \in 1 .. n + 1 : frameEvent'[i] = e
    <3>1. e \in 1 .. r - 1 BY <1>7, <2>2
    <3>2. PICK i \in 1 .. n : frameEvent[i] = e BY <1>3, <2>2, <3>1
    <3>3. i \in 1 .. n + 1 /\ frameEvent'[i] = e BY <1>6, <1>7, <3>2
    <3> QED BY <3>3
  <2> QED BY <2>1, <2>2
<1>11. ASSUME NEW e \in streamLost
       PROVE  e \in 1 .. r /\ \A i \in 1 .. n + 1 : frameEvent'[i] # e
  <2>1. e \in 1 .. r - 1 /\ \A i \in 1 .. n : frameEvent[i] # e BY <1>3
  <2>2. e \in 1 .. r /\ e # r BY <1>7, <2>1
  <2>3. ASSUME NEW i \in 1 .. n + 1 PROVE frameEvent'[i] # e
    <3>1. CASE i \in 1 .. n BY <1>6, <2>1, <3>1
    <3>2. CASE i = n + 1 BY <1>6, <2>2, <3>2
    <3> QED BY <1>7, <3>1, <3>2
  <2> QED BY <2>2, <2>3
<1>12. streamRead' = r + 1 /\ streamRead' - 1 = r /\ scanned' = scanned
       /\ streamLost' = streamLost /\ Len(frameEvent') = Len(frames') /\ Len(frames') = n + 1
  BY <1>2, <1>5, <1>6, <1>7
<1> QED BY <1>3, <1>5, <1>6, <1>7, <1>8, <1>9, <1>10, <1>11, <1>12 DEF EventsInv

(* What the collector is overtaken by is lost, and counted as lost.        *)
LEMMA LagCounts ==
    ASSUME StreamConfigured, EventsInv, Stream!CollectorLag PROVE EventsInv'
<1> DEFINE r == streamRead  n == Len(frames)  o == Stream!OldestEvent  m == Len(scanned)
<1>1. /\ r < o /\ streamLost' = streamLost \cup r .. o - 1 /\ streamRead' = o
      /\ UNCHANGED <<scanned, frames, frameEvent>>
  BY DEF Stream!CollectorLag, Stream!stream
<1>2. /\ r \in 1 .. m + 1 /\ n < r
      /\ \A i \in 1 .. n : frameEvent[i] \in 1 .. r - 1
      /\ \A e \in 1 .. r - 1 : e \in streamLost \/ \E i \in 1 .. n : frameEvent[i] = e
      /\ \A e \in streamLost : /\ e \in 1 .. r - 1 /\ e + Capacity <= m
                              /\ \A i \in 1 .. n : frameEvent[i] # e
  BY DEF EventsInv
<1>3. m \in Nat /\ n \in Nat /\ Capacity \in Nat BY DEF EventsInv, StreamConfigured
<1>4. \/ o = 1
      \/ m > Capacity /\ o = m - Capacity + 1
  BY DEF Stream!OldestEvent, Stream!Held
<1> HIDE DEF r, n, o, m
<1>5. /\ r \in Nat /\ o \in Nat /\ o \in 1 .. m + 1 /\ n < o
      /\ \A e \in r .. o - 1 : e \in 1 .. o - 1 /\ e + Capacity <= m /\ e \notin 1 .. r - 1
      /\ \A e \in 1 .. r - 1 : e \in 1 .. o - 1
      /\ \A e \in 1 .. o - 1 : e \in 1 .. r - 1 \/ e \in r .. o - 1
  BY <1>1, <1>2, <1>3, <1>4
<1>6. \A i \in 1 .. n : frameEvent[i] \in 1 .. o - 1 BY <1>2, <1>5
<1>7. ASSUME NEW e \in 1 .. o - 1
      PROVE  e \in streamLost' \/ \E i \in 1 .. n : frameEvent[i] = e
  BY <1>1, <1>2, <1>5
<1>8. ASSUME NEW e \in streamLost'
      PROVE  /\ e \in 1 .. o - 1 /\ e + Capacity <= m
             /\ \A i \in 1 .. n : frameEvent[i] # e
  <2>1. CASE e \in streamLost BY <1>2, <1>5, <2>1
  <2>2. CASE e \in r .. o - 1 BY <1>2, <1>5, <2>2
  <2> QED BY <1>1, <2>1, <2>2
<1> QED BY <1>1, <1>5, <1>6, <1>7, <1>8 DEF EventsInv, r, n, o, m

(* No step of the stream leaves an event unaccounted for.                  *)
LEMMA EventsStepKeeps ==
    ASSUME StreamConfigured, EventsInv, [Stream!Next]_(Stream!vars) PROVE EventsInv'
<1>1. ASSUME UNCHANGED <<scanned, streamRead, streamLost, frames, frameEvent>> PROVE EventsInv'
  BY <1>1 DEF EventsInv
<1>2. CASE \E f \in Stream!Kinds : Stream!Send(f) BY <1>2, SendCounts
<1>3. CASE Stream!Publish BY <1>3, PublishCounts
<1>4. CASE Stream!CollectorLag BY <1>4, LagCounts
<1>5. CASE Stream!SetTiered \/ UNCHANGED Stream!vars
  <2>1. UNCHANGED <<scanned, streamRead, streamLost, frames, frameEvent>>
    BY <1>5 DEF Stream!SetTiered, Stream!vars, Stream!upstream, Stream!stream
  <2> QED BY <1>1, <2>1
<1>6. ASSUME NEW c \in Stream!Clients,
             \/ Stream!Accept(c) \/ Stream!Hello(c) \/ Stream!Receive(c)
             \/ Stream!Lag(c) \/ Stream!Leave(c)
      PROVE  EventsInv'
  <2>1. UNCHANGED <<scanned, streamRead, streamLost, frames, frameEvent>>
    BY <1>6 DEF Stream!Accept, Stream!Hello, Stream!Receive, Stream!Lag, Stream!LagWith,
                Stream!Leave, Stream!upstream, Stream!stream
  <2> QED BY <1>1, <2>1
<1> QED BY <1>2, <1>3, <1>4, <1>5, <1>6 DEF Stream!Next

(* The invariant holds before the first connection.                        *)
LEMMA StreamInit == ASSUME Stream!Init PROVE StreamInv
  BY DEF Stream!Init, StreamInv, StreamFunctions, StreamPlaced, StreamTold, Stream!Published

(* A frame is published, and reaches nobody yet.                           *)
LEMMA PublishKeeps ==
    ASSUME StreamInv, NEW f \in Stream!Kinds, Publishes(f) PROVE StreamInv'
<1>1. frames' = Append(frames, f) /\ UNCHANGED <<streamConn, start, streamNext, sent, told>>
  BY DEF Publishes, Stream!Publish, Stream!client
<1>2. frames \in Seq(Stream!Kinds) /\ StreamFunctions BY DEF StreamInv
<1>3. /\ frames' \in Seq(Stream!Kinds) /\ Len(frames) \in Nat /\ Len(frames') = Len(frames) + 1
      /\ \A i \in 1 .. Len(frames) : frames'[i] = frames[i]
  BY <1>1, <1>2, AppendProperties
<1>4. ASSUME NEW c \in Stream!Clients PROVE StreamPlaced(c)' /\ StreamTold(c)'
  <2>1. StreamPlaced(c) /\ StreamTold(c) BY DEF StreamInv
  <2>2. StreamPlaced(c)' BY <1>1, <1>3, <2>1 DEF StreamPlaced, Stream!Published
  <2>3. StreamTold(c)'
    <3> SUFFICES ASSUME streamConn[c] = "live", NEW i \in start[c] .. streamNext[c] - 1
                 PROVE  /\ (c \in Screens /\ FrameMatters(i)') => i \in sent[c] \cup told[c]
                        /\ c \in Traders => i \in sent[c]
      BY <1>1 DEF StreamTold
    <3>1. i \in 1 .. Len(frames) BY <1>3, <2>1 DEF StreamPlaced, Stream!Published
    <3>2. FrameMatters(i)' = FrameMatters(i) BY <1>3, <3>1 DEF FrameMatters, Stream!Matters
    <3> QED BY <2>1, <3>2 DEF StreamTold
  <2> QED BY <2>2, <2>3
<1>5. StreamFunctions' BY <1>1, <1>2 DEF StreamFunctions
<1> QED BY <1>3, <1>4, <1>5 DEF StreamInv

(* A step of one connection leaves the others where they are.              *)
LEMMA ClientKeeps ==
    ASSUME StreamInv, NEW c \in Stream!Clients, frames' = frames,
           StreamFunctions', StreamPlaced(c)', StreamTold(c)',
           \A d \in Stream!Clients \ {c} : /\ streamConn'[d] = streamConn[d] /\ start'[d] = start[d]
                                    /\ streamNext'[d] = streamNext[d] /\ sent'[d] = sent[d]
                                    /\ told'[d] = told[d]
    PROVE  StreamInv'
<1>1. ASSUME NEW d \in Stream!Clients, d # c PROVE StreamPlaced(d)' /\ StreamTold(d)'
  <2>1. StreamPlaced(d) /\ StreamTold(d) BY DEF StreamInv
  <2>2. /\ streamConn'[d] = streamConn[d] /\ start'[d] = start[d]
        /\ streamNext'[d] = streamNext[d] /\ sent'[d] = sent[d] /\ told'[d] = told[d]
    BY <1>1
  <2>3. StreamPlaced(d)' BY <2>1, <2>2 DEF StreamPlaced, Stream!Published
  <2>4. StreamTold(d)' BY <2>1, <2>2 DEF StreamTold, FrameMatters, Stream!Matters
  <2> QED BY <2>3, <2>4
<1> QED BY <1>1 DEF StreamInv

(* A connection is accepted: its receiver starts behind the newest frame.  *)
LEMMA AcceptKeeps == ASSUME StreamInv, NEW c \in Stream!Clients, Stream!Accept(c) PROVE StreamInv'
<1>1. /\ streamConn' = [streamConn EXCEPT ![c] = "hello"]
      /\ start' = [start EXCEPT ![c] = Stream!Published + 1]
      /\ streamNext' = [streamNext EXCEPT ![c] = Stream!Published + 1]
      /\ UNCHANGED <<frames, sent, told>>
  BY DEF Stream!Accept, Stream!stream
<1>2. StreamFunctions /\ Stream!Published \in Nat BY DEF StreamInv, Stream!Published
<1>3. StreamFunctions' BY <1>1, <1>2 DEF StreamFunctions
<1>4. /\ streamConn'[c] = "hello" /\ start'[c] = Stream!Published + 1
      /\ streamNext'[c] = Stream!Published + 1
      /\ Stream!Published' = Stream!Published
  BY <1>1, <1>2 DEF StreamFunctions, Stream!Published
<1>5. StreamPlaced(c)' /\ StreamTold(c)' BY <1>2, <1>4 DEF StreamPlaced, StreamTold
<1> QED BY <1>1, <1>2, <1>3, <1>5, ClientKeeps DEF StreamFunctions

(* The hello is said: the connection reads on from where it was accepted.  *)
LEMMA HelloKeeps == ASSUME StreamInv, NEW c \in Stream!Clients, Stream!Hello(c) PROVE StreamInv'
<1>1. /\ streamConn[c] = "hello" /\ streamConn' = [streamConn EXCEPT ![c] = "live"]
      /\ UNCHANGED <<frames, start, streamNext, told>>
      /\ \/ sent' = [sent EXCEPT ![c] = @ \cup Stream!Frames]
         \/ sent' = sent
  BY DEF Stream!Hello, Stream!stream, Stream!Replay
<1>2. StreamFunctions /\ StreamPlaced(c) BY DEF StreamInv
<1>3. /\ sent' = [d \in Stream!Clients |-> sent'[d]]
      /\ \A d \in Stream!Clients \ {c} : sent'[d] = sent[d]
  <2> DEFINE F == Stream!Frames
  <2> HIDE DEF F
  <2>1. sent' = [sent EXCEPT ![c] = @ \cup F] \/ sent' = sent BY <1>1 DEF F
  <2>2. sent = [d \in Stream!Clients |-> sent[d]] BY <1>2 DEF StreamFunctions
  <2> QED BY <2>1, <2>2
<1>4. StreamFunctions' BY <1>1, <1>2, <1>3 DEF StreamFunctions
<1>5. StreamPlaced(c)' BY <1>1, <1>2 DEF StreamPlaced, StreamFunctions, Stream!Published
<1>6. StreamTold(c)' BY <1>1, <1>2 DEF StreamTold, StreamPlaced
<1> QED BY <1>1, <1>2, <1>3, <1>4, <1>5, <1>6, ClientKeeps DEF StreamFunctions

(* A frame is read: sent, or withheld because it is chatter.               *)
LEMMA ReceiveKeeps == ASSUME StreamInv, NEW c \in Stream!Clients, Stream!Receive(c) PROVE StreamInv'
<1> DEFINE i == streamNext[c]
<1>1. /\ streamConn[c] = "live" /\ i <= Stream!Published
      /\ streamNext' = [streamNext EXCEPT ![c] = i + 1]
      /\ UNCHANGED <<frames, streamConn, start, told>>
      /\ \/ Stream!Delivers(c, i) /\ sent' = [sent EXCEPT ![c] = @ \cup {i}]
         \/ ~Stream!Delivers(c, i) /\ sent' = sent
  BY DEF Stream!Receive, Stream!stream
<1>2. StreamFunctions /\ StreamPlaced(c) /\ StreamTold(c) /\ Stream!Published \in Nat
  BY DEF StreamInv, Stream!Published
<1>3. i \in Nat BY <1>2 DEF StreamPlaced
<1> HIDE DEF i
<1>4. /\ sent' = [d \in Stream!Clients |-> sent'[d]]
      /\ \A d \in Stream!Clients \ {c} : sent'[d] = sent[d]
      /\ sent[c] \subseteq sent'[c]
      /\ Stream!Delivers(c, i) => i \in sent'[c]
  <2>1. sent = [d \in Stream!Clients |-> sent[d]] BY <1>2 DEF StreamFunctions
  <2> QED BY <1>1, <2>1
<1>5. streamNext'[c] = i + 1 /\ i = streamNext[c] BY <1>1, <1>2 DEF StreamFunctions, i
<1>6. StreamFunctions' BY <1>1, <1>2, <1>3, <1>4 DEF StreamFunctions
<1>7. StreamPlaced(c)' BY <1>1, <1>2, <1>3, <1>5 DEF StreamPlaced, Stream!Published
<1>8. StreamTold(c)'
  <2>1. ASSUME NEW j \in start[c] .. i
        PROVE  /\ (c \in Screens /\ FrameMatters(j)) => j \in sent'[c] \cup told[c]
               /\ c \in Traders => j \in sent'[c]
    <3>1. CASE j = i
      <4>1. c \in Traders => Stream!Delivers(c, i) BY DEF Stream!Delivers
      <4>2. FrameMatters(i) => Stream!Delivers(c, i)
        BY DEF Stream!Delivers, Stream!UiDelivers, FrameMatters, Stream!Matters
      <4> QED BY <1>4, <3>1, <4>1, <4>2
    <3>2. CASE j # i
      <4>1. j \in start[c] .. streamNext[c] - 1 BY <1>2, <1>3, <1>5, <3>2 DEF StreamPlaced
      <4> QED BY <1>1, <1>2, <1>4, <4>1 DEF StreamTold
    <3> QED BY <3>1, <3>2
  <2>2. start'[c] .. streamNext'[c] - 1 = start[c] .. i BY <1>1, <1>2, <1>3, <1>5 DEF StreamPlaced
  <2>3. \A j : FrameMatters(j)' <=> FrameMatters(j) BY <1>1 DEF FrameMatters, Stream!Matters
  <2> QED BY <1>1, <2>1, <2>2, <2>3 DEF StreamTold
<1> QED BY <1>1, <1>2, <1>4, <1>5, <1>6, <1>7, <1>8, ClientKeeps DEF StreamFunctions

(* A connection that ends forgets.                                         *)
LEMMA CloseKeeps ==
    ASSUME StreamInv, NEW c \in Stream!Clients, Stream!Disconnect(c), frames' = frames
      PROVE StreamInv'
<1>1. StreamFunctions /\ Stream!Published \in Nat BY DEF StreamInv, Stream!Published
<1>2. StreamFunctions' BY <1>1 DEF Stream!Disconnect, StreamFunctions
<1>3. /\ streamConn'[c] = "closed" /\ start'[c] = 1 /\ streamNext'[c] = 1
      /\ Stream!Published' = Stream!Published
      /\ \A d \in Stream!Clients \ {c} : /\ streamConn'[d] = streamConn[d] /\ start'[d] = start[d]
                                  /\ streamNext'[d] = streamNext[d] /\ sent'[d] = sent[d]
                                  /\ told'[d] = told[d]
  BY <1>1 DEF Stream!Disconnect, StreamFunctions, Stream!Published
<1>4. StreamPlaced(c)' /\ StreamTold(c)' BY <1>1, <1>3 DEF StreamPlaced, StreamTold
<1> QED BY <1>2, <1>3, <1>4, ClientKeeps

(* A connection that was overtaken is closed, or told what it missed.      *)
LEMMA LagKeeps ==
    ASSUME StreamConfigured, StreamInv, NEW c \in Stream!Clients, Stream!Lag(c)
    PROVE StreamInv'
<1>1. streamConn[c] = "live" /\ streamNext[c] < Stream!Oldest /\ frames' = frames
  BY DEF Stream!Lag, Stream!LagWith, Stream!stream
<1>2. CASE c \in Traders /\ Stream!Disconnect(c) BY <1>1, <1>2, CloseKeeps
<1>3. CASE /\ c \notin Traders
           /\ told' = [told EXCEPT ![c] = @ \cup Stream!Skipped(c)]
           /\ streamNext' = [streamNext EXCEPT ![c] = Stream!Oldest]
           /\ Stream!Replay(c)
           /\ UNCHANGED <<streamConn, start>>
  <2>1. StreamFunctions /\ StreamPlaced(c) /\ StreamTold(c) /\ Stream!Published \in Nat
    BY DEF StreamInv, Stream!Published
  <2>2. Stream!Oldest \in Nat /\ Stream!Oldest <= Stream!Published + 1
    <3>1. CASE Stream!Published > Capacity
      <4>1. Stream!Oldest = Stream!Published - Capacity + 1 BY <3>1 DEF Stream!Oldest, Stream!Held
      <4>2. Capacity \in Nat BY DEF StreamConfigured
      <4>3. Stream!Published \in Nat BY <2>1
      <4> HIDE DEF Stream!Published, Stream!Oldest
      <4> QED BY <3>1, <4>1, <4>2, <4>3
    <3>2. CASE ~(Stream!Published > Capacity)
      <4>1. Stream!Oldest = 1 BY <3>2 DEF Stream!Oldest, Stream!Held
      <4> QED BY <2>1, <4>1
    <3> QED BY <3>1, <3>2
  <2> DEFINE S == Stream!Skipped(c)
             F == Stream!Frames
             N == Stream!Oldest
  <2> HIDE DEF S, F, N
  <2>3. /\ told' = [told EXCEPT ![c] = @ \cup S]
        /\ sent' = [sent EXCEPT ![c] = @ \cup F]
        /\ streamNext' = [streamNext EXCEPT ![c] = N]
    BY <1>3 DEF Stream!Replay, S, F, N
  <2>4. N \in Nat /\ N <= Stream!Published + 1 /\ streamNext[c] < N BY <1>1, <2>2 DEF N
  <2>5. StreamFunctions'
    <3>1. told' = [d \in Stream!Clients |-> told'[d]] BY <2>1, <2>3 DEF StreamFunctions
    <3>2. sent' = [d \in Stream!Clients |-> sent'[d]] BY <2>1, <2>3 DEF StreamFunctions
    <3>3. streamNext' \in [Stream!Clients -> Nat] BY <2>1, <2>3, <2>4 DEF StreamFunctions
    <3> QED BY <1>3, <2>1, <3>1, <3>2, <3>3 DEF StreamFunctions
  <2>6. /\ told'[c] = told[c] \cup S /\ sent'[c] = sent[c] \cup F /\ streamNext'[c] = N
        /\ \A d \in Stream!Clients \ {c} : /\ streamConn'[d] = streamConn[d] /\ start'[d] = start[d]
                                    /\ streamNext'[d] = streamNext[d] /\ sent'[d] = sent[d]
                                    /\ told'[d] = told[d]
    BY <1>3, <2>1, <2>3 DEF StreamFunctions
  <2>7. StreamPlaced(c)' BY <1>1, <1>3, <2>1, <2>4, <2>6 DEF StreamPlaced, Stream!Published
  <2>8. StreamTold(c)'
    <3>1. ASSUME NEW j \in start[c] .. N - 1, FrameMatters(j)
          PROVE  j \in sent'[c] \cup told'[c]
      <4>1. CASE j \in start[c] .. streamNext[c] - 1
        <5>1. c \in Screens BY <1>3 DEF Stream!Clients
        <5> QED BY <1>1, <2>1, <2>6, <3>1, <4>1, <5>1 DEF StreamTold
      <4>2. CASE j \notin start[c] .. streamNext[c] - 1
        <5>1. j \in streamNext[c] .. N - 1 BY <2>1, <2>4, <4>2 DEF StreamPlaced
        <5>2. S = streamNext[c] .. N - 1 BY DEF S, N, Stream!Skipped
        <5> QED BY <2>6, <5>1, <5>2
      <4> QED BY <4>1, <4>2
    <3>2. \A j : FrameMatters(j)' <=> FrameMatters(j) BY <1>1 DEF FrameMatters, Stream!Matters
    <3> QED BY <1>3, <2>6, <3>1, <3>2 DEF StreamTold
  <2> QED BY <1>1, <2>5, <2>6, <2>7, <2>8, ClientKeeps
<1> QED BY <1>2, <1>3 DEF Stream!Lag, Stream!LagWith, Stream!stream

(* Every step of the stream keeps the invariant.                           *)
LEMMA StreamStepKeeps ==
    ASSUME StreamConfigured, EventsInv, StreamInv, [Stream!Next]_(Stream!vars)
  PROVE StreamInv'
<1>1. CASE Stream!Publish BY <1>1, PublishOf, PublishKeeps
<1>2. CASE \/ Stream!SetTiered \/ UNCHANGED Stream!vars \/ Stream!CollectorLag
           \/ \E f \in Stream!Kinds : Stream!Send(f)
  <2>1. UNCHANGED <<frames, streamConn, start, streamNext, sent, told>>
    BY <1>2 DEF Stream!SetTiered, Stream!CollectorLag, Stream!Send, Stream!vars,
                Stream!stream, Stream!client
  <2> QED
    BY <2>1 DEF StreamInv, StreamFunctions, StreamPlaced, StreamTold, Stream!Published, FrameMatters, Stream!Matters
<1>3. ASSUME NEW c \in Stream!Clients, Stream!Accept(c) PROVE StreamInv' BY <1>3, AcceptKeeps
<1>4. ASSUME NEW c \in Stream!Clients, Stream!Hello(c) PROVE StreamInv' BY <1>4, HelloKeeps
<1>5. ASSUME NEW c \in Stream!Clients, Stream!Receive(c) PROVE StreamInv' BY <1>5, ReceiveKeeps
<1>6. ASSUME NEW c \in Stream!Clients, Stream!Lag(c) PROVE StreamInv' BY <1>6, LagKeeps
<1>7. ASSUME NEW c \in Stream!Clients, Stream!Leave(c) PROVE StreamInv'
  BY <1>7, CloseKeeps DEF Stream!Leave, Stream!stream
<1> QED BY <1>1, <1>2, <1>3, <1>4, <1>5, <1>6, <1>7 DEF Stream!Next

(* Events a connection has passed were lost, or are frames it has passed.  *)
LEMMA PassedFrames ==
    ASSUME EventsInv, NEW c, StreamPlaced(c), NEW e \in Stream!Passed(c)
    PROVE  \/ e \in streamLost
           \/ \E i \in start[c] .. streamNext[c] - 1 :
                 i \in 1 .. Len(frames) /\ frameEvent[i] = e
<1> DEFINE n == Len(frames)  r == streamRead  a == start[c]  z == streamNext[c]
           A == Stream!Reached(a)  Z == Stream!Reached(z)
<1>1. /\ a \in Nat /\ z \in Nat /\ 1 <= a /\ a <= z /\ z <= n + 1
  BY DEF StreamPlaced, Stream!Published
<1>2. /\ n \in Nat /\ r \in Nat /\ n < r
      /\ \A i \in 1 .. n : frameEvent[i] \in 1 .. r - 1
      /\ \A i, j \in 1 .. n : i < j => frameEvent[i] < frameEvent[j]
      /\ \A x \in 1 .. r - 1 : x \in streamLost \/ \E i \in 1 .. n : frameEvent[i] = x
  BY DEF EventsInv
<1>3. /\ a <= n => A = frameEvent[a]
      /\ ~(a <= n) => A = r
      /\ z <= n => Z = frameEvent[z]
      /\ ~(z <= n) => Z = r
      /\ e \in A .. Z - 1
  BY DEF Stream!Reached, Stream!Published, Stream!Passed
<1> HIDE DEF n, r, a, z, A, Z
<1>4. /\ A \in Nat /\ Z \in Nat /\ 1 <= A /\ Z <= r
  <2>1. A \in 1 .. r BY <1>1, <1>2, <1>3
  <2>2. Z \in 1 .. r BY <1>1, <1>2, <1>3
  <2> QED BY <1>2, <2>1, <2>2
<1>5. e \in 1 .. r - 1 /\ A <= e /\ e < Z /\ e \in Nat BY <1>2, <1>3, <1>4
<1>6. ASSUME NEW i \in 1 .. n, frameEvent[i] = e PROVE i \in a .. z - 1
  <2>1. ASSUME i < a PROVE FALSE
    <3>1. CASE a <= n
      <4>1. a \in 1 .. n BY <1>1, <1>2, <3>1
      <4>2. frameEvent[i] < frameEvent[a] BY <1>2, <2>1, <4>1
      <4> QED BY <1>3, <1>4, <1>5, <1>6, <3>1, <4>2
    <3>2. CASE ~(a <= n) BY <1>2, <1>3, <1>4, <1>5, <3>2
    <3> QED BY <3>1, <3>2
  <2>2. ASSUME i >= z PROVE FALSE
    <3>1. z \in 1 .. n BY <1>1, <1>2, <2>2
    <3>2. Z = frameEvent[z] BY <1>2, <1>3, <3>1
    <3>3. CASE i = z BY <1>4, <1>5, <1>6, <3>2, <3>3
    <3>4. CASE i # z
      <4>1. z < i BY <1>1, <1>2, <2>2, <3>4
      <4>2. frameEvent[z] < frameEvent[i] BY <1>2, <3>1, <4>1
      <4> QED BY <1>4, <1>5, <1>6, <3>2, <4>2
    <3> QED BY <3>3, <3>4
  <2> QED BY <1>1, <1>2, <2>1, <2>2
<1> QED BY <1>2, <1>5, <1>6 DEF n, a, z

(* What the invariants say of the events a connection has passed.          *)
LEMMA StreamInvTells ==
    ASSUME EventsInv, StreamInv
    PROVE  Stream!Accounted /\ Stream!NoSilentGap /\ Stream!TraderMissesNothing
<1>1. ASSUME NEW c \in Screens, streamConn[c] = "live", NEW e \in Stream!Passed(c),
             Stream!Matters(scanned[e])
      PROVE  e \in streamLost \/ Stream!Carried(e, sent[c] \cup told[c])
  <2>1. StreamPlaced(c) /\ StreamTold(c) /\ c \in Stream!Clients
    BY DEF StreamInv, Stream!Clients
  <2>2. SUFFICES ASSUME NEW i \in start[c] .. streamNext[c] - 1, i \in 1 .. Len(frames),
                        frameEvent[i] = e
                 PROVE  Stream!Carried(e, sent[c] \cup told[c])
    BY <2>1, PassedFrames
  <2>3. frames[i] = scanned[e] BY <2>2 DEF EventsInv
  <2>4. i \in sent[c] \cup told[c] BY <1>1, <2>1, <2>3 DEF StreamTold, FrameMatters
  <2> QED BY <2>2, <2>4 DEF Stream!Carried, Stream!Published
<1>2. ASSUME NEW c \in Traders, streamConn[c] = "live", NEW e \in Stream!Passed(c)
      PROVE  e \in streamLost \/ Stream!Carried(e, sent[c])
  <2>1. StreamPlaced(c) /\ StreamTold(c) /\ c \in Stream!Clients
    BY DEF StreamInv, Stream!Clients
  <2>2. SUFFICES ASSUME NEW i \in start[c] .. streamNext[c] - 1, i \in 1 .. Len(frames),
                        frameEvent[i] = e
                 PROVE  Stream!Carried(e, sent[c])
    BY <2>1, PassedFrames
  <2>3. i \in sent[c] BY <1>2, <2>1 DEF StreamTold
  <2> QED BY <2>2, <2>3 DEF Stream!Carried, Stream!Published
<1>3. Stream!Accounted
  <2>1. DOMAIN frameEvent = 1 .. Len(frames) /\ Len(frameEvent) = Len(frames)
    BY DEF EventsInv
  <2>2. Stream!Range(frameEvent) = {frameEvent[i] : i \in 1 .. Len(frames)}
    BY <2>1 DEF Stream!Range
  <2>3. /\ \A i \in 1 .. Len(frames) : frameEvent[i] \in 1 .. streamRead - 1
        /\ \A x \in 1 .. streamRead - 1 :
              x \in streamLost \/ \E i \in 1 .. Len(frames) : frameEvent[i] = x
        /\ \A x \in streamLost : /\ x \in 1 .. streamRead - 1
                                /\ \A i \in 1 .. Len(frames) : frameEvent[i] # x
    BY DEF EventsInv
  <2>4. Stream!Range(frameEvent) \cup streamLost = 1 .. streamRead - 1 BY <2>2, <2>3
  <2>5. Stream!Range(frameEvent) \cap streamLost = {} BY <2>2, <2>3
  <2> QED BY <2>1, <2>4, <2>5 DEF EventsInv, Stream!Accounted, Stream!Published
<1> QED BY <1>1, <1>2, <1>3 DEF Stream!NoSilentGap, Stream!TraderMissesNothing

(* A step of the composition is a step of that part, or leaves it alone.   *)
LEMMA StepStream == [ServicesNext]_servicesVars => [Stream!Next]_(Stream!vars)
<1>1. UNCHANGED streamVars => UNCHANGED Stream!vars
  BY DEF streamVars, Stream!vars, Stream!upstream, Stream!stream, Stream!snapshot, Stream!client
<1>2. StreamStep => Stream!Next BY DEF StreamStep
<1>3. UNCHANGED servicesVars => UNCHANGED streamVars BY DEF servicesVars
<1>4. TraderStep => UNCHANGED streamVars BY DEF TraderStep
<1>5. StoreStep => UNCHANGED streamVars BY DEF StoreStep
<1>6. BarsStep => UNCHANGED streamVars BY DEF BarsStep
<1>7. CoverageStep => UNCHANGED streamVars BY DEF CoverageStep
<1>8. HubStep => UNCHANGED streamVars BY DEF HubStep
<1>9. FeedStep => UNCHANGED streamVars BY DEF FeedStep
<1>10. IgnitionStep => UNCHANGED streamVars BY DEF IgnitionStep
<1>11. HaltsStep => UNCHANGED streamVars BY DEF HaltsStep
<1> QED BY <1>1, <1>2, <1>3, <1>4, <1>5, <1>6, <1>7, <1>8, <1>9, <1>10, <1>11 DEF ServicesNext

(* Whatever the other parts do, every event of the scan the collector has   *)
(* passed is a numbered frame or was lost to the collector's own lag, and   *)
(* of the frames no connection has a gap it does not know of.               *)
THEOREM StreamTellsEveryGapAlways == ServicesSpec => []StreamTellsEveryGap
<1>1. StreamConfigured BY StreamAssumption, NoneAssumption DEF StreamConfigured
<1>2. ServicesInit => EventsInv /\ StreamInv
  BY <1>1, StreamInit, EventsInit DEF ServicesInit
<1>3. EventsInv /\ StreamInv /\ [ServicesNext]_servicesVars => (EventsInv /\ StreamInv)'
  BY <1>1, StepStream, StreamStepKeeps, EventsStepKeeps
<1>4. EventsInv /\ StreamInv => StreamTellsEveryGap
  BY StreamInvTells DEF StreamTellsEveryGap
<1> QED BY <1>2, <1>3, <1>4, PTL DEF ServicesSpec

(* The sequence a holds the last m of the set A of numbers, oldest first.  *)
HoldsLast(a, A, m) ==
    /\ a \in Seq(Nat) /\ Len(a) <= m
    /\ \A i, j \in 1 .. Len(a) : i < j => a[i] < a[j]
    /\ \A i \in 1 .. Len(a) : a[i] \in A
    /\ \A x \in A : (\A i \in 1 .. Len(a) : a[i] # x) =>
           Len(a) = m /\ \A i \in 1 .. Len(a) : x < a[i]

(* What LastOf keeps of a sequence it is given one more number for.        *)
LEMMA LastOfAppend ==
    ASSUME NEW a \in Seq(Nat), NEW m \in Nat, Len(a) <= m, NEW y \in Nat,
           NEW t, t = Stream!LastOf(Append(a, y), m)
    PROVE  /\ t \in Seq(Nat)
           /\ \/ /\ Len(a) < m /\ Len(t) = Len(a) + 1 /\ t[Len(t)] = y
                 /\ \A i \in 1 .. Len(a) : t[i] = a[i]
              \/ /\ Len(a) = m /\ Len(t) = m
                 /\ \A i \in 1 .. m : t[i] = IF i = m THEN y ELSE a[i + 1]
<1> DEFINE b == Append(a, y)
<1>1. /\ b \in Seq(Nat) /\ Len(b) = Len(a) + 1 /\ Len(a) \in Nat
      /\ \A i \in 1 .. Len(a) : b[i] = a[i]
      /\ b[Len(a) + 1] = y
  BY AppendProperties
<1> HIDE DEF b
<1>2. t = SubSeq(b, Len(b) - (IF m < Len(b) THEN m ELSE Len(b)) + 1, Len(b))
  BY DEF Stream!LastOf, b
<1>3. CASE Len(a) < m
  <2> DEFINE n == IF m < Len(b) THEN m ELSE Len(b)
  <2>0. n = Len(b) /\ Len(b) - Len(b) + 1 = 1 BY <1>1, <1>3
  <2> HIDE DEF n
  <2>1. t = SubSeq(b, 1, Len(b)) BY <1>2, <2>0, Zenon DEF n
  <2>2. \A i \in 1 .. Len(b) : b[i] \in Nat BY <1>1
  <2>3. /\ t \in Seq(Nat) /\ Len(t) = (IF 1 <= Len(b) THEN Len(b) - 1 + 1 ELSE 0)
        /\ \A i \in 1 .. Len(b) - 1 + 1 : t[i] = b[1 + i - 1]
    <3>1. 1 \in Int /\ Len(b) \in Int BY <1>1
    <3> HIDE DEF b
    <3> QED BY <2>1, <2>2, <3>1, SubSeqProperties
  <2>4. Len(t) = Len(b) /\ \A i \in 1 .. Len(b) : t[i] = b[i] BY <1>1, <2>3
  <2> QED BY <1>1, <1>3, <2>3, <2>4
<1>4. CASE Len(a) = m
  <2> DEFINE n == IF m < Len(b) THEN m ELSE Len(b)
  <2>0. n = m /\ Len(b) - m + 1 = 2 BY <1>1, <1>4
  <2> HIDE DEF n
  <2>1. t = SubSeq(b, 2, Len(b)) BY <1>2, <2>0, Zenon DEF n
  <2>2. \A i \in 2 .. Len(b) : b[i] \in Nat BY <1>1
  <2>3. /\ t \in Seq(Nat) /\ Len(t) = (IF 2 <= Len(b) THEN Len(b) - 2 + 1 ELSE 0)
        /\ \A i \in 1 .. Len(b) - 2 + 1 : t[i] = b[2 + i - 1]
    <3>1. 2 \in Int /\ Len(b) \in Int BY <1>1
    <3> QED BY <2>1, <2>2, <3>1, SubSeqProperties
  <2>4. Len(t) = m /\ \A i \in 1 .. m : t[i] = b[i + 1] BY <1>1, <1>4, <2>3
  <2> QED BY <1>1, <1>4, <2>3, <2>4
<1> QED BY <1>1, <1>3, <1>4

(* LastOf holds the last numbers of a set that grows at its end.           *)
LEMMA HoldsLastGrows ==
    ASSUME NEW a, NEW A, NEW m \in Nat, HoldsLast(a, A, m), NEW y \in Nat,
           A \subseteq Nat, \A x \in A : x < y
    PROVE  HoldsLast(Stream!LastOf(Append(a, y), m), A \cup {y}, m)
<1> DEFINE t == Stream!LastOf(Append(a, y), m)
<1>0. /\ a \in Seq(Nat) /\ Len(a) <= m /\ Len(a) \in Nat
      /\ \A i, j \in 1 .. Len(a) : i < j => a[i] < a[j]
      /\ \A i \in 1 .. Len(a) : a[i] \in A
      /\ \A i \in 1 .. Len(a) : a[i] \in Nat /\ a[i] < y
      /\ \A x \in A : (\A i \in 1 .. Len(a) : a[i] # x) =>
             Len(a) = m /\ \A i \in 1 .. Len(a) : x < a[i]
  BY DEF HoldsLast
<1>1. /\ t \in Seq(Nat)
      /\ \/ /\ Len(a) < m /\ Len(t) = Len(a) + 1 /\ t[Len(t)] = y
            /\ \A i \in 1 .. Len(a) : t[i] = a[i]
         \/ /\ Len(a) = m /\ Len(t) = m
            /\ \A i \in 1 .. m : t[i] = IF i = m THEN y ELSE a[i + 1]
  BY <1>0, LastOfAppend
<1> HIDE DEF t
<1>2. CASE /\ Len(a) < m /\ Len(t) = Len(a) + 1 /\ t[Len(t)] = y
           /\ \A i \in 1 .. Len(a) : t[i] = a[i]
  <2>1. \A i \in 1 .. Len(t) : i \in 1 .. Len(a) \/ i = Len(t) BY <1>0, <1>2
  <2>2. ASSUME NEW i \in 1 .. Len(t), NEW j \in 1 .. Len(t), i < j PROVE t[i] < t[j]
    <3>1. i \in 1 .. Len(a) BY <1>0, <1>2, <2>2
    <3>2. CASE j \in 1 .. Len(a) BY <1>0, <1>2, <2>2, <3>1, <3>2
    <3>3. CASE j = Len(t) BY <1>0, <1>2, <3>1, <3>3
    <3> QED BY <2>1, <3>2, <3>3
  <2>3. \A i \in 1 .. Len(t) : t[i] \in A \cup {y} BY <1>0, <1>2, <2>1
  <2>4. ASSUME NEW x \in A \cup {y}, \A i \in 1 .. Len(t) : t[i] # x PROVE FALSE
    <3>1. x # y BY <1>0, <1>2, <2>4
    <3>2. \A i \in 1 .. Len(a) : a[i] # x BY <1>0, <1>2, <2>4
    <3> QED BY <1>0, <1>2, <3>1, <3>2
  <2> QED BY <1>0, <1>1, <1>2, <2>2, <2>3, <2>4 DEF HoldsLast, t
<1>3. CASE /\ Len(a) = m /\ Len(t) = m
           /\ \A i \in 1 .. m : t[i] = IF i = m THEN y ELSE a[i + 1]
  <2>1. \A i \in 1 .. m : i = m \/ i + 1 \in 1 .. m OBVIOUS
  <2>2. ASSUME NEW i \in 1 .. Len(t), NEW j \in 1 .. Len(t), i < j PROVE t[i] < t[j]
    <3>1. i # m /\ i \in 1 .. m /\ i + 1 \in 1 .. Len(a) BY <1>0, <1>3, <2>2
    <3>2. t[i] = a[i + 1] BY <1>3, <3>1
    <3>3. CASE j = m BY <1>0, <1>3, <3>1, <3>2, <3>3
    <3>4. CASE j # m
      <4>1. j + 1 \in 1 .. Len(a) /\ i + 1 < j + 1 /\ j \in 1 .. m
        BY <1>0, <1>3, <2>2, <3>4
      <4> QED BY <1>0, <1>3, <3>1, <3>2, <3>4, <4>1
    <3> QED BY <3>3, <3>4
  <2>3. \A i \in 1 .. Len(t) : t[i] \in A \cup {y} BY <1>0, <1>3, <2>1
  <2>4. ASSUME NEW x \in A \cup {y}, \A i \in 1 .. Len(t) : t[i] # x,
               NEW i \in 1 .. Len(t)
        PROVE  x < t[i]
    <3>1. x # y BY <1>0, <1>3, <2>4
    <3>2. CASE \A j \in 1 .. Len(a) : a[j] # x BY <1>0, <1>3, <2>1, <3>1, <3>2
    <3>3. CASE \E j \in 1 .. Len(a) : a[j] = x
      <4>1. PICK j \in 1 .. Len(a) : a[j] = x BY <3>3
      <4>2. j = 1
        <5> SUFFICES ASSUME j # 1 PROVE FALSE OBVIOUS
        <5>1. j - 1 \in 1 .. m /\ j - 1 # m /\ (j - 1) + 1 = j BY <1>0, <1>3
        <5>2. t[j - 1] = a[j] BY <1>3, <5>1
        <5> QED BY <1>3, <2>4, <4>1, <5>1, <5>2
      <4>3. CASE i = m BY <1>0, <1>3, <4>1, <4>3, <3>1
      <4>4. CASE i # m
        <5>1. i + 1 \in 1 .. Len(a) /\ 1 < i + 1 BY <1>0, <1>3, <4>4
        <5> QED BY <1>0, <1>3, <4>1, <4>2, <4>4, <5>1
      <4> QED BY <4>3, <4>4
    <3> QED BY <3>2, <3>3
  <2> QED BY <1>0, <1>1, <1>3, <2>2, <2>3, <2>4 DEF HoldsLast, t
<1> QED BY <1>1, <1>2, <1>3

(* A number with fewer than m greater ones is held.                        *)
LEMMA RecentIsHeld ==
    ASSUME NEW a, NEW A, NEW m \in Nat, HoldsLast(a, A, m), IsFiniteSet(A),
           NEW x \in A, A \subseteq Nat, Cardinality({z \in A : z > x}) < m
    PROVE  \E i \in 1 .. Len(a) : a[i] = x
<1> SUFFICES ASSUME \A i \in 1 .. Len(a) : a[i] # x PROVE FALSE OBVIOUS
<1> DEFINE G == {z \in A : z > x}
           f == [i \in 1 .. m |-> a[i]]
<1>1. Len(a) = m /\ \A i \in 1 .. m : x < a[i] /\ a[i] \in A /\ a[i] \in Nat BY DEF HoldsLast
<1>2. \A i \in 1 .. m : f[i] \in G BY <1>1
<1>3. \A i, j \in 1 .. m : f[i] = f[j] => i = j BY <1>1 DEF HoldsLast
<1>4. IsFiniteSet(G) BY FS_Subset
<1>5. f \in Injection(1 .. m, G)
  <2>1. f \in [1 .. m -> G] BY <1>2
  <2> HIDE DEF f, G
  <2> QED BY <1>3, <2>1 DEF Injection, IsInjective
<1> HIDE DEF f, G
<1>6. Cardinality(1 .. m) <= Cardinality(G) BY <1>4, <1>5, FS_Injection DEF ExistsInjection
<1>7. Cardinality(1 .. m) = m BY FS_Interval
<1>8. Cardinality(G) \in Nat BY <1>4, FS_CardinalityType
<1> QED BY <1>6, <1>7, <1>8 DEF G

(* The snapshot keeps the last alerts, and of every key it keeps the newest *)
(* state frame; each within its bounds.                                    *)
StreamAlerts(h) == {i \in 1 .. Len(h) : h[i].class = "alert"}
LatestIs(k, m, h) ==
    /\ m \in 1 .. Len(h) /\ h[m].class = "state" /\ h[m].key = k
    /\ \A i \in 1 .. Len(h) : (h[i].class = "state" /\ h[i].key = k) => i <= m
SnapshotOK ==
    /\ HoldsLast(streamAlerts, StreamAlerts(frames), StreamMaxAlerts)
    /\ chatter \in Seq(Nat) /\ Len(chatter) <= MaxChatter
    /\ latest \in [Keys -> Nat \cup {None}]
    /\ \A k \in Stream!Kept : LatestIs(k, latest[k], frames)
    /\ IsFiniteSet(Stream!Kept) /\ Cardinality(Stream!Kept) <= MaxLatest
    /\ tiered \in BOOLEAN

(* Connections that are not closed.                                        *)
Connected == {d \in Stream!Clients : streamConn[d] # "closed"}
RoomsOK == IsFiniteSet(Connected) /\ Cardinality(Connected) <= Slots

(* A live screen shows the newest state of a key as soon as its receiver   *)
(* is behind that frame, and was sent or told of the alerts of the         *)
(* snapshot that its receiver is behind.                                   *)
Current(c) == \A k \in Stream!Kept : latest[k] < streamNext[c] => shows[c][k] = latest[k]
Alerted(c) == \A i \in 1 .. Len(streamAlerts) :
    streamAlerts[i] \in sent[c] \cup told[c] \/ streamAlerts[i] >= streamNext[c]
ShowsOK ==
    /\ shows \in [Stream!Clients -> [Keys -> Nat \cup {None}]]
    /\ \A c \in Screens : streamConn[c] = "live" => Current(c) /\ Alerted(c)

MendsInv == EventsInv /\ StreamInv /\ SnapshotOK /\ RoomsOK /\ ShowsOK

(* Numbers of elements are the same in the part and in the whole.          *)
LEMMA SameCount == \A S : Stream!Cardinality(S) = Cardinality(S)
  BY DEF Stream!Cardinality, Cardinality

(* The invariant holds before the first frame.                             *)
LEMMA MendsInit == ASSUME StreamConfigured, Stream!Init PROVE MendsInv
<1>1. EventsInv /\ StreamInv BY StreamInit, EventsInit
<1>2. Stream!Kept = {} /\ Connected = {} /\ StreamAlerts(frames) = {}
  BY DEF Stream!Init, Stream!Kept, Connected, StreamAlerts
<1>3. IsFiniteSet({}) /\ Cardinality({}) = 0 BY FS_EmptySet
<1>4. HoldsLast(streamAlerts, {}, StreamMaxAlerts)
  BY DEF Stream!Init, HoldsLast, StreamConfigured
<1>5. SnapshotOK
  <2>1. HoldsLast(streamAlerts, StreamAlerts(frames), StreamMaxAlerts) BY <1>2, <1>4
  <2>2. chatter \in Seq(Nat) /\ Len(chatter) <= MaxChatter
    BY DEF Stream!Init, StreamConfigured
  <2>3. latest \in [Keys -> Nat \cup {None}] /\ tiered \in BOOLEAN BY DEF Stream!Init
  <2>4. IsFiniteSet(Stream!Kept) /\ Cardinality(Stream!Kept) <= MaxLatest
    BY <1>2, <1>3 DEF StreamConfigured
  <2> QED BY <1>2, <2>1, <2>2, <2>3, <2>4 DEF SnapshotOK
<1>6. RoomsOK BY <1>2, <1>3 DEF RoomsOK, StreamConfigured
<1>7. ShowsOK
  <2>1. Screens \subseteq Stream!Clients BY DEF Stream!Clients
  <2> QED BY <2>1 DEF ShowsOK, Stream!Init
<1> QED BY <1>1, <1>5, <1>6, <1>7 DEF MendsInv

(* The frames after one more is published.                                 *)
Grown(h, f, g) ==
    /\ h \in Seq(Stream!Kinds) /\ f \in Stream!Kinds
    /\ g \in Seq(Stream!Kinds) /\ Len(h) \in Nat /\ Len(g) = Len(h) + 1
    /\ \A i \in 1 .. Len(h) : g[i] = h[i]
    /\ g[Len(h) + 1] = f

(* A frame that is no alert leaves the alerts as they are; an alert is the *)
(* newest of them.                                                         *)
LEMMA AlertsGrow ==
    ASSUME NEW h, NEW f, NEW g, Grown(h, f, g)
    PROVE  /\ f.class # "alert" => StreamAlerts(g) = StreamAlerts(h)
           /\ f.class = "alert" => StreamAlerts(g) = StreamAlerts(h) \cup {Len(h) + 1}
           /\ StreamAlerts(h) \subseteq Nat
           /\ \A x \in StreamAlerts(h) : x < Len(h) + 1
<1>1. \A i \in 1 .. Len(g) : i \in 1 .. Len(h) \/ i = Len(h) + 1 BY DEF Grown
<1>2. \A i : i \in 1 .. Len(h) => i \in 1 .. Len(g) BY DEF Grown
<1>3. Len(h) + 1 \in 1 .. Len(g) BY DEF Grown
<1>4. \A i \in 1 .. Len(h) : i # Len(h) + 1 /\ i \in Nat /\ i < Len(h) + 1 BY DEF Grown
<1>5. \A i : i \in StreamAlerts(g) <=>
           \/ i \in StreamAlerts(h)
           \/ i = Len(h) + 1 /\ f.class = "alert"
  BY <1>1, <1>2, <1>3, <1>4 DEF StreamAlerts, Grown
<1>6. \A i \in StreamAlerts(h) : i \in 1 .. Len(h) BY DEF StreamAlerts
<1>7. f.class # "alert" => StreamAlerts(g) = StreamAlerts(h) BY <1>5
<1>8. f.class = "alert" => StreamAlerts(g) = StreamAlerts(h) \cup {Len(h) + 1} BY <1>5
<1> QED BY <1>4, <1>6, <1>7, <1>8

(* What was the newest state of a key stays it, unless the frame is one.   *)
LEMMA LatestGrows ==
    ASSUME NEW h, NEW f, NEW g, Grown(h, f, g), NEW k, NEW m
    PROVE  /\ (LatestIs(k, m, h) /\ ~(f.class = "state" /\ f.key = k)) => LatestIs(k, m, g)
           /\ (f.class = "state" /\ f.key = k) => LatestIs(k, Len(h) + 1, g)
<1>1. \A i \in 1 .. Len(g) : i \in 1 .. Len(h) \/ i = Len(h) + 1 BY DEF Grown
<1>2. \A i \in 1 .. Len(h) : i \in 1 .. Len(g) /\ i <= Len(h) + 1 /\ g[i] = h[i] BY DEF Grown
<1>3. Len(h) + 1 \in 1 .. Len(g) /\ g[Len(h) + 1] = f /\ Len(h) + 1 <= Len(h) + 1
  BY DEF Grown
<1> QED BY <1>1, <1>2, <1>3, Zenon DEF LatestIs

(* The snapshot takes a frame: an alert is added to the alerts, a state    *)
(* replaces that of its key and may push another key out.                  *)
LEMMA RecordKeeps ==
    ASSUME StreamConfigured, MendsInv, NEW f \in Stream!Kinds, Publishes(f)
    PROVE  /\ SnapshotOK'
           /\ Grown(frames, f, frames')
           /\ \A k \in Stream!Kept' :
                  \/ latest'[k] = Len(frames) + 1
                  \/ k \in Stream!Kept /\ latest'[k] = latest[k]
           /\ \A i \in 1 .. Len(streamAlerts') :
                  \/ streamAlerts'[i] = Len(frames) + 1
                  \/ \E j \in 1 .. Len(streamAlerts) : streamAlerts'[i] = streamAlerts[j]
<1> DEFINE n == Len(frames) + 1
<1>1. SnapshotOK /\ frames \in Seq(Stream!Kinds) BY DEF MendsInv, StreamInv
<1>2. frames' = Append(frames, f) /\ tiered' = tiered /\ Stream!Record(f, n)
  BY DEF Publishes, Stream!Publish, Stream!Published
<1>3. Grown(frames, f, frames')
  BY <1>1, <1>2, AppendProperties DEF Grown
<1>4. n \in Nat /\ n # None /\ Len(frames') = n
  BY <1>2, <1>3 DEF Grown, StreamConfigured
<1> HIDE DEF n
<1>5. n = Len(frames) + 1 BY DEF n
<1>6. /\ latest \in [Keys -> Nat \cup {None}] /\ chatter \in Seq(Nat) /\ tiered \in BOOLEAN
      /\ \A k \in Stream!Kept : LatestIs(k, latest[k], frames)
      /\ HoldsLast(streamAlerts, StreamAlerts(frames), StreamMaxAlerts)
  BY <1>1 DEF SnapshotOK
<1>7. CASE f.class = "alert"
  <2>1. /\ streamAlerts' = Stream!LastOf(Append(streamAlerts, n), StreamMaxAlerts)
        /\ UNCHANGED <<latest, chatter>>
    BY <1>2, <1>7 DEF Stream!Record
  <2>2. /\ StreamAlerts(frames') = StreamAlerts(frames) \cup {n}
        /\ StreamAlerts(frames) \subseteq Nat /\ \A x \in StreamAlerts(frames) : x < n
    BY <1>3, <1>5, <1>7, AlertsGrow
  <2>3. HoldsLast(streamAlerts', StreamAlerts(frames'), StreamMaxAlerts)
    BY <1>4, <1>6, <2>1, <2>2, HoldsLastGrows DEF StreamConfigured
  <2>4. Stream!Kept' = Stream!Kept BY <2>1 DEF Stream!Kept
  <2>5. \A k \in Stream!Kept' : LatestIs(k, latest'[k], frames')
    BY <1>3, <1>6, <1>7, <2>1, <2>4, LatestGrows
  <2>6. SnapshotOK' BY <1>1, <1>2, <1>4, <2>1, <2>3, <2>4, <2>5 DEF SnapshotOK
  <2>7. \A i \in 1 .. Len(streamAlerts') :
           \/ streamAlerts'[i] = n
           \/ \E j \in 1 .. Len(streamAlerts) : streamAlerts'[i] = streamAlerts[j]
    <3> DEFINE t == streamAlerts'
    <3>0. t = Stream!LastOf(Append(streamAlerts, n), StreamMaxAlerts) BY <2>1
    <3> HIDE DEF t
    <3>1. streamAlerts \in Seq(Nat) /\ Len(streamAlerts) <= StreamMaxAlerts BY <1>6 DEF HoldsLast
    <3>2. /\ t \in Seq(Nat)
          /\ \/ /\ Len(streamAlerts) < StreamMaxAlerts
                /\ Len(t) = Len(streamAlerts) + 1 /\ t[Len(t)] = n
                /\ \A i \in 1 .. Len(streamAlerts) : t[i] = streamAlerts[i]
             \/ /\ Len(streamAlerts) = StreamMaxAlerts /\ Len(t) = StreamMaxAlerts
                /\ \A i \in 1 .. StreamMaxAlerts :
                       t[i] = IF i = StreamMaxAlerts THEN n ELSE streamAlerts[i + 1]
      BY <1>4, <3>0, <3>1, LastOfAppend DEF StreamConfigured
    <3>3. Len(streamAlerts) \in Nat /\ StreamMaxAlerts \in Nat BY <3>1 DEF StreamConfigured
    <3>4. \A i \in 1 .. Len(t) : t[i] = n
             \/ \E j \in 1 .. Len(streamAlerts) : t[i] = streamAlerts[j]
      <4>1. CASE /\ Len(t) = Len(streamAlerts) + 1 /\ t[Len(t)] = n
                 /\ \A i \in 1 .. Len(streamAlerts) : t[i] = streamAlerts[i]
        <5>1. \A i \in 1 .. Len(t) : i = Len(t) \/ i \in 1 .. Len(streamAlerts)
          BY <3>3, <4>1
        <5> QED BY <4>1, <5>1
      <4>2. CASE /\ Len(streamAlerts) = StreamMaxAlerts /\ Len(t) = StreamMaxAlerts
                 /\ \A i \in 1 .. StreamMaxAlerts :
                       t[i] = IF i = StreamMaxAlerts THEN n ELSE streamAlerts[i + 1]
        <5>1. \A i \in 1 .. Len(t) : i = StreamMaxAlerts \/ i + 1 \in 1 .. Len(streamAlerts)
          BY <3>3, <4>2
        <5> QED BY <4>2, <5>1
      <4> QED BY <3>2, <4>1, <4>2
    <3> QED BY <3>4 DEF t
  <2> QED BY <1>3, <1>5, <2>1, <2>4, <2>6, <2>7
<1>8. CASE f.class = "chatter"
  <2>1. /\ UNCHANGED <<streamAlerts, latest>>
        /\ chatter' = chatter \/ chatter' = Stream!LastOf(Append(chatter, n), MaxChatter)
    BY <1>2, <1>8 DEF Stream!Record
  <2>2. StreamAlerts(frames') = StreamAlerts(frames) BY <1>3, <1>8, AlertsGrow
  <2>3. chatter' \in Seq(Nat) /\ Len(chatter') <= MaxChatter
    <3>1. Len(chatter) <= MaxChatter /\ Len(chatter) \in Nat /\ MaxChatter \in Nat
      BY <1>1 DEF SnapshotOK, StreamConfigured
    <3>2. CASE chatter' = chatter BY <1>6, <3>1, <3>2
    <3>3. CASE chatter' = Stream!LastOf(Append(chatter, n), MaxChatter)
      <4> DEFINE t == chatter'
      <4>1. t = Stream!LastOf(Append(chatter, n), MaxChatter) BY <3>3
      <4> HIDE DEF t
      <4>2. /\ t \in Seq(Nat)
            /\ \/ Len(t) = Len(chatter) + 1 /\ Len(chatter) < MaxChatter
               \/ Len(t) = MaxChatter
        BY <1>4, <1>6, <3>1, <4>1, LastOfAppend
      <4>3. t \in Seq(Nat) /\ Len(t) <= MaxChatter BY <3>1, <4>2
      <4> QED BY <4>3 DEF t
    <3> QED BY <2>1, <3>2, <3>3
  <2>4. Stream!Kept' = Stream!Kept BY <2>1 DEF Stream!Kept
  <2>5. \A k \in Stream!Kept' : LatestIs(k, latest'[k], frames')
    BY <1>3, <1>6, <1>8, <2>1, <2>4, LatestGrows
  <2>6. SnapshotOK' BY <1>1, <1>2, <1>4, <2>1, <2>2, <2>3, <2>4, <2>5 DEF SnapshotOK
  <2> QED BY <1>3, <2>1, <2>4, <2>6
<1>9. CASE f.class = "state"
  <2> DEFINE K == Stream!Kept \cup {f.key}
  <2>1. f.key \in Keys BY <1>9 DEF Stream!Kinds
  <2>2. /\ UNCHANGED <<streamAlerts, chatter>>
        /\ \/ Cardinality(K) <= MaxLatest /\ latest' = [latest EXCEPT ![f.key] = n]
           \/ \E k \in K : latest' = [[latest EXCEPT ![f.key] = n] EXCEPT ![k] = None]
    BY <1>2, <1>9, SameCount DEF Stream!Record
  <2>3. StreamAlerts(frames') = StreamAlerts(frames) BY <1>3, <1>9, AlertsGrow
  <2>4. IsFiniteSet(Stream!Kept) /\ Cardinality(Stream!Kept) <= MaxLatest BY <1>1 DEF SnapshotOK
  <2>5. IsFiniteSet(K) /\ Cardinality(K) \in Nat /\ MaxLatest \in Nat
        /\ Cardinality(K) <= Cardinality(Stream!Kept) + 1 /\ Cardinality(Stream!Kept) \in Nat
    <3>1. IsFiniteSet(K) /\ Cardinality(K) \in Nat BY <2>4, FS_AddElement, FS_CardinalityType
    <3>2. Cardinality(Stream!Kept) \in Nat BY <2>4, FS_CardinalityType
    <3>3. CASE f.key \in Stream!Kept
      <4>1. K = Stream!Kept BY <3>3
      <4> HIDE DEF K
      <4> QED BY <3>1, <3>2, <4>1 DEF StreamConfigured
    <3>4. CASE f.key \notin Stream!Kept
      <4>1. Cardinality(K) = Cardinality(Stream!Kept) + 1 BY <2>4, <3>4, FS_AddElement
      <4> QED BY <3>1, <3>2, <4>1 DEF StreamConfigured
    <3> QED BY <3>3, <3>4
  <2>6. /\ latest' \in [Keys -> Nat \cup {None}]
        /\ \A k \in Stream!Kept' : \/ k = f.key /\ latest'[k] = n
                                   \/ k # f.key /\ k \in Stream!Kept /\ latest'[k] = latest[k]
        /\ Stream!Kept' \subseteq K
        /\ (\A k \in K : k \in Stream!Kept') => Cardinality(K) <= MaxLatest
    <3>1. \A k \in Stream!Kept : k \in Keys BY DEF Stream!Kept
    <3>2. CASE Cardinality(K) <= MaxLatest /\ latest' = [latest EXCEPT ![f.key] = n]
      <4>1. latest' \in [Keys -> Nat \cup {None}] BY <1>4, <1>6, <2>1, <3>2
      <4>2. \A k \in Keys : latest'[k] = IF k = f.key THEN n ELSE latest[k]
        BY <1>6, <2>1, <3>2
      <4>3. \A k \in Stream!Kept' : k \in Keys /\ latest'[k] # None BY DEF Stream!Kept
      <4>4. \A k \in Keys : latest[k] # None => k \in Stream!Kept BY DEF Stream!Kept
      <4> QED BY <3>2, <4>1, <4>2, <4>3, <4>4
    <3>3. ASSUME NEW e \in K, latest' = [[latest EXCEPT ![f.key] = n] EXCEPT ![e] = None]
          PROVE  /\ latest' \in [Keys -> Nat \cup {None}]
                 /\ \A k \in Stream!Kept' :
                        \/ k = f.key /\ latest'[k] = n
                        \/ k # f.key /\ k \in Stream!Kept /\ latest'[k] = latest[k]
                 /\ Stream!Kept' \subseteq K
                 /\ (\A k \in K : k \in Stream!Kept') => Cardinality(K) <= MaxLatest
      <4>1. latest' \in [Keys -> Nat \cup {None}] BY <1>4, <1>6, <2>1, <3>1, <3>3
      <4>2. \A k \in Keys : latest'[k] = IF k = e THEN None ELSE IF k = f.key THEN n ELSE latest[k]
        BY <1>6, <2>1, <3>1, <3>3
      <4>3. \A k \in Stream!Kept' : k \in Keys /\ latest'[k] # None BY DEF Stream!Kept
      <4>4. \A k \in Keys : latest[k] # None => k \in Stream!Kept BY DEF Stream!Kept
      <4>5. e \notin Stream!Kept' BY <2>1, <3>1, <4>2, <4>3
      <4> QED BY <3>3, <4>1, <4>2, <4>3, <4>4, <4>5
    <3> QED BY <2>2, <3>2, <3>3
  <2> HIDE DEF K
  <2>7. \A k \in Stream!Kept' : LatestIs(k, latest'[k], frames')
    BY <1>3, <1>5, <1>6, <1>9, <2>6, LatestGrows
  <2>8. IsFiniteSet(Stream!Kept') /\ Cardinality(Stream!Kept') <= MaxLatest
    <3>1. IsFiniteSet(Stream!Kept') /\ Cardinality(Stream!Kept') \in Nat
          /\ Cardinality(Stream!Kept') <= Cardinality(K)
      BY <2>5, <2>6, FS_Subset, FS_CardinalityType
    <3>2. CASE Stream!Kept' = K BY <2>5, <2>6, <3>1, <3>2
    <3>3. CASE Stream!Kept' # K
      <4>1. Cardinality(Stream!Kept') # Cardinality(K) BY <2>5, <2>6, <3>3, FS_Subset
      <4> QED BY <2>4, <2>5, <3>1, <4>1
    <3> QED BY <3>2, <3>3
  <2>9. SnapshotOK' BY <1>1, <1>2, <1>4, <1>6, <2>2, <2>3, <2>6, <2>7, <2>8 DEF SnapshotOK
  <2> QED BY <1>3, <1>5, <2>2, <2>6, <2>9
<1>10. f.class = "alert" \/ f.class = "chatter" \/ f.class = "state" BY DEF Stream!Kinds
<1> QED BY <1>7, <1>8, <1>9, <1>10

(* What a connection does leaves the snapshot alone.                       *)
LEMMA SnapshotStays ==
    ASSUME SnapshotOK, UNCHANGED <<frames, streamAlerts, latest, chatter>>, tiered' \in BOOLEAN
    PROVE  SnapshotOK'
<1>1. Stream!Kept' = Stream!Kept BY DEF Stream!Kept
<1>2. HoldsLast(streamAlerts', StreamAlerts(frames'), StreamMaxAlerts)
  BY DEF SnapshotOK
<1> QED BY <1>1, <1>2 DEF SnapshotOK

(* A connection that closes leaves room.                                   *)
LEMMA RoomsStay ==
    ASSUME StreamConfigured, RoomsOK, Connected' \subseteq Connected PROVE RoomsOK'
<1>1. /\ IsFiniteSet(Connected') /\ Cardinality(Connected') <= Cardinality(Connected)
      /\ Cardinality(Connected') \in Nat /\ Cardinality(Connected) \in Nat
  BY FS_Subset, FS_CardinalityType DEF RoomsOK
<1>2. Slots \in Nat /\ Cardinality(Connected) <= Slots BY DEF RoomsOK, StreamConfigured
<1>3. Cardinality(Connected') <= Slots BY <1>1, <1>2
<1> QED BY <1>1, <1>3 DEF RoomsOK

(* What one connection shows and was sent concerns no other.               *)
LEMMA ShowsKept ==
    ASSUME MendsInv, NEW c \in Stream!Clients, UNCHANGED <<streamAlerts, latest>>,
           shows' \in [Stream!Clients -> [Keys -> Nat \cup {None}]],
           (c \in Screens /\ streamConn'[c] = "live") => Current(c)' /\ Alerted(c)',
           \A d \in Stream!Clients \ {c} :
               /\ streamConn'[d] = streamConn[d] /\ streamNext'[d] = streamNext[d]
               /\ sent'[d] = sent[d] /\ told'[d] = told[d] /\ shows'[d] = shows[d]
    PROVE  ShowsOK'
<1>1. Stream!Kept' = Stream!Kept BY DEF Stream!Kept
<1>2. ASSUME NEW d \in Screens, d # c, streamConn'[d] = "live" PROVE Current(d)' /\ Alerted(d)'
  <2>1. d \in Stream!Clients BY DEF Stream!Clients
  <2>2. /\ streamConn'[d] = streamConn[d] /\ streamNext'[d] = streamNext[d]
        /\ sent'[d] = sent[d] /\ told'[d] = told[d] /\ shows'[d] = shows[d]
    BY <1>2, <2>1
  <2>3. Current(d) /\ Alerted(d) BY <1>2, <2>2 DEF MendsInv, ShowsOK
  <2>4. Current(d)' BY <1>1, <2>2, <2>3 DEF Current
  <2>5. Alerted(d)' BY <2>2, <2>3 DEF Alerted
  <2> QED BY <2>4, <2>5
<1> QED BY <1>2 DEF ShowsOK

(* The snapshot sent to a connection brings it up to date.                 *)
LEMMA ReplayMends ==
    ASSUME MendsInv, NEW c \in Stream!Clients, Stream!Replay(c),
           UNCHANGED <<streamAlerts, latest>>,
           told[c] \subseteq told'[c]
    PROVE  /\ shows' \in [Stream!Clients -> [Keys -> Nat \cup {None}]]
           /\ Current(c)' /\ Alerted(c)'
           /\ \A d \in Stream!Clients \ {c} : sent'[d] = sent[d] /\ shows'[d] = shows[d]
<1>1. /\ shows \in [Stream!Clients -> [Keys -> Nat \cup {None}]]
      /\ latest \in [Keys -> Nat \cup {None}]
      /\ sent = [d \in Stream!Clients |-> sent[d]]
  BY DEF MendsInv, ShowsOK, SnapshotOK, StreamInv, StreamFunctions
<1> DEFINE F == Stream!Frames
           S == [k \in Keys |-> Stream!Newest(shows[c][k], k)]
<1>2. sent' = [sent EXCEPT ![c] = @ \cup F] /\ shows' = [shows EXCEPT ![c] = S]
  BY <1>1 DEF Stream!Replay
<1>3. \A i \in 1 .. Len(streamAlerts) : streamAlerts[i] \in F
  <2>1. streamAlerts \in Seq(Nat) BY DEF MendsInv, SnapshotOK, HoldsLast
  <2>2. DOMAIN streamAlerts = 1 .. Len(streamAlerts) BY <2>1
  <2> QED BY <2>2 DEF Stream!Frames, Stream!Range
<1>4. S \in [Keys -> Nat \cup {None}] BY <1>1 DEF Stream!Newest
<1>5. \A k \in Stream!Kept : k \in Keys /\ S[k] = latest[k] BY DEF Stream!Newest, Stream!Kept
<1> HIDE DEF F, S
<1>6. /\ sent'[c] = sent[c] \cup F /\ shows'[c] = S
      /\ \A d \in Stream!Clients \ {c} : sent'[d] = sent[d] /\ shows'[d] = shows[d]
  BY <1>1, <1>2
<1>7. shows' \in [Stream!Clients -> [Keys -> Nat \cup {None}]] BY <1>1, <1>2, <1>4
<1>8. Stream!Kept' = Stream!Kept BY DEF Stream!Kept
<1>9. Current(c)' BY <1>5, <1>6, <1>8 DEF Current
<1>10. Alerted(c)' BY <1>3, <1>6 DEF Alerted
<1> QED BY <1>6, <1>7, <1>9, <1>10

(* A frame is published: no receiver is behind it yet.                     *)
LEMMA PublishMends ==
    ASSUME StreamConfigured, MendsInv, NEW f \in Stream!Kinds, Publishes(f)
    PROVE  SnapshotOK' /\ RoomsOK' /\ ShowsOK'
<1>1. /\ SnapshotOK'
      /\ Grown(frames, f, frames')
      /\ \A k \in Stream!Kept' : \/ latest'[k] = Len(frames) + 1
                                 \/ k \in Stream!Kept /\ latest'[k] = latest[k]
      /\ \A i \in 1 .. Len(streamAlerts') :
             \/ streamAlerts'[i] = Len(frames) + 1
             \/ \E j \in 1 .. Len(streamAlerts) : streamAlerts'[i] = streamAlerts[j]
  BY RecordKeeps
<1>2. UNCHANGED <<streamConn, streamNext, sent, told, shows>>
  BY DEF Publishes, Stream!Publish, Stream!client
<1>3. RoomsOK' BY <1>2 DEF MendsInv, RoomsOK, Connected
<1>4. ASSUME NEW c \in Screens, streamConn'[c] = "live" PROVE Current(c)' /\ Alerted(c)'
  <2>1. c \in Stream!Clients BY DEF Stream!Clients
  <2>2. Current(c) /\ Alerted(c) BY <1>2, <1>4 DEF MendsInv, ShowsOK
  <2>3. StreamPlaced(c) BY <2>1 DEF MendsInv, StreamInv
  <2>4. streamNext[c] \in Nat /\ streamNext[c] <= Len(frames) + 1 /\ Len(frames) \in Nat
    BY <1>1, <2>3 DEF StreamPlaced, Stream!Published, Grown
  <2>5. ~(Len(frames) + 1 < streamNext[c]) /\ Len(frames) + 1 >= streamNext[c] BY <2>4
  <2>6. Current(c)'
    <3> SUFFICES ASSUME NEW k \in Stream!Kept', latest'[k] < streamNext[c]
                 PROVE  shows[c][k] = latest'[k]
      BY <1>2 DEF Current
    <3>1. k \in Stream!Kept /\ latest'[k] = latest[k] BY <1>1, <2>5
    <3> QED BY <2>2, <3>1 DEF Current
  <2>7. Alerted(c)'
    <3> SUFFICES ASSUME NEW i \in 1 .. Len(streamAlerts')
                 PROVE  \/ streamAlerts'[i] \in sent[c] \cup told[c]
                        \/ streamAlerts'[i] >= streamNext[c]
      BY <1>2 DEF Alerted
    <3> QED BY <1>1, <2>2, <2>5 DEF Alerted
  <2> QED BY <2>6, <2>7
<1>5. ShowsOK' BY <1>2, <1>4 DEF ShowsOK, MendsInv
<1> QED BY <1>1, <1>3, <1>5

(* A screen reads a frame: it shows what it is delivered.                  *)
LEMMA ReceiveMends ==
    ASSUME StreamConfigured, MendsInv, NEW c \in Stream!Clients, Stream!Receive(c)
    PROVE  SnapshotOK' /\ RoomsOK' /\ ShowsOK'
<1> DEFINE i == streamNext[c]
<1>1. /\ streamConn[c] = "live" /\ i <= Stream!Published
      /\ streamNext' = [streamNext EXCEPT ![c] = i + 1]
      /\ UNCHANGED <<frames, streamAlerts, latest, chatter, tiered, streamConn, told>>
      /\ \/ /\ Stream!Delivers(c, i) /\ sent' = [sent EXCEPT ![c] = @ \cup {i}]
            /\ shows' = IF frames[i].class = "state"
                        THEN [shows EXCEPT ![c][frames[i].key] = i] ELSE shows
         \/ ~Stream!Delivers(c, i) /\ sent' = sent /\ shows' = shows
  BY DEF Stream!Receive, Stream!stream, Stream!snapshot
<1>2. /\ StreamFunctions /\ StreamPlaced(c) /\ frames \in Seq(Stream!Kinds)
      /\ SnapshotOK /\ RoomsOK /\ ShowsOK
  BY DEF MendsInv, StreamInv
<1>3. i \in 1 .. Len(frames) /\ i \in Nat
  BY <1>1, <1>2 DEF StreamPlaced, Stream!Published
<1> HIDE DEF i
<1>4. i = streamNext[c] /\ streamNext'[c] = i + 1
      /\ \A d \in Stream!Clients \ {c} : streamNext'[d] = streamNext[d]
  BY <1>1, <1>2 DEF i, StreamFunctions
<1>5. frames[i] \in Stream!Kinds BY <1>2, <1>3
<1>6. shows \in [Stream!Clients -> [Keys -> Nat \cup {None}]] BY <1>2 DEF ShowsOK
<1>7. /\ shows' \in [Stream!Clients -> [Keys -> Nat \cup {None}]]
      /\ \A d \in Stream!Clients \ {c} : sent'[d] = sent[d] /\ shows'[d] = shows[d]
      /\ sent[c] \subseteq sent'[c]
      /\ Stream!Delivers(c, i) => i \in sent'[c]
      /\ \A k \in Keys :
             shows'[c][k] = IF /\ Stream!Delivers(c, i)
                               /\ frames[i].class = "state" /\ frames[i].key = k
                            THEN i ELSE shows[c][k]
  <2>1. sent = [d \in Stream!Clients |-> sent[d]] BY <1>2 DEF StreamFunctions
  <2>2. CASE ~Stream!Delivers(c, i) /\ sent' = sent /\ shows' = shows
    BY <1>6, <2>2
  <2>3. CASE /\ Stream!Delivers(c, i) /\ sent' = [sent EXCEPT ![c] = @ \cup {i}]
             /\ shows' = IF frames[i].class = "state"
                         THEN [shows EXCEPT ![c][frames[i].key] = i] ELSE shows
    <3>1. /\ \A d \in Stream!Clients \ {c} : sent'[d] = sent[d]
          /\ sent'[c] = sent[c] \cup {i}
      BY <2>1, <2>3
    <3>2. CASE frames[i].class = "state"
      <4> DEFINE k0 == frames[i].key
      <4>1. k0 \in Keys /\ shows' = [shows EXCEPT ![c][k0] = i]
        BY <1>5, <2>3, <3>2 DEF Stream!Kinds
      <4> HIDE DEF k0
      <4>2. /\ shows' \in [Stream!Clients -> [Keys -> Nat \cup {None}]]
            /\ \A d \in Stream!Clients \ {c} : shows'[d] = shows[d]
            /\ \A k \in Keys : shows'[c][k] = IF k0 = k THEN i ELSE shows[c][k]
        BY <1>3, <1>6, <4>1
      <4> QED BY <2>3, <3>1, <3>2, <4>2 DEF k0
    <3>3. CASE frames[i].class # "state" BY <1>6, <2>3, <3>1, <3>3
    <3> QED BY <3>2, <3>3
  <2> QED BY <1>1, <2>2, <2>3
<1>8. ASSUME c \in Screens PROVE Current(c)' /\ Alerted(c)'
  <2>1. Current(c) /\ Alerted(c) BY <1>1, <1>2, <1>8 DEF ShowsOK
  <2>2. Stream!Kept' = Stream!Kept BY <1>1 DEF Stream!Kept
  <2>3. Current(c)'
    <3> SUFFICES ASSUME NEW k \in Stream!Kept, latest[k] < i + 1
                 PROVE  shows'[c][k] = latest[k]
      BY <1>1, <1>4, <2>2 DEF Current
    <3>1. k \in Keys BY DEF Stream!Kept
    <3>2. /\ latest[k] \in 1 .. Len(frames)
          /\ frames[latest[k]].class = "state" /\ frames[latest[k]].key = k
          /\ (frames[i].class = "state" /\ frames[i].key = k) => i <= latest[k]
      BY <1>2, <1>3 DEF SnapshotOK, LatestIs
    <3>3. CASE latest[k] = i
      <4>1. Stream!Delivers(c, i) BY <3>2, <3>3 DEF Stream!Delivers, Stream!UiDelivers
      <4> QED BY <1>7, <3>1, <3>2, <3>3, <4>1
    <3>4. CASE latest[k] # i
      <4>1. latest[k] < i BY <1>3, <3>2, <3>4
      <4>2. ~(frames[i].class = "state" /\ frames[i].key = k) BY <1>3, <3>2, <4>1
      <4> QED BY <1>4, <1>7, <2>1, <3>1, <4>1, <4>2 DEF Current
    <3> QED BY <3>3, <3>4
  <2>4. Alerted(c)'
    <3> SUFFICES ASSUME NEW j \in 1 .. Len(streamAlerts)
                 PROVE  streamAlerts[j] \in sent'[c] \cup told[c] \/ streamAlerts[j] >= i + 1
      BY <1>1, <1>4 DEF Alerted
    <3>1. streamAlerts[j] \in Nat /\ frames[streamAlerts[j]].class = "alert"
      BY <1>2 DEF SnapshotOK, HoldsLast, StreamAlerts
    <3>2. streamAlerts[j] \in sent[c] \cup told[c] \/ streamAlerts[j] >= i
      BY <1>4, <2>1 DEF Alerted
    <3>3. CASE streamAlerts[j] = i
      <4>1. Stream!Delivers(c, i) BY <3>1, <3>3 DEF Stream!Delivers, Stream!UiDelivers
      <4> QED BY <1>7, <3>3, <4>1
    <3>4. CASE streamAlerts[j] # i BY <1>3, <1>7, <3>1, <3>2, <3>4
    <3> QED BY <3>3, <3>4
  <2> QED BY <2>3, <2>4
<1>9. SnapshotOK' BY <1>1, <1>2, SnapshotStays DEF SnapshotOK
<1>10. RoomsOK' BY <1>1, <1>2 DEF RoomsOK, Connected
<1>11. ShowsOK' BY <1>1, <1>4, <1>7, <1>8, ShowsKept
<1> QED BY <1>9, <1>10, <1>11

(* A connection is accepted while there is room.                           *)
LEMMA AcceptMends ==
    ASSUME StreamConfigured, MendsInv, NEW c \in Stream!Clients, Stream!Accept(c)
    PROVE  SnapshotOK' /\ RoomsOK' /\ ShowsOK'
<1>1. /\ streamConn[c] = "closed" /\ Cardinality(Connected) < Slots
      /\ streamConn' = [streamConn EXCEPT ![c] = "hello"]
      /\ streamNext' = [streamNext EXCEPT ![c] = Stream!Published + 1]
      /\ UNCHANGED <<frames, streamAlerts, latest, chatter, tiered, sent, told, shows>>
  BY SameCount DEF Stream!Accept, Stream!stream, Stream!snapshot, Connected
<1>2. StreamFunctions /\ SnapshotOK /\ RoomsOK /\ ShowsOK BY DEF MendsInv, StreamInv
<1>3. /\ streamConn'[c] = "hello"
      /\ \A d \in Stream!Clients \ {c} :
             streamConn'[d] = streamConn[d] /\ streamNext'[d] = streamNext[d]
  BY <1>1, <1>2 DEF StreamFunctions
<1>4. RoomsOK'
  <2>1. Connected' = Connected \cup {c} BY <1>3 DEF Connected
  <2>2. IsFiniteSet(Connected) /\ c \notin Connected BY <1>1, <1>2 DEF RoomsOK, Connected
  <2>3. IsFiniteSet(Connected') /\ Cardinality(Connected') = Cardinality(Connected) + 1
    BY <2>1, <2>2, FS_AddElement
  <2>4. Cardinality(Connected) \in Nat /\ Slots \in Nat
    BY <2>2, FS_CardinalityType DEF StreamConfigured
  <2>5. Cardinality(Connected') <= Slots BY <1>1, <2>3, <2>4
  <2> QED BY <2>3, <2>5 DEF RoomsOK
<1>5. SnapshotOK' BY <1>1, <1>2, SnapshotStays DEF SnapshotOK
<1>6. ShowsOK'
  <2>1. shows' \in [Stream!Clients -> [Keys -> Nat \cup {None}]] BY <1>1, <1>2 DEF ShowsOK
  <2> QED BY <1>1, <1>3, <2>1, ShowsKept
<1> QED BY <1>4, <1>5, <1>6

(* The hello is said, and a screen is sent the snapshot.                   *)
LEMMA HelloMends ==
    ASSUME StreamConfigured, MendsInv, NEW c \in Stream!Clients, Stream!Hello(c)
    PROVE  SnapshotOK' /\ RoomsOK' /\ ShowsOK'
<1>1. /\ streamConn[c] = "hello" /\ streamConn' = [streamConn EXCEPT ![c] = "live"]
      /\ UNCHANGED <<frames, streamAlerts, latest, chatter, tiered, streamNext, told>>
      /\ \/ c \in Screens /\ Stream!Replay(c)
         \/ c \in Traders /\ UNCHANGED <<sent, shows>>
  BY DEF Stream!Hello, Stream!stream, Stream!snapshot
<1>2. StreamFunctions /\ SnapshotOK /\ RoomsOK /\ ShowsOK BY DEF MendsInv, StreamInv
<1>3. /\ \A d \in Stream!Clients \ {c} : streamConn'[d] = streamConn[d]
      /\ streamConn'[c] = "live"
  BY <1>1, <1>2 DEF StreamFunctions
<1>4. RoomsOK'
  <2>1. Connected' \subseteq Connected BY <1>1, <1>3 DEF Connected
  <2> QED BY <1>2, <2>1, RoomsStay
<1>5. SnapshotOK' BY <1>1, <1>2, SnapshotStays DEF SnapshotOK
<1>6. CASE c \in Screens /\ Stream!Replay(c)
  <2>1. /\ shows' \in [Stream!Clients -> [Keys -> Nat \cup {None}]]
        /\ Current(c)' /\ Alerted(c)'
        /\ \A d \in Stream!Clients \ {c} : sent'[d] = sent[d] /\ shows'[d] = shows[d]
    BY <1>1, <1>6, ReplayMends
  <2>2. ShowsOK' BY <1>1, <1>3, <2>1, ShowsKept
  <2> QED BY <1>4, <1>5, <2>2
<1>7. CASE c \in Traders /\ UNCHANGED <<sent, shows>> /\ c \notin Screens
  <2>1. shows' \in [Stream!Clients -> [Keys -> Nat \cup {None}]] BY <1>2, <1>7 DEF ShowsOK
  <2>2. ShowsOK' BY <1>1, <1>3, <1>7, <2>1, ShowsKept
  <2> QED BY <1>4, <1>5, <2>2
<1> QED BY <1>1, <1>6, <1>7 DEF StreamConfigured

(* A connection that ends shows nothing.                                   *)
LEMMA CloseMends ==
    ASSUME StreamConfigured, MendsInv, NEW c \in Stream!Clients, Stream!Disconnect(c),
           UNCHANGED <<frames, streamAlerts, latest, chatter, tiered>>
    PROVE  SnapshotOK' /\ RoomsOK' /\ ShowsOK'
<1>1. StreamFunctions /\ SnapshotOK /\ RoomsOK /\ ShowsOK BY DEF MendsInv, StreamInv
<1>2. /\ streamConn'[c] = "closed"
      /\ \A d \in Stream!Clients \ {c} :
             /\ streamConn'[d] = streamConn[d] /\ streamNext'[d] = streamNext[d]
             /\ sent'[d] = sent[d] /\ told'[d] = told[d]
  BY <1>1 DEF Stream!Disconnect, StreamFunctions
<1>3. /\ shows' \in [Stream!Clients -> [Keys -> Nat \cup {None}]]
      /\ \A d \in Stream!Clients \ {c} : shows'[d] = shows[d]
  <2> DEFINE S == [k \in Keys |-> None]
  <2>1. S \in [Keys -> Nat \cup {None}] /\ shows' = [shows EXCEPT ![c] = S]
    BY DEF Stream!Disconnect
  <2> HIDE DEF S
  <2> QED BY <1>1, <2>1 DEF ShowsOK
<1>4. RoomsOK'
  <2>1. Connected' \subseteq Connected BY <1>2 DEF Connected
  <2> QED BY <1>1, <2>1, RoomsStay
<1>5. SnapshotOK' BY <1>1, SnapshotStays DEF SnapshotOK
<1>6. ShowsOK' BY <1>2, <1>3, ShowsKept
<1> QED BY <1>4, <1>5, <1>6

(* A screen that was overtaken is told, and sent the snapshot.             *)
LEMMA LagMends ==
    ASSUME StreamConfigured, MendsInv, NEW c \in Stream!Clients, Stream!Lag(c)
    PROVE  SnapshotOK' /\ RoomsOK' /\ ShowsOK'
<1>1. UNCHANGED <<frames, streamAlerts, latest, chatter, tiered>>
  BY DEF Stream!Lag, Stream!LagWith, Stream!stream, Stream!snapshot
<1>2. CASE Stream!Disconnect(c) BY <1>1, <1>2, CloseMends
<1>3. CASE /\ told' = [told EXCEPT ![c] = @ \cup Stream!Skipped(c)]
           /\ streamNext' = [streamNext EXCEPT ![c] = Stream!Oldest]
           /\ Stream!Replay(c)
           /\ UNCHANGED <<streamConn, start>>
  <2>1. StreamFunctions /\ SnapshotOK /\ RoomsOK /\ ShowsOK BY DEF MendsInv, StreamInv
  <2> DEFINE S == Stream!Skipped(c)
             N == Stream!Oldest
  <2>2. told' = [told EXCEPT ![c] = @ \cup S] /\ streamNext' = [streamNext EXCEPT ![c] = N]
    BY <1>3
  <2> HIDE DEF S, N
  <2>3. /\ told[c] \subseteq told'[c]
        /\ \A d \in Stream!Clients \ {c} : told'[d] = told[d] /\ streamNext'[d] = streamNext[d]
    BY <2>1, <2>2 DEF StreamFunctions
  <2>4. /\ shows' \in [Stream!Clients -> [Keys -> Nat \cup {None}]]
        /\ Current(c)' /\ Alerted(c)'
        /\ \A d \in Stream!Clients \ {c} : sent'[d] = sent[d] /\ shows'[d] = shows[d]
    BY <1>1, <1>3, <2>3, ReplayMends
  <2>5. ShowsOK' BY <1>1, <1>3, <2>3, <2>4, ShowsKept
  <2>6. RoomsOK' BY <1>3, <2>1 DEF RoomsOK, Connected
  <2>7. SnapshotOK' BY <1>1, <2>1, SnapshotStays DEF SnapshotOK
  <2> QED BY <2>5, <2>6, <2>7
<1> QED BY <1>2, <1>3 DEF Stream!Lag, Stream!LagWith, Stream!stream

(* Every step of the stream keeps the invariant.                           *)
LEMMA MendsStepKeeps ==
    ASSUME StreamConfigured, MendsInv, [Stream!Next]_(Stream!vars) PROVE MendsInv'
<1>1. EventsInv' /\ StreamInv' BY StreamStepKeeps, EventsStepKeeps DEF MendsInv
<1> SUFFICES SnapshotOK' /\ RoomsOK' /\ ShowsOK' BY <1>1 DEF MendsInv
<1>2. CASE Stream!Publish BY <1>2, PublishOf, PublishMends DEF MendsInv
<1>3. CASE \/ Stream!SetTiered \/ UNCHANGED Stream!vars \/ Stream!CollectorLag
           \/ \E f \in Stream!Kinds : Stream!Send(f)
  <2>1. /\ UNCHANGED <<frames, streamAlerts, latest, chatter, streamConn, streamNext, sent,
                       told, shows>>
        /\ tiered' = ~tiered \/ tiered' = tiered
    BY <1>3 DEF Stream!SetTiered, Stream!CollectorLag, Stream!Send, Stream!vars, Stream!stream, Stream!client, Stream!snapshot
  <2>2. SnapshotOK /\ RoomsOK /\ ShowsOK BY DEF MendsInv
  <2>3. SnapshotOK' BY <2>1, <2>2, SnapshotStays DEF SnapshotOK
  <2>4. RoomsOK' BY <2>1, <2>2 DEF RoomsOK, Connected
  <2>5. ShowsOK' BY <2>1, <2>2 DEF ShowsOK, Current, Alerted, Stream!Kept
  <2> QED BY <2>3, <2>4, <2>5
<1>4. ASSUME NEW c \in Stream!Clients, Stream!Accept(c)
      PROVE  SnapshotOK' /\ RoomsOK' /\ ShowsOK'
  BY <1>4, AcceptMends
<1>5. ASSUME NEW c \in Stream!Clients, Stream!Hello(c)
      PROVE  SnapshotOK' /\ RoomsOK' /\ ShowsOK'
  BY <1>5, HelloMends
<1>6. ASSUME NEW c \in Stream!Clients, Stream!Receive(c)
      PROVE  SnapshotOK' /\ RoomsOK' /\ ShowsOK'
  BY <1>6, ReceiveMends
<1>7. ASSUME NEW c \in Stream!Clients, Stream!Lag(c)
      PROVE  SnapshotOK' /\ RoomsOK' /\ ShowsOK'
  BY <1>7, LagMends
<1>8. ASSUME NEW c \in Stream!Clients, Stream!Leave(c)
      PROVE  SnapshotOK' /\ RoomsOK' /\ ShowsOK'
  <2>1. Stream!Disconnect(c) /\ UNCHANGED <<frames, streamAlerts, latest, chatter, tiered>>
    BY <1>8 DEF Stream!Leave, Stream!stream, Stream!snapshot
  <2> QED BY <2>1, CloseMends
<1> QED BY <1>2, <1>3, <1>4, <1>5, <1>6, <1>7, <1>8 DEF Stream!Next

(* The invariant says that a gap is mended.                                *)
LEMMA MendsSafe == ASSUME StreamConfigured, MendsInv PROVE StreamMends
<1>1. StreamInv /\ SnapshotOK /\ RoomsOK /\ ShowsOK BY DEF MendsInv
<1>2. Len(frames) \in Nat /\ frames \in Seq(Stream!Kinds) BY <1>1 DEF StreamInv
<1>3. ASSUME NEW c \in Stream!Clients
      PROVE start[c] <= streamNext[c] /\ streamNext[c] <= Len(frames) + 1
  BY <1>1 DEF StreamInv, StreamPlaced, Stream!Published
<1>4. Stream!TypeOK
  <2>1. \A i \in 1 .. Len(frames) : frames[i] \in Stream!Kinds BY <1>2
  <2>2. streamConn \in [Stream!Clients -> {"closed", "hello", "live"}]
    BY <1>1 DEF StreamInv, StreamFunctions
  <2>3. Cardinality(Stream!Kept) <= MaxLatest BY <1>1 DEF SnapshotOK
  <2>4. Cardinality({d \in Stream!Clients : streamConn[d] # "closed"}) <= Slots
    BY <1>1 DEF RoomsOK, Connected
  <2>5. Len(streamAlerts) <= StreamMaxAlerts BY <1>1 DEF SnapshotOK, HoldsLast
  <2>6. Len(chatter) <= MaxChatter /\ tiered \in BOOLEAN
    BY <1>1 DEF SnapshotOK
  <2>7. Len(scanned) <= MaxEvents /\ Len(frames) < streamRead
    BY DEF MendsInv, EventsInv
  <2> QED BY <1>3, <2>1, <2>2, <2>3, <2>4, <2>5, <2>6, <2>7, SameCount
          DEF Stream!TypeOK, Stream!Published
<1>5. Stream!CaughtUpIsCurrent
  <2> SUFFICES ASSUME NEW c \in Screens, streamConn[c] = "live",
                      streamNext[c] = Len(frames) + 1, NEW k \in Stream!Kept
               PROVE  shows[c][k] = latest[k]
    BY DEF Stream!CaughtUpIsCurrent, Stream!Published
  <2>1. Current(c) BY <1>1 DEF ShowsOK
  <2>2. latest[k] \in 1 .. Len(frames) BY <1>1 DEF SnapshotOK, LatestIs
  <2>3. latest[k] < streamNext[c] BY <1>2, <2>2
  <2> QED BY <2>1, <2>3 DEF Current
<1>6. Stream!AlertsSurviveChatter
  <2> SUFFICES ASSUME NEW c \in Screens, streamConn[c] = "live",
                      NEW i \in 1 .. Len(frames), Stream!Recent(i)
               PROVE  i \in sent[c] \cup told[c] \/ i >= streamNext[c]
    BY DEF Stream!AlertsSurviveChatter, Stream!Published
  <2> DEFINE A == StreamAlerts(frames)
  <2>1. A \subseteq Nat /\ IsFiniteSet(A)
    <3>1. A \subseteq 1 .. Len(frames) BY DEF StreamAlerts
    <3>2. IsFiniteSet(1 .. Len(frames)) BY <1>2, FS_Interval
    <3> QED BY <3>1, <3>2, FS_Subset
  <2>2. i \in A BY DEF Stream!Recent, Stream!IsAlert, StreamAlerts
  <2>3. {j \in 1 .. Len(frames) : Stream!IsAlert(j) /\ j > i} = {z \in A : z > i}
    BY DEF Stream!IsAlert, StreamAlerts
  <2>4. Cardinality({z \in A : z > i}) < StreamMaxAlerts
    BY <2>3, SameCount DEF Stream!Recent, Stream!Published
  <2>5. HoldsLast(streamAlerts, A, StreamMaxAlerts) BY <1>1 DEF SnapshotOK
  <2> HIDE DEF A
  <2>6. PICK n \in 1 .. Len(streamAlerts) : streamAlerts[n] = i
    BY <2>1, <2>2, <2>4, <2>5, RecentIsHeld DEF StreamConfigured
  <2>7. Alerted(c) BY <1>1 DEF ShowsOK
  <2> QED BY <2>6, <2>7 DEF Alerted
<1> QED BY <1>4, <1>5, <1>6 DEF StreamMends

(* After a gap, and through the snapshot that mends it, a screen that has  *)
(* read everything shows the newest state of every key that is kept, and   *)
(* no flood of unconfirmed ignition pushes an alert out of the replay.     *)
THEOREM StreamMendsAlways == ServicesSpec => []StreamMends
<1>1. StreamConfigured BY StreamAssumption, NoneAssumption DEF StreamConfigured
<1>2. ServicesInit => MendsInv BY <1>1, MendsInit DEF ServicesInit
<1>3. MendsInv /\ [ServicesNext]_servicesVars => MendsInv'
  BY <1>1, StepStream, MendsStepKeeps
<1>4. MendsInv => StreamMends BY <1>1, MendsSafe
<1> QED BY <1>2, <1>3, <1>4, PTL DEF ServicesSpec

-----------------------------------------------------------------------------
(***************************************************************************)
(* The halt log: the marks of a symbol tell its day in order, and every    *)
(* status is a mark or a count.                                            *)
(***************************************************************************)

(* A market day has a length, a symbol keeps at least one mark, and None   *)
(* is no day, no time and no kind of mark.                                 *)
HaltsConfigured ==
    /\ IsFiniteSet(HaltsSymbols)
    /\ HaltsDayLen \in Nat \ {0} /\ MaxMarks \in Nat \ {0}
    /\ HaltsMaxTime \in Nat /\ MaxStatuses \in Nat
    /\ None \notin Int /\ None # "Halted"

(* The counters are finitely many.                                         *)
LEMMA CountersFinite == IsFiniteSet(Halts!Counters)
<1>1. IsFiniteSet({}) BY FS_EmptySet
<1>2. IsFiniteSet({} \cup {"repeated"}) BY <1>1, FS_AddElement
<1>3. IsFiniteSet(({} \cup {"repeated"}) \cup {"unmatched"}) BY <1>2, FS_AddElement
<1>4. IsFiniteSet((({} \cup {"repeated"}) \cup {"unmatched"}) \cup {"rejected"})
  BY <1>3, FS_AddElement
<1>5. IsFiniteSet(((({} \cup {"repeated"}) \cup {"unmatched"}) \cup {"rejected"})
                  \cup {"disorder"})
  BY <1>4, FS_AddElement
<1>6. IsFiniteSet((((({} \cup {"repeated"}) \cup {"unmatched"}) \cup {"rejected"})
                  \cup {"disorder"}) \cup {"noSymbol"})
  BY <1>5, FS_AddElement
<1>7. IsFiniteSet(((((({} \cup {"repeated"}) \cup {"unmatched"}) \cup {"rejected"})
                  \cup {"disorder"}) \cup {"noSymbol"}) \cup {"silent"})
  BY <1>6, FS_AddElement
<1>8. Halts!Counters = (((((({} \cup {"repeated"}) \cup {"unmatched"}) \cup {"rejected"})
                  \cup {"disorder"}) \cup {"noSymbol"}) \cup {"silent"})
  BY DEF Halts!Counters
<1> QED BY <1>7, <1>8

(* The fold of a function with + is the total of its values.               *)
LEMMA FoldIsTotal ==
    ASSUME NEW f, IsFiniteSet(DOMAIN f)
    PROVE  Halts!FoldFunction(+, 0, f) = Total(f, DOMAIN f)
<1> DEFINE S == DOMAIN f
           Step(g, s) == IF s = {} THEN 0
                         ELSE LET x == CHOOSE x \in s : TRUE IN f[x] + g[s \ {x}]
           Solves(g) == g = [s \in SUBSET S |-> Step(g, s)]
           h == CHOOSE g : Solves(g)
<1>1. Halts!FoldFunction(+, 0, f) = h[S]
  BY DEF Halts!FoldFunction, Halts!FoldFunctionOnSet, Halts!MapThenFoldSet
<1>2. \A g : Solves(g) <=> SumsOver(g, f, S)
  <2>1. ASSUME NEW g, NEW s PROVE Adds(g, f, s) = Step(g, s) BY Zenon DEF Adds, Pick
  <2> HIDE DEF Step
  <2> QED BY <2>1, Zenon DEF SumsOver
<1> HIDE DEF Solves
<1>3. SumsOver(h, f, S)
  <2>1. \E g : Solves(g) BY <1>2, SumsExist
  <2>2. Solves(h) BY <2>1, Zenon
  <2> QED BY <1>2, <2>2, Zenon
<1> HIDE DEF h
<1> QED BY <1>1, <1>3, TotalSums

(* A total of naturals is at least each of them.                           *)
LEMMA TotalHolds ==
    ASSUME NEW S, IsFiniteSet(S), NEW f, \A x \in S : f[x] \in Nat
    PROVE  Total(f, S) \in Nat /\ \A y \in S : f[y] <= Total(f, S)
<1> DEFINE Q == {T \in SUBSET S : Total(f, T) \in Nat}
<1>1. {} \in Q BY TotalEmpty
<1>2. ASSUME NEW T \in SUBSET S, NEW x \in S \ T, T \in Q PROVE T \cup {x} \in Q
  <2> DEFINE U == T \cup {x}
  <2>1. IsFiniteSet(U) BY FS_Subset
  <2>2. \A y \in U : f[y] \in Int OBVIOUS
  <2>3. x \in U /\ U \ {x} = T OBVIOUS
  <2>4. U \in SUBSET S OBVIOUS
  <2> HIDE DEF U
  <2>5. Total(f, U) = f[x] + Total(f, T) BY <2>1, <2>2, <2>3, TotalTake
  <2>6. Total(f, U) \in Nat BY <1>2, <2>5
  <2> QED BY <2>4, <2>6 DEF U
<1>3. S \in Q
  <2> HIDE DEF Q
  <2> QED BY <1>1, <1>2, EveryFinite
<1>4. ASSUME NEW y \in S PROVE f[y] <= Total(f, S)
  <2> DEFINE T == S \ {y}
  <2>1. T \in Q
    <3>1. IsFiniteSet(T) BY FS_Subset
    <3>2. ASSUME NEW V \in SUBSET T, NEW x \in T \ V, V \in Q PROVE V \cup {x} \in Q
      BY <1>2, <3>2
    <3> HIDE DEF Q, T
    <3> QED BY <1>1, <3>1, <3>2, EveryFinite
  <2>2. Total(f, S) = f[y] + Total(f, T) BY TotalTake
  <2>3. Total(f, T) \in Nat BY <2>1
  <2> HIDE DEF T
  <2> QED BY <2>2, <2>3
<1> QED BY <1>3, <1>4

-----------------------------------------------------------------------------
(* The log as one record, and its type.                                    *)
HaltsLog == [day |-> haltsDay, marks |-> marks, lost |-> haltsLost, since |-> since,
             count |-> count, offered |-> offered, marked |-> marked]
HaltsLogs == [day : {None} \cup Halts!Days, marks : [HaltsSymbols -> Seq(Halts!Mark)],
              lost : [HaltsSymbols -> Nat], since : {None} \cup Halts!Times,
              count : [Halts!Counters -> Nat], offered : Nat, marked : Nat]

(* A list of marks of day d, none before from, in order, halts and resumes *)
(* in turn.                                                                *)
TellsDay(q, d, from) ==
    /\ \A i \in 1 .. Len(q) : Halts!MarketDay(q[i].at) = d /\ from # None /\ from <= q[i].at
    /\ \A i \in 1 .. Len(q) - 1 : q[i].at <= q[i + 1].at /\ q[i].kind # q[i + 1].kind
TellsIt(l, s) ==
    /\ Len(l.marks[s]) <= MaxMarks
    /\ TellsDay(l.marks[s], l.day, l.since)
    /\ (l.marks[s] # <<>> /\ l.lost[s] = 0) => l.marks[s][1].kind = "Halted"

(* The marks ever made, per symbol.                                        *)
Made(l) == [s \in HaltsSymbols |-> Len(l.marks[s]) + l.lost[s]]

(* A log that is in order and accounts for all but owed of its statuses.   *)
Accounts(l, owed) ==
    /\ l \in HaltsLogs
    /\ \A s \in HaltsSymbols : TellsIt(l, s)
    /\ l.offered <= MaxStatuses
    /\ l.offered = l.marked + Total(l.count, Halts!Counters) + owed
    /\ l.marked = Total(Made(l), HaltsSymbols)

HaltsInv == Accounts(HaltsLog, 0)

(* An empty log of any day accounts for everything.                        *)
LEMMA EmptyAccounts ==
    ASSUME HaltsConfigured, NEW d \in {None} \cup Halts!Days
    PROVE  Accounts([day |-> d, marks |-> Halts!NoMarks, lost |-> Halts!NothingLost,
                     since |-> None, count |-> Halts!NoCounts, offered |-> 0, marked |-> 0], 0)
<1> DEFINE l == [day |-> d, marks |-> Halts!NoMarks, lost |-> Halts!NothingLost,
                 since |-> None, count |-> Halts!NoCounts, offered |-> 0, marked |-> 0]
<1>1. <<>> \in Seq(Halts!Mark) /\ Len(<<>>) = 0 OBVIOUS
<1>2. l \in HaltsLogs
  BY <1>1 DEF HaltsLogs, Halts!NoMarks, Halts!NothingLost, Halts!NoCounts
<1>3. l.count = Halts!NoCounts /\ l.marks = Halts!NoMarks /\ l.lost = Halts!NothingLost
  OBVIOUS
<1>4. l.offered = 0 /\ l.marked = 0 OBVIOUS
<1> HIDE DEF l
<1>5. ASSUME NEW s \in HaltsSymbols
      PROVE  l.marks[s] = <<>> /\ Made(l)[s] = 0
  <2>1. l.marks[s] = <<>> /\ l.lost[s] = 0 BY <1>3 DEF Halts!NoMarks, Halts!NothingLost
  <2> QED BY <1>1, <2>1 DEF Made
<1>6. ASSUME NEW s \in HaltsSymbols PROVE TellsIt(l, s)
  BY <1>1, <1>5 DEF TellsIt, TellsDay, HaltsConfigured
<1>7. ASSUME NEW S, IsFiniteSet(S), NEW f, \A x \in S : f[x] = 0 PROVE Total(f, S) = 0
  <2>1. Total(f, S) = Total(f, {})
    <3>1. {} \subseteq S /\ (\A x \in S : f[x] \in Int) /\ (\A x \in {} : f[x] = f[x])
      BY <1>7
    <3>2. \A x \in S : f[x] = IF x \in {} THEN f[x] ELSE 0 BY <1>7
    <3> QED BY <1>7, <3>1, <3>2, TotalFilter
  <2> QED BY <2>1, TotalEmpty
<1>8. Total(l.count, Halts!Counters) = 0
  <2>1. \A c \in Halts!Counters : l.count[c] = 0 BY <1>3 DEF Halts!NoCounts
  <2> QED BY <1>7, <2>1, CountersFinite
<1>9. Total(Made(l), HaltsSymbols) = 0 BY <1>5, <1>7 DEF HaltsConfigured
<1>10. MaxStatuses \in Nat BY DEF HaltsConfigured
<1>11. Accounts(l, 0) BY <1>2, <1>4, <1>6, <1>8, <1>9, <1>10 DEF Accounts
<1> QED BY <1>11 DEF l

(* A quotient of naturals grows with its numerator.                        *)
LEMMA QuotientGrows ==
    ASSUME NEW a \in Nat, NEW b \in Nat, NEW d \in Nat \ {0}, a <= b
    PROVE  a \div d \in 0 .. (b \div d)
<1>1. a \div d \in Int /\ b \div d \in Int OBVIOUS
<1>2. a \div d <= b \div d OBVIOUS
<1>3. 0 <= a \div d OBVIOUS
<1> QED BY <1>1, <1>2, <1>3

(* Looking at the receipt clock keeps a log that accounts for everything.  *)
LEMMA RolledAccounts ==
    ASSUME HaltsConfigured, HaltsInv, NEW receipt \in Halts!Times
    PROVE  Accounts(Halts!RolledTo(receipt), 0)
<1>1. CASE ~Halts!Rolls(receipt)
  <2>1. Halts!RolledTo(receipt) = HaltsLog BY <1>1, Zenon DEF Halts!RolledTo, HaltsLog
  <2> QED BY <2>1, Zenon DEF HaltsInv
<1>2. CASE Halts!Rolls(receipt)
  <2> DEFINE d == Halts!MarketDay(receipt)
  <2>1. Halts!RolledTo(receipt)
          = [day |-> d, marks |-> Halts!NoMarks, lost |-> Halts!NothingLost,
             since |-> None, count |-> Halts!NoCounts, offered |-> 0, marked |-> 0]
    BY <1>2, Zenon DEF Halts!RolledTo
  <2>2. d \in Halts!Days
    BY QuotientGrows DEF Halts!MarketDay, Halts!Days, Halts!Times, HaltsConfigured
  <2> HIDE DEF d
  <2> QED BY <2>1, <2>2, EmptyAccounts
<1> QED BY <1>1, <1>2

(* A log is the record of its fields.                                      *)
LEMMA LogFields ==
    ASSUME NEW l \in HaltsLogs
    PROVE  /\ l = [day |-> l.day, marks |-> l.marks, lost |-> l.lost, since |-> l.since,
                   count |-> l.count, offered |-> l.offered, marked |-> l.marked]
           /\ l.day \in {None} \cup Halts!Days
           /\ l.marks \in [HaltsSymbols -> Seq(Halts!Mark)]
           /\ l.lost \in [HaltsSymbols -> Nat] /\ l.since \in {None} \cup Halts!Times
           /\ l.count \in [Halts!Counters -> Nat] /\ l.offered \in Nat /\ l.marked \in Nat
  BY DEF HaltsLogs

(* What a status that is believed has told: it came, and the coverage      *)
(* reaches back to it.                                                     *)
Noted(l, stamp, fate) ==
    [l EXCEPT !.offered = @ + 1,
              !.since = IF fate = "rejected" THEN @ ELSE Halts!Earliest(@, stamp)]

(* A status owes a mark or a count.                                        *)
LEMMA NotedOwes ==
    ASSUME HaltsConfigured, NEW l, Accounts(l, 0), NEW stamp \in Halts!Times, NEW fate,
           l.offered < MaxStatuses
    PROVE  /\ Accounts(Noted(l, stamp, fate), 1)
           /\ fate # "rejected" => Noted(l, stamp, fate).since # None
                                   /\ Noted(l, stamp, fate).since <= stamp
           /\ Noted(l, stamp, fate).marks = l.marks /\ Noted(l, stamp, fate).day = l.day
<1> DEFINE t == Noted(l, stamp, fate)
           n == IF fate = "rejected" THEN l.since ELSE Halts!Earliest(l.since, stamp)
<1>0. l \in HaltsLogs BY DEF Accounts
<1>1. l = [day |-> l.day, marks |-> l.marks, lost |-> l.lost, since |-> l.since,
           count |-> l.count, offered |-> l.offered, marked |-> l.marked]
  BY <1>0, LogFields, Zenon
<1>14. t = [l EXCEPT !.offered = l.offered + 1, !.since = n] BY DEF Noted
<1>2. t = [day |-> l.day, marks |-> l.marks, lost |-> l.lost, since |-> n,
           count |-> l.count, offered |-> l.offered + 1, marked |-> l.marked]
  <2> DEFINE k == l.offered + 1
  <2> HIDE DEF t, n
  <2>1. t = [l EXCEPT !.offered = k, !.since = n] BY <1>14
  <2> HIDE DEF k
  <2>2. t = [day |-> l.day, marks |-> l.marks, lost |-> l.lost, since |-> n,
             count |-> l.count, offered |-> k, marked |-> l.marked]
    BY <1>1, <2>1
  <2> QED BY <2>2 DEF k
<1> HIDE DEF t
<1>3. l.since \in {None} \cup Halts!Times BY <1>0, LogFields
<1>4. /\ n \in {None} \cup Halts!Times
      /\ fate # "rejected" => n # None /\ n <= stamp
      /\ l.since # None => n # None /\ n <= l.since
  BY <1>3 DEF Halts!Earliest, Halts!Times, HaltsConfigured
<1> HIDE DEF n
<1>5. /\ t.day = l.day /\ t.marks = l.marks /\ t.lost = l.lost /\ t.since = n
      /\ t.count = l.count /\ t.offered = l.offered + 1 /\ t.marked = l.marked
  BY <1>2
<1>6. t \in HaltsLogs
  <2>1. l.offered + 1 \in Nat BY <1>0, LogFields
  <2> QED BY <1>0, <1>2, <1>4, <2>1, LogFields DEF HaltsLogs
<1>7. ASSUME NEW s \in HaltsSymbols PROVE TellsIt(t, s)
  <2>1. TellsIt(l, s) BY DEF Accounts
  <2>2. \A i \in 1 .. Len(l.marks[s]) : l.marks[s][i].at \in Int
    <3> DEFINE q == l.marks[s]
    <3>1. q \in Seq(Halts!Mark) BY <1>0, LogFields
    <3> HIDE DEF q
    <3>2. \A i \in 1 .. Len(q) : q[i] \in Halts!Mark BY <3>1
    <3> QED BY <3>2 DEF q, Halts!Mark, Halts!Times
  <2>3. TellsDay(l.marks[s], l.day, n)
    <3>1. TellsDay(l.marks[s], l.day, l.since) BY <2>1 DEF TellsIt
    <3>2. ASSUME NEW i \in 1 .. Len(l.marks[s])
          PROVE  n # None /\ n <= l.marks[s][i].at
      <4>1. l.since # None /\ l.since <= l.marks[s][i].at BY <3>1 DEF TellsDay
      <4>2. l.since \in Int /\ n \in Int BY <1>3, <1>4, <4>1 DEF Halts!Times
      <4>3. l.marks[s][i].at \in Int BY <2>2
      <4> QED BY <1>4, <4>1, <4>2, <4>3
    <3> QED BY <3>1, <3>2 DEF TellsDay
  <2> QED BY <1>5, <2>1, <2>3 DEF TellsIt
<1>8. Made(t) = Made(l) BY <1>5 DEF Made
<1>9. t.offered <= MaxStatuses
  BY <1>0, <1>5, LogFields DEF HaltsConfigured
<1>10. t.offered = t.marked + Total(t.count, Halts!Counters) + 1
  <2>1. l.offered = l.marked + Total(l.count, Halts!Counters) + 0 BY DEF Accounts
  <2>2. \A c \in Halts!Counters : l.count[c] \in Nat BY <1>0, LogFields
  <2>3. Total(l.count, Halts!Counters) \in Nat BY <2>2, CountersFinite, TotalHolds
  <2>4. l.offered \in Nat /\ l.marked \in Nat BY <1>0, LogFields
  <2> QED BY <1>5, <2>1, <2>3, <2>4
<1>11. t.marked = Total(Made(t), HaltsSymbols) BY <1>5, <1>8 DEF Accounts
<1>12. Accounts(t, 1) BY <1>6, <1>7, <1>9, <1>10, <1>11 DEF Accounts
<1> QED BY <1>4, <1>5, <1>12 DEF t

(* A counter pays what a status owes.                                      *)
LEMMA CountPays ==
    ASSUME HaltsConfigured, NEW l, Accounts(l, 1), NEW fate \in Halts!Counters
    PROVE  Accounts([l EXCEPT !.count[fate] = @ + 1], 0)
<1> DEFINE t == [l EXCEPT !.count[fate] = @ + 1]
           c == [l.count EXCEPT ![fate] = @ + 1]
<1>0. l \in HaltsLogs BY DEF Accounts
<1>1. l = [day |-> l.day, marks |-> l.marks, lost |-> l.lost, since |-> l.since,
           count |-> l.count, offered |-> l.offered, marked |-> l.marked]
  BY <1>0, LogFields, Zenon
<1>2. t = [day |-> l.day, marks |-> l.marks, lost |-> l.lost, since |-> l.since,
           count |-> c, offered |-> l.offered, marked |-> l.marked]
  BY <1>1
<1> HIDE DEF t
<1>3. l.count \in [Halts!Counters -> Nat] BY <1>0, LogFields
<1>4. c \in [Halts!Counters -> Nat] /\ c[fate] = l.count[fate] + 1
      /\ \A x \in Halts!Counters \ {fate} : c[x] = l.count[x]
  BY <1>3
<1> HIDE DEF c
<1>5. /\ t.day = l.day /\ t.marks = l.marks /\ t.lost = l.lost /\ t.since = l.since
      /\ t.count = c /\ t.offered = l.offered /\ t.marked = l.marked
  BY <1>2
<1>6. t \in HaltsLogs BY <1>0, <1>2, <1>4, LogFields DEF HaltsLogs
<1>7. ASSUME NEW s \in HaltsSymbols PROVE TellsIt(t, s)
  BY <1>5 DEF TellsIt, Accounts
<1>8. Made(t) = Made(l) BY <1>5 DEF Made
<1>9. Total(c, Halts!Counters) = Total(l.count, Halts!Counters) + 1
  <2>1. Total(c, Halts!Counters)
          = Total(l.count, Halts!Counters) + (c[fate] - l.count[fate])
    <3>1. \A x \in Halts!Counters : l.count[x] \in Int /\ c[x] \in Int BY <1>3, <1>4
    <3>2. \A x \in Halts!Counters : x # fate => c[x] = l.count[x] BY <1>4
    <3> DEFINE f == l.count
    <3> HIDE DEF f
    <3>3. Total(c, Halts!Counters) = Total(f, Halts!Counters) + (c[fate] - f[fate])
      <4>1. \A x \in Halts!Counters : f[x] \in Int /\ c[x] \in Int BY <3>1 DEF f
      <4>2. \A x \in Halts!Counters : x # fate => c[x] = f[x] BY <3>2 DEF f
      <4> QED BY <4>1, <4>2, CountersFinite, TotalChange
    <3> QED BY <3>3 DEF f
  <2>2. l.count[fate] \in Nat BY <1>3
  <2> QED BY <1>4, <2>1, <2>2
<1>10. t.offered = t.marked + Total(t.count, Halts!Counters) + 0
  <2>1. l.offered = l.marked + Total(l.count, Halts!Counters) + 1 BY DEF Accounts
  <2>2. \A x \in Halts!Counters : l.count[x] \in Nat BY <1>3
  <2>3. Total(l.count, Halts!Counters) \in Nat BY <2>2, CountersFinite, TotalHolds
  <2>4. l.offered \in Nat /\ l.marked \in Nat BY <1>0, LogFields
  <2> QED BY <1>5, <1>9, <2>1, <2>3, <2>4
<1>11. t.marked = Total(Made(t), HaltsSymbols) BY <1>5, <1>8 DEF Accounts
<1>12. t.offered <= MaxStatuses BY <1>5 DEF Accounts
<1>13. Accounts(t, 0) BY <1>6, <1>7, <1>10, <1>11, <1>12 DEF Accounts
<1> QED BY <1>13 DEF t

(* A list of marks that tells its day takes a later mark of another kind.  *)
LEMMA TellsAppend ==
    ASSUME NEW q \in Seq(Halts!Mark), NEW d, NEW from, TellsDay(q, d, from),
           NEW m \in Halts!Mark, Halts!MarketDay(m.at) = d, from # None, from <= m.at,
           q # <<>> => q[Len(q)].at <= m.at /\ q[Len(q)].kind # m.kind
    PROVE  TellsDay(Append(q, m), d, from)
<1> DEFINE p == Append(q, m)
<1>1. Len(p) = Len(q) + 1 /\ Len(q) \in Nat OBVIOUS
<1>2. p[Len(q) + 1] = m /\ \A i \in 1 .. Len(q) : p[i] = q[i] OBVIOUS
<1>3. q # <<>> <=> Len(q) > 0 BY EmptySeq
<1> HIDE DEF p
<1>4. ASSUME NEW i \in 1 .. Len(p)
      PROVE  Halts!MarketDay(p[i].at) = d /\ from # None /\ from <= p[i].at
  <2>1. CASE i = Len(q) + 1 BY <1>2, <2>1
  <2>2. CASE i # Len(q) + 1
    <3>1. i \in 1 .. Len(q) BY <1>1, <2>2
    <3>2. p[i] = q[i] BY <1>2, <3>1
    <3> QED BY <3>1, <3>2 DEF TellsDay
  <2> QED BY <2>1, <2>2
<1>5. ASSUME NEW i \in 1 .. Len(p) - 1
      PROVE  p[i].at <= p[i + 1].at /\ p[i].kind # p[i + 1].kind
  <2>1. i \in 1 .. Len(q) /\ p[i] = q[i] BY <1>1, <1>2
  <2>2. CASE i = Len(q)
    <3>1. p[i + 1] = m BY <1>2, <2>2
    <3>2. q # <<>> BY <1>1, <1>3, <2>1
    <3> QED BY <2>1, <2>2, <3>1, <3>2
  <2>3. CASE i # Len(q)
    <3>1. i \in 1 .. Len(q) - 1 /\ i + 1 \in 1 .. Len(q) BY <1>1, <2>1, <2>3
    <3>2. p[i + 1] = q[i + 1] BY <1>2, <3>1
    <3> QED BY <2>1, <3>1, <3>2 DEF TellsDay
  <2> QED BY <2>2, <2>3
<1>6. TellsDay(p, d, from) BY <1>4, <1>5 DEF TellsDay
<1> QED BY <1>6 DEF p

(* It still tells its day without its first mark.                          *)
LEMMA TellsTail ==
    ASSUME NEW q \in Seq(Halts!Mark), q # <<>>, NEW d, NEW from, TellsDay(q, d, from)
    PROVE  /\ Tail(q) \in Seq(Halts!Mark) /\ Len(Tail(q)) = Len(q) - 1
           /\ TellsDay(Tail(q), d, from)
           /\ Tail(q) # <<>> => Tail(q)[Len(Tail(q))] = q[Len(q)]
<1> DEFINE p == Tail(q)
<1>1. p \in Seq(Halts!Mark) /\ Len(p) = Len(q) - 1 /\ Len(q) \in Nat OBVIOUS
<1>2. \A i \in 1 .. Len(q) - 1 : p[i] = q[i + 1] OBVIOUS
<1>3. p # <<>> => Len(p) > 0 /\ Len(p) \in Nat BY <1>1, EmptySeq
<1> HIDE DEF p
<1>4. ASSUME NEW i \in 1 .. Len(p)
      PROVE  Halts!MarketDay(p[i].at) = d /\ from # None /\ from <= p[i].at
  <2>1. i + 1 \in 1 .. Len(q) /\ p[i] = q[i + 1] BY <1>1, <1>2
  <2> QED BY <2>1 DEF TellsDay
<1>5. ASSUME NEW i \in 1 .. Len(p) - 1
      PROVE  p[i].at <= p[i + 1].at /\ p[i].kind # p[i + 1].kind
  <2>1. i \in 1 .. Len(q) - 1 /\ i + 1 \in 1 .. Len(q) - 1 BY <1>1
  <2>2. p[i] = q[i + 1] /\ p[i + 1] = q[(i + 1) + 1] BY <1>2, <2>1
  <2> QED BY <2>1, <2>2 DEF TellsDay
<1>6. p # <<>> => p[Len(p)] = q[Len(q)]
  <2> SUFFICES ASSUME p # <<>> PROVE p[Len(p)] = q[Len(q)] OBVIOUS
  <2>1. Len(p) \in 1 .. Len(q) - 1 /\ Len(p) + 1 = Len(q) BY <1>1, <1>3
  <2>2. p[Len(p)] = q[Len(p) + 1] BY <1>2, <2>1
  <2> QED BY <2>1, <2>2
<1>7. TellsDay(p, d, from) BY <1>4, <1>5 DEF TellsDay
<1> QED BY <1>1, <1>6, <1>7 DEF p

(* A log whose symbol s has one mark more, in its list or dropped.         *)
OneMore(t, l, s, q, n) ==
    /\ t = [day |-> l.day, marks |-> [l.marks EXCEPT ![s] = q],
            lost |-> [l.lost EXCEPT ![s] = n], since |-> l.since, count |-> l.count,
            offered |-> l.offered, marked |-> l.marked + 1]
    /\ q \in Seq(Halts!Mark) /\ Len(q) <= MaxMarks /\ TellsDay(q, l.day, l.since)
    /\ n \in Nat
    /\ n = 0 => q[1].kind = "Halted"
    /\ Len(q) + n = Len(l.marks[s]) + l.lost[s] + 1

(* A mark pays what a status owes.                                         *)
LEMMA MarkPays ==
    ASSUME HaltsConfigured, NEW l, Accounts(l, 1), NEW s \in HaltsSymbols,
           NEW t, NEW q, NEW n, OneMore(t, l, s, q, n)
    PROVE  Accounts(t, 0)
<1> DEFINE ms == [l.marks EXCEPT ![s] = q]
           ls == [l.lost EXCEPT ![s] = n]
<1>0. l \in HaltsLogs BY DEF Accounts
<1>1. t = [day |-> l.day, marks |-> ms, lost |-> ls, since |-> l.since,
           count |-> l.count, offered |-> l.offered, marked |-> l.marked + 1]
  BY DEF OneMore
<1>2. q \in Seq(Halts!Mark) /\ Len(q) <= MaxMarks /\ n \in Nat BY DEF OneMore
<1>3. l.marks \in [HaltsSymbols -> Seq(Halts!Mark)] /\ l.lost \in [HaltsSymbols -> Nat]
  BY <1>0, LogFields
<1>4. ms \in [HaltsSymbols -> Seq(Halts!Mark)] /\ ms[s] = q
      /\ \A x \in HaltsSymbols : x # s => ms[x] = l.marks[x]
  BY <1>2, <1>3
<1>5. ls \in [HaltsSymbols -> Nat] /\ ls[s] = n
      /\ \A x \in HaltsSymbols : x # s => ls[x] = l.lost[x]
  BY <1>2, <1>3
<1> HIDE DEF ms, ls
<1>6. l.marked + 1 \in Nat BY <1>0, LogFields
<1>7. t \in HaltsLogs BY <1>0, <1>1, <1>4, <1>5, <1>6, LogFields DEF HaltsLogs
<1>8. /\ t.day = l.day /\ t.marks = ms /\ t.lost = ls /\ t.since = l.since
      /\ t.count = l.count /\ t.offered = l.offered /\ t.marked = l.marked + 1
  BY <1>1
<1>9. ASSUME NEW x \in HaltsSymbols PROVE TellsIt(t, x)
  <2>1. CASE x = s BY <1>2, <1>4, <1>5, <1>8, <2>1 DEF TellsIt, OneMore
  <2>2. CASE x # s
    <3>1. TellsIt(l, x) BY DEF Accounts
    <3> QED BY <1>4, <1>5, <1>8, <2>2, <3>1 DEF TellsIt
  <2> QED BY <2>1, <2>2
<1>10. Total(Made(t), HaltsSymbols) = Total(Made(l), HaltsSymbols) + 1
  <2> DEFINE f == Made(l)
             e == Made(t)
  <2>1. \A x \in HaltsSymbols : /\ f[x] = Len(l.marks[x]) + l.lost[x]
                                /\ e[x] = Len(ms[x]) + ls[x]
    BY <1>8 DEF Made
  <2> HIDE DEF f, e
  <2>2. \A x \in HaltsSymbols : f[x] \in Int /\ e[x] \in Int
    <3> SUFFICES ASSUME NEW x \in HaltsSymbols PROVE f[x] \in Int /\ e[x] \in Int OBVIOUS
    <3>1. Len(l.marks[x]) \in Nat /\ l.lost[x] \in Nat BY <1>3
    <3>2. Len(ms[x]) \in Nat /\ ls[x] \in Nat BY <1>4, <1>5
    <3> QED BY <2>1, <3>1, <3>2
  <2>3. \A x \in HaltsSymbols : x # s => e[x] = f[x] BY <1>4, <1>5, <2>1
  <2>4. Total(e, HaltsSymbols) = Total(f, HaltsSymbols) + (e[s] - f[s])
    BY <2>2, <2>3, TotalChange DEF HaltsConfigured
  <2>5. e[s] = f[s] + 1 BY <1>4, <1>5, <2>1 DEF OneMore
  <2>6. Total(f, HaltsSymbols) \in Int BY <2>2, TotalInt DEF HaltsConfigured
  <2>7. f[s] \in Int BY <2>2
  <2>8. Total(e, HaltsSymbols) = Total(f, HaltsSymbols) + 1 BY <2>4, <2>5, <2>6, <2>7
  <2> QED BY <2>8 DEF e, f
<1>11. t.marked = Total(Made(t), HaltsSymbols) BY <1>8, <1>10 DEF Accounts
<1>12. t.offered = t.marked + Total(t.count, Halts!Counters) + 0
  <2>1. l.offered = l.marked + Total(l.count, Halts!Counters) + 1 BY DEF Accounts
  <2>2. l.count \in [Halts!Counters -> Nat] BY <1>0, LogFields
  <2>3. \A x \in Halts!Counters : l.count[x] \in Nat BY <2>2
  <2>4. Total(l.count, Halts!Counters) \in Nat BY <2>3, CountersFinite, TotalHolds
  <2>5. l.offered \in Nat /\ l.marked \in Nat BY <1>0, LogFields
  <2> QED BY <1>8, <2>1, <2>4, <2>5
<1>13. t.offered <= MaxStatuses BY <1>8 DEF Accounts
<1> QED BY <1>7, <1>9, <1>11, <1>12, <1>13 DEF Accounts

(* A mark that follows the symbol's last one is pushed.                    *)
LEMMA PushPays ==
    ASSUME HaltsConfigured, NEW l, Accounts(l, 1), NEW s \in HaltsSymbols,
           NEW m \in Halts!Mark, Halts!MarketDay(m.at) = l.day,
           l.since # None, l.since <= m.at,
           l.marks[s] # <<>> => /\ l.marks[s][Len(l.marks[s])].at <= m.at
                                /\ l.marks[s][Len(l.marks[s])].kind # m.kind,
           l.marks[s] = <<>> => m.kind = "Halted"
    PROVE  Accounts(Halts!Push(l, s, m), 0)
<1> DEFINE q == l.marks[s]
           t == Halts!Push(l, s, m)
<1>0. l \in HaltsLogs BY DEF Accounts
<1>1. l = [day |-> l.day, marks |-> l.marks, lost |-> l.lost, since |-> l.since,
           count |-> l.count, offered |-> l.offered, marked |-> l.marked]
  BY <1>0, LogFields, Zenon
<1>2. q \in Seq(Halts!Mark) /\ Len(q) \in Nat BY <1>0, LogFields
<1>3. l.lost[s] \in Nat /\ l.lost \in [HaltsSymbols -> Nat] BY <1>0, LogFields
<1>4. TellsIt(l, s) BY DEF Accounts
<1>5. q # <<>> <=> Len(q) > 0 BY <1>2, EmptySeq
<1>6. MaxMarks \in Nat \ {0} BY DEF HaltsConfigured
<1>7. TellsDay(q, l.day, l.since) /\ Len(q) <= MaxMarks BY <1>4 DEF TellsIt
<1>8. CASE Len(q) >= MaxMarks
  <2> DEFINE p == Append(Tail(q), m)
             n == l.lost[s] + 1
  <2>1. t = [l EXCEPT !.marks[s] = p, !.lost[s] = n, !.marked = @ + 1]
    BY <1>8 DEF Halts!Push
  <2>2. q # <<>> BY <1>2, <1>5, <1>6, <1>8
  <2>3. /\ Tail(q) \in Seq(Halts!Mark) /\ Len(Tail(q)) = Len(q) - 1
        /\ TellsDay(Tail(q), l.day, l.since)
        /\ Tail(q) # <<>> => Tail(q)[Len(Tail(q))] = q[Len(q)]
    BY <1>2, <1>7, <2>2, TellsTail
  <2>4. TellsDay(p, l.day, l.since)
    <3>1. Tail(q) # <<>> => /\ Tail(q)[Len(Tail(q))].at <= m.at
                            /\ Tail(q)[Len(Tail(q))].kind # m.kind
      BY <2>2, <2>3
    <3> DEFINE r == Tail(q)
    <3>2. r \in Seq(Halts!Mark) /\ TellsDay(r, l.day, l.since) BY <2>3
    <3>3. r # <<>> => r[Len(r)].at <= m.at /\ r[Len(r)].kind # m.kind BY <3>1
    <3> HIDE DEF r
    <3>4. TellsDay(Append(r, m), l.day, l.since) BY <3>2, <3>3, TellsAppend
    <3> QED BY <3>4 DEF r
  <2>5. p \in Seq(Halts!Mark) /\ Len(p) = Len(q) BY <1>2, <2>3
  <2>6. n \in Nat /\ n # 0 BY <1>3
  <2> HIDE DEF p, n, t
  <2>7. t = [day |-> l.day, marks |-> [l.marks EXCEPT ![s] = p],
             lost |-> [l.lost EXCEPT ![s] = n], since |-> l.since, count |-> l.count,
             offered |-> l.offered, marked |-> l.marked + 1]
    BY <1>1, <2>1
  <2>8. Len(p) + n = Len(q) + l.lost[s] + 1
    <3>1. Len(p) = Len(q) /\ n = l.lost[s] + 1 BY <2>5 DEF n
    <3>2. Len(q) \in Int /\ l.lost[s] \in Int BY <1>2, <1>3
    <3> HIDE DEF q
    <3> QED BY <3>1, <3>2
  <2>9. OneMore(t, l, s, p, n) BY <1>7, <2>4, <2>5, <2>6, <2>7, <2>8 DEF OneMore
  <2>10. Accounts(t, 0) BY <2>9, MarkPays
  <2> QED BY <2>10 DEF t
<1>9. CASE ~(Len(q) >= MaxMarks)
  <2> DEFINE p == Append(q, m)
             n == l.lost[s]
  <2>1. t = [l EXCEPT !.marks[s] = p, !.marked = @ + 1]
    BY <1>9, Zenon DEF Halts!Push
  <2>2. p \in Seq(Halts!Mark) /\ Len(p) = Len(q) + 1 BY <1>2
  <2>3. TellsDay(p, l.day, l.since)
    <3>1. q # <<>> => q[Len(q)].at <= m.at /\ q[Len(q)].kind # m.kind OBVIOUS
    <3> HIDE DEF q
    <3> QED BY <1>2, <1>7, <3>1, TellsAppend
  <2>4. n = 0 => p[1].kind = "Halted"
    <3> SUFFICES ASSUME n = 0 PROVE p[1].kind = "Halted" OBVIOUS
    <3>1. CASE q = <<>> BY <3>1
    <3>2. CASE q # <<>>
      <4>1. p[1] = q[1] BY <1>2, <1>5, <3>2
      <4>2. q[1].kind = "Halted" BY <1>4, <3>2 DEF TellsIt
      <4> QED BY <4>1, <4>2
    <3> QED BY <3>1, <3>2
  <2>5. [l.lost EXCEPT ![s] = n] = l.lost BY <1>3
  <2>6. n \in Nat BY <1>3
  <2>7. Len(p) <= MaxMarks BY <1>2, <1>6, <1>9, <2>2
  <2> HIDE DEF p, t
  <2>8. t = [day |-> l.day, marks |-> [l.marks EXCEPT ![s] = p],
             lost |-> l.lost, since |-> l.since, count |-> l.count,
             offered |-> l.offered, marked |-> l.marked + 1]
    BY <1>1, <2>1
  <2>9. Len(p) + n = Len(q) + l.lost[s] + 1 BY <1>2, <1>3, <2>2
  <2>10. OneMore(t, l, s, p, n)
    <3> HIDE DEF n
    <3> QED BY <2>2, <2>3, <2>4, <2>5, <2>6, <2>7, <2>8, <2>9 DEF OneMore
  <2>11. Accounts(t, 0) BY <2>10, MarkPays
  <2> QED BY <2>11 DEF t
<1> QED BY <1>8, <1>9

-----------------------------------------------------------------------------
(* It holds of the log before the first status.                            *)
LEMMA HaltsInit == ASSUME HaltsConfigured, Halts!Init PROVE HaltsInv
<1>1. HaltsLog = [day |-> None, marks |-> Halts!NoMarks, lost |-> Halts!NothingLost,
                  since |-> None, count |-> Halts!NoCounts, offered |-> 0, marked |-> 0]
  BY DEF Halts!Init, HaltsLog
<1> QED BY <1>1, EmptyAccounts, Zenon DEF HaltsInv

(* A log that becomes a good one is one.                                   *)
LEMMA HaltsBecomes ==
    ASSUME NEW l, Accounts(l, 0), Halts!Becomes(l)
    PROVE  HaltsInv'
<1>0. l \in HaltsLogs BY DEF Accounts
<1>1. l = [day |-> l.day, marks |-> l.marks, lost |-> l.lost, since |-> l.since,
           count |-> l.count, offered |-> l.offered, marked |-> l.marked]
  BY <1>0, LogFields, Zenon
<1>2. HaltsLog' = l BY <1>1, Zenon DEF Halts!Becomes, HaltsLog
<1> QED BY <1>2 DEF HaltsInv

(* A status keeps the invariant, whatever becomes of it.                   *)
LEMMA HaltRecordKeeps ==
    ASSUME HaltsConfigured, HaltsInv, NEW s \in HaltsSymbols, NEW class \in Halts!Classes,
           NEW stamp \in Halts!Times, NEW receipt \in Halts!Times,
           Halts!Record(s, class, stamp, receipt)
    PROVE  HaltsInv'
<1> DEFINE l == Halts!RolledTo(receipt)
           fate == Halts!Fate(l, s, class, stamp, receipt)
           t == Noted(l, stamp, fate)
           m == [at |-> stamp, kind |-> class]
<1>1. Accounts(l, 0) BY RolledAccounts
<1>2. l.offered < MaxStatuses BY DEF Halts!Record
<1>3. Halts!Becomes(IF fate = "mark" THEN Halts!Push(t, s, m)
                    ELSE [t EXCEPT !.count[fate] = @ + 1])
  BY DEF Halts!Record, Noted
<1>4. /\ fate \in Halts!Counters \cup {"mark"}
      /\ fate = "mark" =>
           /\ l.day = Halts!MarketDay(stamp)
           /\ class # "Other" /\ ~Halts!TooLate(l, s, stamp)
           /\ ~(class = "Halted" /\ Halts!LastKind(l, s) = "Halted")
           /\ ~(class = "Resumed" /\ Halts!LastKind(l, s) # "Halted")
  <2> HIDE DEF l
  <2> QED BY DEF Halts!Fate, Halts!Counters
<1> HIDE DEF l, fate
<1>5. /\ Accounts(t, 1)
      /\ fate # "rejected" => t.since # None /\ t.since <= stamp
      /\ t.marks = l.marks /\ t.day = l.day
  BY <1>1, <1>2, NotedOwes
<1> HIDE DEF t
<1>6. CASE fate # "mark"
  <2>1. Accounts([t EXCEPT !.count[fate] = @ + 1], 0) BY <1>4, <1>5, <1>6, CountPays
  <2>2. Halts!Becomes([t EXCEPT !.count[fate] = @ + 1]) BY <1>3, <1>6, Zenon
  <2> QED BY <2>1, <2>2, HaltsBecomes
<1>7. CASE fate = "mark"
  <2>1. class \in Halts!Kinds BY <1>4, <1>7 DEF Halts!Classes
  <2>2. m \in Halts!Mark /\ m.at = stamp /\ m.kind = class BY <2>1 DEF Halts!Mark
  <2> HIDE DEF m
  <2>3. Halts!MarketDay(m.at) = t.day BY <1>4, <1>5, <1>7, <2>2
  <2>4. t.since # None /\ t.since <= m.at BY <1>5, <1>7, <2>2
  <2>5. t.marks[s] # <<>> => /\ t.marks[s][Len(t.marks[s])].at <= m.at
                             /\ t.marks[s][Len(t.marks[s])].kind # m.kind
    <3> SUFFICES ASSUME l.marks[s] # <<>>
                 PROVE  /\ l.marks[s][Len(l.marks[s])].at <= stamp
                        /\ l.marks[s][Len(l.marks[s])].kind # class
      BY <1>5, <2>2
    <3> DEFINE q == l.marks[s]
               last == q[Len(q)]
    <3>1. Halts!LatestMark(l, s) = last /\ Halts!HasMark(l, s)
      BY DEF Halts!LatestMark, Halts!HasMark
    <3>2. q \in Seq(Halts!Mark)
      <4>1. l \in HaltsLogs BY <1>1 DEF Accounts
      <4> QED BY <4>1, LogFields
    <3> HIDE DEF q
    <3>3. last \in Halts!Mark
      <4>1. q # <<>> BY DEF q
      <4> QED BY <3>2, <4>1, EmptySeq
    <3>4. ~(last.at > stamp) BY <1>4, <1>7, <3>1 DEF Halts!TooLate
    <3>5. Halts!LastKind(l, s) = last.kind BY <3>1 DEF Halts!LastKind
    <3>6. last.kind # class BY <1>4, <1>7, <2>1, <3>5 DEF Halts!Kinds
    <3>7. last.at \in Int /\ stamp \in Int BY <3>3 DEF Halts!Mark, Halts!Times
    <3> HIDE DEF last
    <3>8. last.at <= stamp BY <3>4, <3>7
    <3> QED BY <3>6, <3>8 DEF last, q
  <2>6. t.marks[s] = <<>> => m.kind = "Halted"
    <3> SUFFICES ASSUME l.marks[s] = <<>> PROVE class = "Halted" BY <1>5, <2>2
    <3>1. Halts!LastKind(l, s) = None BY DEF Halts!LastKind, Halts!HasMark
    <3> QED BY <1>4, <1>7, <2>1, <3>1 DEF Halts!Kinds, HaltsConfigured
  <2>7. Accounts(Halts!Push(t, s, m), 0) BY <1>5, <2>2, <2>3, <2>4, <2>5, <2>6, PushPays
  <2>8. Halts!Becomes(Halts!Push(t, s, m)) BY <1>3, <1>7, Zenon DEF m
  <2> QED BY <2>7, <2>8, HaltsBecomes
<1> QED BY <1>6, <1>7

(* Every step of the log keeps the invariant.                              *)
LEMMA HaltsStepKeeps == HaltsConfigured /\ HaltsInv /\ [Halts!Next]_(Halts!vars) => HaltsInv'
<1> SUFFICES ASSUME HaltsConfigured, HaltsInv, [Halts!Next]_(Halts!vars) PROVE HaltsInv'
  OBVIOUS
<1>1. ASSUME NEW s \in HaltsSymbols, NEW class \in Halts!Classes, NEW stamp \in Halts!Times,
             NEW receipt \in Halts!Times, Halts!Record(s, class, stamp, receipt)
      PROVE  HaltsInv'
  BY <1>1, HaltRecordKeeps
<1>2. ASSUME NEW receipt \in Halts!Times, Halts!History(receipt) PROVE HaltsInv'
  <2>1. Accounts(Halts!RolledTo(receipt), 0) BY RolledAccounts
  <2>2. Halts!Becomes(Halts!RolledTo(receipt)) BY <1>2 DEF Halts!History
  <2> QED BY <2>1, <2>2, HaltsBecomes
<1>3. CASE UNCHANGED Halts!vars
  <2>1. HaltsLog' = HaltsLog BY <1>3 DEF Halts!vars, HaltsLog
  <2> QED BY <2>1 DEF HaltsInv
<1> QED BY <1>1, <1>2, <1>3 DEF Halts!Next

(* The invariant gives what is claimed of the log.                         *)
LEMMA HaltsSafe == HaltsConfigured /\ HaltsInv => HaltsAreDisclosed
<1> SUFFICES ASSUME HaltsConfigured, HaltsInv PROVE HaltsAreDisclosed OBVIOUS
<1>0. Accounts(HaltsLog, 0) BY DEF HaltsInv
<1>1. /\ HaltsLog.day = haltsDay /\ HaltsLog.marks = marks /\ HaltsLog.lost = haltsLost
      /\ HaltsLog.since = since /\ HaltsLog.count = count /\ HaltsLog.offered = offered
      /\ HaltsLog.marked = marked
  BY DEF HaltsLog
<1>2. /\ haltsDay \in {None} \cup Halts!Days
      /\ marks \in [HaltsSymbols -> Seq(Halts!Mark)]
      /\ haltsLost \in [HaltsSymbols -> Nat] /\ since \in {None} \cup Halts!Times
      /\ count \in [Halts!Counters -> Nat] /\ offered \in Nat /\ marked \in Nat
  <2>1. HaltsLog \in HaltsLogs BY <1>0 DEF Accounts
  <2> QED BY <1>1, <2>1, LogFields
<1>3. offered <= MaxStatuses /\ MaxStatuses \in Nat BY <1>0, <1>1 DEF Accounts, HaltsConfigured
<1>4. offered = marked + Total(count, Halts!Counters) + 0 BY <1>0, <1>1 DEF Accounts
<1>5. marked = Total(Made(HaltsLog), HaltsSymbols) BY <1>0, <1>1 DEF Accounts
<1>6. Made(HaltsLog) = [s \in HaltsSymbols |-> Len(marks[s]) + haltsLost[s]]
  BY <1>1 DEF Made
<1>7. \A s \in HaltsSymbols : TellsIt(HaltsLog, s) BY <1>0 DEF Accounts
<1>8. Halts!EveryStatusDisclosed
  <2>1. Made(HaltsLog) = [s \in HaltsSymbols |-> Halts!Total(s)] BY <1>6 DEF Halts!Total
  <2> DEFINE f == [s \in HaltsSymbols |-> Halts!Total(s)]
  <2>2. DOMAIN f = HaltsSymbols /\ DOMAIN count = Halts!Counters BY <1>2
  <2>3. marked = Total(f, HaltsSymbols) BY <1>5, <2>1
  <2> HIDE DEF f
  <2>4. Halts!FoldFunction(+, 0, f) = Total(f, HaltsSymbols)
    BY <2>2, FoldIsTotal DEF HaltsConfigured
  <2>5. Halts!FoldFunction(+, 0, count) = Total(count, Halts!Counters)
    BY <2>2, FoldIsTotal, CountersFinite
  <2>6. Total(count, Halts!Counters) \in Nat
    <3>1. \A c \in Halts!Counters : count[c] \in Nat BY <1>2
    <3> QED BY <3>1, CountersFinite, TotalHolds
  <2>7. offered = marked + Total(count, Halts!Counters) BY <1>2, <1>4, <2>6
  <2> QED BY <2>3, <2>4, <2>5, <2>7 DEF Halts!EveryStatusDisclosed, f
<1>9. Halts!MarksTellTheDay
  <2> SUFFICES ASSUME NEW s \in HaltsSymbols
               PROVE  /\ \A i \in DOMAIN marks[s] : /\ Halts!MarketDay(marks[s][i].at) = haltsDay
                                                    /\ since <= marks[s][i].at
                      /\ \A i \in 1 .. (Len(marks[s]) - 1) :
                           /\ marks[s][i].at <= marks[s][i + 1].at
                           /\ marks[s][i].kind # marks[s][i + 1].kind
                      /\ (marks[s] # <<>> /\ haltsLost[s] = 0) => marks[s][1].kind = "Halted"
    BY DEF Halts!MarksTellTheDay
  <2>1. TellsIt(HaltsLog, s) BY <1>7
  <2>2. TellsDay(marks[s], haltsDay, since) BY <1>1, <2>1 DEF TellsIt
  <2>3. marks[s] \in Seq(Halts!Mark) BY <1>2
  <2>4. DOMAIN marks[s] = 1 .. Len(marks[s]) BY <2>3
  <2>5. (marks[s] # <<>> /\ haltsLost[s] = 0) => marks[s][1].kind = "Halted"
    BY <1>1, <2>1 DEF TellsIt
  <2> QED BY <2>2, <2>4, <2>5 DEF TellsDay
<1>10. Halts!TypeOK
  <2>1. \A c \in Halts!Counters : count[c] \in Nat BY <1>2
  <2>2. Total(count, Halts!Counters) \in Nat
        /\ \A c \in Halts!Counters : count[c] <= Total(count, Halts!Counters)
    BY <2>1, CountersFinite, TotalHolds
  <2>3. Total(count, Halts!Counters) <= MaxStatuses BY <1>2, <1>3, <1>4, <2>2
  <2>4. count \in [Halts!Counters -> 0 .. MaxStatuses]
    <3>1. \A c \in Halts!Counters : count[c] \in 0 .. MaxStatuses
      BY <1>3, <2>1, <2>2, <2>3
    <3> QED BY <1>2, <3>1
  <2>5. marked <= MaxStatuses BY <1>2, <1>3, <1>4, <2>2
  <2> DEFINE f == Made(HaltsLog)
  <2>6. \A s \in HaltsSymbols : f[s] = Len(marks[s]) + haltsLost[s] BY <1>6
  <2> HIDE DEF f
  <2>7. \A s \in HaltsSymbols : Len(marks[s]) \in Nat /\ haltsLost[s] \in Nat BY <1>2
  <2>8. \A s \in HaltsSymbols : f[s] \in Nat BY <2>6, <2>7
  <2>9. \A s \in HaltsSymbols : f[s] <= Total(f, HaltsSymbols)
    BY <2>8, TotalHolds DEF HaltsConfigured
  <2>10. Total(f, HaltsSymbols) = marked BY <1>5 DEF f
  <2>11. \A s \in HaltsSymbols : haltsLost[s] \in 0 .. MaxStatuses
    <3> SUFFICES ASSUME NEW s \in HaltsSymbols PROVE haltsLost[s] \in 0 .. MaxStatuses OBVIOUS
    <3>1. f[s] <= marked BY <2>9, <2>10
    <3> QED BY <1>2, <1>3, <2>5, <2>6, <2>7, <3>1
  <2>12. haltsLost \in [HaltsSymbols -> 0 .. MaxStatuses] BY <1>2, <2>11
  <2>13. ASSUME NEW s \in HaltsSymbols
         PROVE  /\ Len(marks[s]) <= MaxMarks
                /\ \A i \in DOMAIN marks[s] : marks[s][i] \in Halts!Mark
    <3>1. TellsIt(HaltsLog, s) BY <1>7
    <3>2. marks[s] \in Seq(Halts!Mark) BY <1>2
    <3>3. Len(marks[s]) <= MaxMarks BY <1>1, <3>1 DEF TellsIt
    <3> HIDE DEF HaltsLog
    <3>4. \A i \in DOMAIN marks[s] : marks[s][i] \in Halts!Mark BY <3>2
    <3> QED BY <3>3, <3>4
  <2>14. DOMAIN marks = HaltsSymbols BY <1>2
  <2>15. offered \in 0 .. MaxStatuses /\ marked \in 0 .. MaxStatuses BY <1>2, <1>3, <2>5
  <2> QED BY <1>2, <2>4, <2>12, <2>13, <2>14, <2>15 DEF Halts!TypeOK
<1> QED BY <1>8, <1>9, <1>10 DEF HaltsAreDisclosed

(* A step of the composition is a step of that part, or leaves it alone.   *)
LEMMA StepHalts == [ServicesNext]_servicesVars => [Halts!Next]_(Halts!vars)
<1>1. UNCHANGED haltsVars => UNCHANGED Halts!vars BY DEF haltsVars, Halts!vars
<1>2. HaltsStep => Halts!Next BY DEF HaltsStep
<1>3. UNCHANGED servicesVars => UNCHANGED haltsVars BY DEF servicesVars
<1>4. TraderStep => UNCHANGED haltsVars BY DEF TraderStep
<1>5. StoreStep => UNCHANGED haltsVars BY DEF StoreStep
<1>6. StreamStep => UNCHANGED haltsVars BY DEF StreamStep
<1>7. BarsStep => UNCHANGED haltsVars BY DEF BarsStep
<1>8. CoverageStep => UNCHANGED haltsVars BY DEF CoverageStep
<1>9. HubStep => UNCHANGED haltsVars BY DEF HubStep
<1>10. FeedStep => UNCHANGED haltsVars BY DEF FeedStep
<1>11. IgnitionStep => UNCHANGED haltsVars BY DEF IgnitionStep
<1> QED BY <1>1, <1>2, <1>3, <1>4, <1>5, <1>6, <1>7, <1>8, <1>9, <1>10, <1>11 DEF ServicesNext

(* The marks of every symbol are in order and of the recorded day, and     *)
(* every status of the day made a mark or one count, whatever the feed     *)
(* sends, however the receipt clock steps and whatever the other parts do. *)
THEOREM HaltsAreDisclosedAlways == ServicesSpec => []HaltsAreDisclosed
<1>0. HaltsConfigured BY HaltsAssumption DEF HaltsConfigured
<1>1. ServicesInit => HaltsInv BY <1>0, HaltsInit DEF ServicesInit
<1>2. HaltsInv /\ [ServicesNext]_servicesVars => HaltsInv'
  BY <1>0, StepHalts, HaltsStepKeeps
<1>3. HaltsInv => HaltsAreDisclosed BY <1>0, HaltsSafe
<1> QED BY <1>1, <1>2, <1>3, PTL DEF ServicesSpec

-----------------------------------------------------------------------------
(***************************************************************************)
(* The order-flow store: every trade is counted once, however the history  *)
(* is spliced in, and every attempt is accounted for.                      *)
(***************************************************************************)

(* What the configuration gives, and that None is no task and no boundary. *)
StoreConfigured ==
    /\ MaxTape \in Nat /\ StoreDayLen \in Nat \ {0}
    /\ MaxBuffered \in Nat /\ MaxPerDay \in Nat
    /\ None \notin Int /\ None \notin Store!Tasks /\ None \notin Store!Boundaries

(* Later prints have no earlier timestamp and no earlier day.              *)
LEMMA StampsGrow ==
    ASSUME StoreConfigured, NEW i \in Nat, NEW j \in Nat, i <= j
    PROVE  /\ Store!Stamp(i) \in Nat /\ Store!Stamp(j) \in Nat
           /\ Store!Stamp(i) <= Store!Stamp(j)
           /\ Store!Day(i) \in Nat /\ Store!Day(j) \in Nat
           /\ Store!Day(i) <= Store!Day(j)
<1> DEFINE s == (i + 1) \div 2
           t == (j + 1) \div 2
<1>1. s \in Nat /\ t \in Nat /\ s <= t OBVIOUS
<1>2. Store!Stamp(i) = s /\ Store!Stamp(j) = t BY DEF Store!Stamp
<1> HIDE DEF s, t
<1>3. s \div StoreDayLen \in 0 .. (t \div StoreDayLen) BY <1>1, QuotientGrows DEF StoreConfigured
<1>4. t \div StoreDayLen \in Nat BY <1>1, QuotientGrows DEF StoreConfigured
<1>5. Store!Day(i) = s \div StoreDayLen /\ Store!Day(j) = t \div StoreDayLen
  BY <1>2 DEF Store!Day
<1> QED BY <1>1, <1>2, <1>3, <1>4, <1>5

(* A total of zeros is zero.                                               *)
LEMMA TotalZero ==
    ASSUME NEW S, IsFiniteSet(S), NEW f, \A x \in S : f[x] = 0
    PROVE  Total(f, S) = 0
<1>1. {} \subseteq S /\ \A x \in S : f[x] \in Int OBVIOUS
<1>2. \A x \in S : f[x] = IF x \in {} THEN f[x] ELSE 0 OBVIOUS
<1>3. Total(f, S) = Total(f, {}) BY <1>1, <1>2, TotalFilter
<1> QED BY <1>3, TotalEmpty

(* Timestamps and days are naturals.                                       *)
LEMMA StampNat ==
    ASSUME StoreConfigured, NEW i \in Nat
    PROVE  Store!Stamp(i) \in Nat /\ Store!Day(i) \in Nat
<1>1. i <= i OBVIOUS
<1> QED BY <1>1, StampsGrow

(* The store's cardinality is that of the theorems.                        *)
LEMMA SameCard == \A S : Store!Cardinality(S) = Cardinality(S)
  BY DEF Store!Cardinality, Cardinality

(* A sum over a finite set is the total of its terms.                      *)
LEMMA VolumeIs ==
    ASSUME NEW f, IsFiniteSet(Store!Trades)
    PROVE  Store!Volume(f) = Total(f, Store!Trades)
<1> DEFINE S == Store!Trades
           Step(g, s) == IF s = {} THEN 0
                         ELSE LET x == CHOOSE x \in s : TRUE IN f[x] + g[s \ {x}]
           Solves(g) == g = [s \in SUBSET S |-> Step(g, s)]
           h == CHOOSE g : Solves(g)
<1>1. Store!Volume(f) = h[S]
  BY DEF Store!Volume, Store!MapThenSumSet, Store!MapThenFoldSet
<1>2. \A g : Solves(g) <=> SumsOver(g, f, S)
  <2>1. ASSUME NEW g, NEW s PROVE Adds(g, f, s) = Step(g, s) BY Zenon DEF Adds, Pick
  <2> HIDE DEF Step
  <2> QED BY <2>1, Zenon DEF SumsOver
<1> HIDE DEF Solves
<1>3. SumsOver(h, f, S)
  <2>1. \E g : Solves(g) BY <1>2, SumsExist
  <2>2. Solves(h) BY <2>1, Zenon
  <2> QED BY <1>2, <2>2, Zenon
<1> HIDE DEF h
<1> QED BY <1>1, <1>3, TotalSums

(* And so are the attempts begun.                                          *)
LEMMA BegunIs ==
    ASSUME IsFiniteSet(Store!Days)
    PROVE  Store!Begun = Total(begun, Store!Days)
<1> DEFINE f == begun
           S == Store!Days
           Step(g, s) == IF s = {} THEN 0
                         ELSE LET x == CHOOSE x \in s : TRUE IN f[x] + g[s \ {x}]
           Solves(g) == g = [s \in SUBSET S |-> Step(g, s)]
           h == CHOOSE g : Solves(g)
<1>1. Store!Begun = h[S]
  BY DEF Store!Begun, Store!MapThenSumSet, Store!MapThenFoldSet
<1>2. \A g : Solves(g) <=> SumsOver(g, f, S)
  <2>1. ASSUME NEW g, NEW s PROVE Adds(g, f, s) = Step(g, s) BY Zenon DEF Adds, Pick
  <2> HIDE DEF Step
  <2> QED BY <2>1, Zenon DEF SumsOver
<1> HIDE DEF Solves
<1>3. SumsOver(h, f, S)
  <2>1. \E g : Solves(g) BY <1>2, SumsExist
  <2>2. Solves(h) BY <2>1, Zenon
  <2> QED BY <1>2, <2>2, Zenon
<1> HIDE DEF h
<1> QED BY <1>1, <1>3, TotalSums

(* The trades of the tape and its days are finitely many.                  *)
LEMMA StoreFinite ==
    ASSUME StoreConfigured
    PROVE  IsFiniteSet(Store!Trades) /\ IsFiniteSet(Store!Days) /\ Store!Trades \subseteq Nat
<1>1. IsFiniteSet(1 .. MaxTape) BY FS_Interval DEF StoreConfigured
<1>2. Store!Trades \subseteq 1 .. MaxTape BY DEF Store!Trades, Store!Tape
<1>3. MaxTape + 1 \in Nat BY DEF StoreConfigured
<1>4. Store!Day(MaxTape + 1) \in Nat BY <1>3, StampsGrow
<1>5. IsFiniteSet(Store!Days) BY <1>4, FS_Interval DEF Store!Days
<1>6. IsFiniteSet(Store!Trades) BY <1>1, <1>2, FS_Subset
<1>7. Store!Trades \subseteq Nat BY <1>2
<1> QED BY <1>5, <1>6, <1>7

-----------------------------------------------------------------------------
(* An entry, for every number of engines made so far.                      *)
StoreEntries ==
    [last : Nat, engine : [Store!Trades -> Nat], gen : Nat,
     fill : {"none", "running", "done", "failed"}, buffer : Seq(Store!Tape),
     boundary : {None} \cup Store!Boundaries, partial : BOOLEAN,
     lite : {None} \cup [at : Nat, engine : [Store!Trades -> Nat]], upto : Nat]

(* Print i is in sequence q.                                               *)
Holds(q, i) == \E n \in 1 .. Len(q) : q[n] = i

(* A buffer: delivered prints in the order of their timestamps, none twice.*)
InTime(q, h) ==
    /\ \A n \in 1 .. Len(q) : q[n] \in h
    /\ \A n, m \in 1 .. Len(q) :
         n < m => q[n] # q[m] /\ Store!Stamp(q[n]) <= Store!Stamp(q[m])

(* Engine f counts every trade of u's day that was delivered or is not     *)
(* after u, and engine g every one that is not after u.                    *)
CountsDay(f, h, u) ==
    \A i \in Store!Trades :
        (Store!Day(i) = Store!Day(u) /\ (i \in h \/ i <= u)) => f[i] >= 1
CountsPast(f, u) ==
    \A i \in Store!Trades : (i <= u /\ Store!Day(i) = Store!Day(u)) => f[i] >= 1

(* An entry when the prints of h have been delivered.                      *)
Shaped(e) ==
    /\ e \in StoreEntries
    /\ Len(e.buffer) <= MaxBuffered
    /\ (e.fill = "running") <=> (e.boundary # None)
    /\ e.fill # "running" => e.buffer = <<>>
Sound(e, h) ==
    /\ Shaped(e)
    /\ \A i \in Store!Trades : e.engine[i] <= 1 /\ (e.engine[i] # 0 => i \in h)
    /\ InTime(e.buffer, h)
    /\ e.fill = "done" => CountsDay(e.engine, h, e.upto)
    /\ (e.fill = "done" /\ e.lite # None) => CountsPast(e.lite.engine, e.upto)

(* A record is the record of its fields.                                   *)
LEMMA EntryFields ==
    ASSUME NEW e \in StoreEntries
    PROVE  /\ e = [last |-> e.last, engine |-> e.engine, gen |-> e.gen, fill |-> e.fill,
                   buffer |-> e.buffer, boundary |-> e.boundary, partial |-> e.partial,
                   lite |-> e.lite, upto |-> e.upto]
           /\ e.last \in Nat /\ e.engine \in [Store!Trades -> Nat] /\ e.gen \in Nat
           /\ e.fill \in {"none", "running", "done", "failed"}
           /\ e.buffer \in Seq(Store!Tape)
           /\ e.boundary \in {None} \cup Store!Boundaries /\ e.partial \in BOOLEAN
           /\ e.lite \in {None} \cup [at : Nat, engine : [Store!Trades -> Nat]]
           /\ e.upto \in Nat
  BY DEF StoreEntries

(* A record of such fields is an entry.                                    *)
LEMMA EntryOf ==
    ASSUME NEW a \in Nat, NEW b \in [Store!Trades -> Nat], NEW c \in Nat,
           NEW d \in {"none", "running", "done", "failed"}, NEW f \in Seq(Store!Tape),
           NEW g \in {None} \cup Store!Boundaries, NEW h \in BOOLEAN,
           NEW k \in {None} \cup [at : Nat, engine : [Store!Trades -> Nat]], NEW m \in Nat
    PROVE  [last |-> a, engine |-> b, gen |-> c, fill |-> d, buffer |-> f, boundary |-> g,
            partial |-> h, lite |-> k, upto |-> m] \in StoreEntries
  BY DEF StoreEntries

(* Counting a print leaves an engine of the trades.                        *)
LEMMA CountedIs ==
    ASSUME NEW f \in [Store!Trades -> Nat], NEW i
    PROVE  /\ Store!Counted(f, i) \in [Store!Trades -> Nat]
           /\ \A j \in Store!Trades :
                Store!Counted(f, i)[j] = IF j = i THEN f[j] + 1 ELSE f[j]
  BY DEF Store!Counted

(* Hearing of a print that no engine counts.                               *)
LEMMA AppliedIs ==
    ASSUME StoreConfigured, NEW e, NEW h, Sound(e, h), NEW i \in Store!Tape, i \notin h
    PROVE  /\ Sound(Store!Apply(e, i), h \cup {i})
           /\ Store!Apply(e, i).gen = e.gen /\ Store!Apply(e, i).upto = e.upto
           /\ Store!Apply(e, i).fill = "done" => e.fill = "done"
           /\ Store!Apply(e, i).fill = "running" =>
                /\ e.fill = "running" /\ Store!Apply(e, i).buffer = Append(e.buffer, i)
           /\ (e.fill = "running" /\ Store!Apply(e, i).fill # "running") <=> Store!Breaks(e, i)
<1> DEFINE a == Store!Apply(e, i)
           g == Store!Counted(e.engine, i)
           b == IF Store!Stamp(i) > e.last THEN Store!Stamp(i) ELSE e.last
           k == h \cup {i}
<1>0. e \in StoreEntries BY DEF Sound, Shaped
<1>1. e = [last |-> e.last, engine |-> e.engine, gen |-> e.gen, fill |-> e.fill,
           buffer |-> e.buffer, boundary |-> e.boundary, partial |-> e.partial,
           lite |-> e.lite, upto |-> e.upto]
  BY <1>0, EntryFields, Zenon
<1>2. g \in [Store!Trades -> Nat] /\ \A j \in Store!Trades :
        g[j] = IF j = i THEN e.engine[j] + 1 ELSE e.engine[j]
  BY <1>0, EntryFields, CountedIs
<1>3. b \in Nat
  <2>1. i \in Nat BY DEF Store!Tape, StoreConfigured
  <2> QED BY <1>0, <2>1, StampsGrow, EntryFields
<1>4. \A j \in Store!Trades : g[j] <= 1 /\ (g[j] # 0 => j \in k)
  BY <1>0, <1>2, EntryFields DEF Sound
<1>5. \A j \in Store!Trades : g[j] >= e.engine[j] /\ (j = i => g[j] >= 1)
  BY <1>0, <1>2, EntryFields
<1>6. ASSUME CountsDay(e.engine, h, e.upto) PROVE CountsDay(g, k, e.upto)
  <2> SUFFICES ASSUME NEW j \in Store!Trades, Store!Day(j) = Store!Day(e.upto),
                      j \in k \/ j <= e.upto
               PROVE  g[j] >= 1
    BY DEF CountsDay
  <2>1. CASE j = i BY <1>5, <2>1
  <2>2. CASE j # i
    <3>1. e.engine[j] >= 1 BY <1>6, <2>2 DEF CountsDay
    <3>2. e.engine[j] \in Nat /\ g[j] \in Nat BY <1>0, <1>2, EntryFields
    <3> QED BY <1>5, <3>1, <3>2
  <2> QED BY <2>1, <2>2
<1> DEFINE noted == [last |-> b, engine |-> g, gen |-> e.gen, fill |-> e.fill,
                    buffer |-> e.buffer, boundary |-> e.boundary, partial |-> e.partial,
                    lite |-> e.lite, upto |-> e.upto]
<1>7. a = IF e.fill # "running" THEN noted
          ELSE IF Store!Fits(e, i) THEN [noted EXCEPT !.buffer = Append(@, i)]
          ELSE [noted EXCEPT !.fill = "failed", !.buffer = <<>>, !.boundary = None]
  <2>1. [e EXCEPT !.engine = Store!Counted(@, i),
                  !.last = IF Store!Stamp(i) > @ THEN Store!Stamp(i) ELSE @] = noted
    <3>1. [e EXCEPT !.engine = Store!Counted(@, i),
                    !.last = IF Store!Stamp(i) > @ THEN Store!Stamp(i) ELSE @]
            = [e EXCEPT !.engine = g, !.last = b]
      OBVIOUS
    <3> HIDE DEF g, b
    <3> DEFINE r == [e EXCEPT !.engine = g, !.last = b]
    <3>2. /\ r.last = b /\ r.engine = g /\ r.gen = e.gen /\ r.fill = e.fill
          /\ r.buffer = e.buffer /\ r.boundary = e.boundary /\ r.partial = e.partial
          /\ r.lite = e.lite /\ r.upto = e.upto
      BY <1>1
    <3>3. r = [last |-> r.last, engine |-> r.engine, gen |-> r.gen, fill |-> r.fill,
               buffer |-> r.buffer, boundary |-> r.boundary, partial |-> r.partial,
               lite |-> r.lite, upto |-> r.upto]
      <4>1. r \in StoreEntries BY <1>0, <1>2, <1>3 DEF StoreEntries
      <4> HIDE DEF r
      <4> QED BY <4>1, EntryFields, Zenon
    <3> HIDE DEF r
    <3>4. r = noted BY <3>2, <3>3, Zenon
    <3> QED BY <3>1, <3>4 DEF r
  <2> HIDE DEF noted
  <2> QED BY <2>1, Zenon DEF Store!Apply
<1> HIDE DEF a, g, b
<1>8. InTime(e.buffer, h) /\ e.buffer \in Seq(Store!Tape) /\ Len(e.buffer) \in Nat
  BY <1>0, EntryFields DEF Sound
<1>9. CASE e.fill # "running"
  <2>1. a = noted BY <1>7, <1>9
  <2>2. /\ a.last = b /\ a.engine = g /\ a.gen = e.gen /\ a.fill = e.fill
        /\ a.buffer = e.buffer /\ a.boundary = e.boundary /\ a.lite = e.lite
        /\ a.upto = e.upto
    BY <2>1
  <2>3. a \in StoreEntries BY <1>0, <1>2, <1>3, <2>1, EntryFields, EntryOf
  <2>4. Shaped(a) BY <2>2, <2>3 DEF Shaped, Sound
  <2>5. InTime(a.buffer, k) BY <1>8, <2>2 DEF InTime
  <2>6. a.fill = "done" => CountsDay(a.engine, k, a.upto) BY <1>6, <2>2 DEF Sound
  <2>7. (a.fill = "done" /\ a.lite # None) => CountsPast(a.lite.engine, a.upto)
    BY <2>2 DEF Sound
  <2>8. Sound(a, k) BY <1>4, <2>2, <2>4, <2>5, <2>6, <2>7 DEF Sound
  <2>9. ~Store!Breaks(e, i) BY <1>9 DEF Store!Breaks
  <2> QED BY <1>9, <2>2, <2>8, <2>9 DEF a
<1>10. CASE e.fill = "running" /\ Store!Fits(e, i)
  <2> DEFINE q == Append(e.buffer, i)
  <2>1. a = [last |-> b, engine |-> g, gen |-> e.gen, fill |-> e.fill,
             buffer |-> q, boundary |-> e.boundary, partial |-> e.partial,
             lite |-> e.lite, upto |-> e.upto]
    BY <1>7, <1>10
  <2>2. q \in Seq(Store!Tape) /\ Len(q) = Len(e.buffer) + 1
        /\ q[Len(e.buffer) + 1] = i /\ \A n \in 1 .. Len(e.buffer) : q[n] = e.buffer[n]
    BY <1>8
  <2> HIDE DEF q
  <2>3. /\ a.last = b /\ a.engine = g /\ a.gen = e.gen /\ a.fill = e.fill
        /\ a.buffer = q /\ a.boundary = e.boundary /\ a.lite = e.lite
        /\ a.upto = e.upto
    BY <2>1
  <2>4. a \in StoreEntries BY <1>0, <1>2, <1>3, <2>1, <2>2, EntryFields, EntryOf
  <2>5. Len(q) <= MaxBuffered
    BY <1>8, <1>10, <2>2 DEF Store!Fits, StoreConfigured
  <2>6. Shaped(a) BY <1>10, <2>3, <2>4, <2>5 DEF Shaped, Sound
  <2>7. InTime(q, k)
    <3>1. ASSUME NEW n \in 1 .. Len(q) PROVE q[n] \in k
      <4>1. CASE n = Len(e.buffer) + 1 BY <2>2, <4>1
      <4>2. CASE n # Len(e.buffer) + 1
        <5>1. n \in 1 .. Len(e.buffer) BY <1>8, <2>2, <4>2
        <5> QED BY <1>8, <2>2, <5>1 DEF InTime
      <4> QED BY <4>1, <4>2
    <3>2. ASSUME NEW n \in 1 .. Len(q), NEW m \in 1 .. Len(q), n < m
          PROVE  q[n] # q[m] /\ Store!Stamp(q[n]) <= Store!Stamp(q[m])
      <4>1. n \in 1 .. Len(e.buffer) BY <1>8, <2>2, <3>2
      <4>2. q[n] = e.buffer[n] /\ q[n] \in h BY <1>8, <2>2, <4>1 DEF InTime
      <4>3. CASE m # Len(e.buffer) + 1
        <5>1. m \in 1 .. Len(e.buffer) BY <1>8, <2>2, <4>3
        <5>2. q[m] = e.buffer[m] BY <2>2, <5>1
        <5> QED BY <1>8, <3>2, <4>1, <4>2, <5>1, <5>2 DEF InTime
      <4>4. CASE m = Len(e.buffer) + 1
        <5>1. q[m] = i BY <2>2, <4>4
        <5> DEFINE z == Len(e.buffer)
                   last == e.buffer[z]
        <5>2. z \in 1 .. Len(e.buffer) BY <1>8, <4>1
        <5>3. e.buffer # <<>> BY <1>8, <5>2
        <5>4. Store!Stamp(i) >= Store!Stamp(last) BY <1>10, <5>3 DEF Store!Fits
        <5>5. n = z \/ Store!Stamp(q[n]) <= Store!Stamp(last)
          BY <1>8, <4>1, <4>2, <5>2 DEF InTime
        <5>6. Store!Stamp(q[n]) <= Store!Stamp(last)
          <6>1. e.buffer[n] \in Nat /\ last \in Nat
            <7>1. e.buffer[n] \in Store!Tape /\ last \in Store!Tape BY <1>8, <4>1, <5>2
            <7> QED BY <7>1 DEF Store!Tape, StoreConfigured
          <6>2. Store!Stamp(last) <= Store!Stamp(last)
            <7> HIDE DEF last
            <7> QED BY <6>1, StampsGrow
          <6> QED BY <4>2, <5>5, <6>2
        <5>7. Store!Stamp(q[n]) \in Nat /\ Store!Stamp(last) \in Nat /\ Store!Stamp(i) \in Nat
          <6>1. e.buffer[n] \in Store!Tape /\ last \in Store!Tape BY <1>8, <4>1, <5>2
          <6> HIDE DEF last
          <6>2. e.buffer[n] \in Nat /\ last \in Nat /\ i \in Nat
            BY <6>1 DEF Store!Tape, StoreConfigured
          <6> QED BY <4>2, <6>2, StampNat
        <5> HIDE DEF last
        <5> QED BY <4>2, <5>1, <5>4, <5>6, <5>7
      <4> QED BY <4>3, <4>4
    <3> QED BY <3>1, <3>2 DEF InTime
  <2>8. Sound(a, k) BY <1>4, <1>10, <2>3, <2>6, <2>7 DEF Sound
  <2>9. ~Store!Breaks(e, i) BY <1>10 DEF Store!Breaks
  <2> QED BY <1>10, <2>3, <2>8, <2>9 DEF a, q
<1>11. CASE e.fill = "running" /\ ~Store!Fits(e, i)
  <2>1. a = [last |-> b, engine |-> g, gen |-> e.gen, fill |-> "failed",
             buffer |-> <<>>, boundary |-> None, partial |-> e.partial,
             lite |-> e.lite, upto |-> e.upto]
    BY <1>7, <1>11
  <2>2. /\ a.last = b /\ a.engine = g /\ a.gen = e.gen /\ a.fill = "failed"
        /\ a.buffer = <<>> /\ a.boundary = None /\ a.lite = e.lite
        /\ a.upto = e.upto
    BY <2>1
  <2>3. <<>> \in Seq(Store!Tape) /\ Len(<<>>) = 0 OBVIOUS
  <2>4. a \in StoreEntries BY <1>0, <1>2, <1>3, <2>1, <2>3, EntryFields, EntryOf
  <2>5. Shaped(a) BY <2>2, <2>3, <2>4 DEF Shaped, StoreConfigured
  <2>6. InTime(a.buffer, k) BY <2>2, <2>3 DEF InTime
  <2>7. Sound(a, k) BY <1>4, <2>2, <2>5, <2>6 DEF Sound
  <2>8. Store!Breaks(e, i) BY <1>11 DEF Store!Breaks
  <2> QED BY <1>11, <2>2, <2>7, <2>8 DEF a
<1> QED BY <1>9, <1>10, <1>11

(* An attempt is in flight in entry e: what was in the buffer at its first *)
(* look still leads the buffer, and every print of its day after the       *)
(* moment it was started is buffered as it is delivered.                   *)
Follows(t, e, h) ==
    /\ t.phase = "replaying" =>
          /\ Len(t.first) <= Len(e.buffer)
          /\ \A n \in 1 .. Len(t.first) : e.buffer[n] = t.first[n]
    /\ \A i \in Store!Tape :
          (i \in h /\ i > t.upto /\ Store!Day(i) = Store!Day(t.upto)) => Holds(e.buffer, i)

(* What the first look has found: the whole history was delivered, and     *)
(* what of it may be buffered is.                                          *)
Learned(t, h) ==
    /\ 1 .. t.upto \subseteq h
    /\ \A i \in Store!Tape :
          (i <= t.upto /\ Store!Day(i) = Store!Day(t.upto) /\ Store!Cut(t.first, i))
             => Holds(t.first, i)

DayOK(d, c) == d # None => d <= Store!Day(c)
EntryOK(e, h, d, n) ==
    e # None => /\ d # None /\ Sound(e, h) /\ e.gen \in 1 .. n
                /\ e.fill = "done" => d <= Store!Day(e.upto)
TaskOK(t, h, n) ==
    t # None => /\ t \in Store!Tasks /\ t.gen \in 1 .. n
                /\ t.phase = "replaying" => Learned(t, h)
FlightOK(t, e, h, d) ==
    (e # None /\ e.fill = "running") =>
        t # None /\ t.gen = e.gen /\ d <= Store!Day(t.upto) /\ Follows(t, e, h)

(* The budget speaks of the newest day on which an attempt was considered. *)
BudgetOK(b, g, c) ==
    /\ b.day = None => \A d \in Store!Days : g[d] = 0
    /\ b.day # None => /\ b.day <= Store!Day(c) /\ g[b.day] <= b.started
                       /\ \A d \in Store!Days : d > b.day => g[d] = 0
    /\ \A d \in Store!Days : g[d] <= MaxPerDay

(* An attempt that has failed in its entry has been counted there.         *)
Owed(t, e) == IF t # None /\ ~(e # None /\ e.gen = t.gen /\ e.fill # "running") THEN 1 ELSE 0
OwedOK(g, n, t, e) == Total(g, Store!Days) <= n + Owed(t, e)

StoreTyped ==
    /\ storeClock \in 0 .. MaxTape /\ storeHeard \subseteq 1 .. storeClock
    /\ storeDay \in Store!Days \cup {None} /\ storeLost \in BOOLEAN
    /\ nextGen \in Nat /\ discarded \in Nat /\ spliced \in Nat
    /\ budget \in [day : Store!Days \cup {None}, started : 0 .. MaxPerDay]
    /\ begun \in [Store!Days -> Nat]

StoreInv ==
    /\ StoreTyped
    /\ DayOK(storeDay, storeClock)
    /\ EntryOK(entry, storeHeard, storeDay, nextGen)
    /\ TaskOK(task, storeHeard, nextGen)
    /\ FlightOK(task, entry, storeHeard, storeDay)
    /\ BudgetOK(budget, begun, storeClock)
    /\ OwedOK(begun, discarded + spliced, task, entry)

(* Days are days.                                                          *)
LEMMA DaysAre ==
    ASSUME StoreConfigured
    PROVE  /\ Store!Days \subseteq Nat /\ None \notin Store!Days
           /\ \A i \in 0 .. MaxTape : Store!Day(i) \in Store!Days
<1>1. MaxTape \in Nat /\ MaxTape + 1 \in Nat BY DEF StoreConfigured
<1>2. Store!Day(MaxTape + 1) \in Nat BY <1>1, StampNat
<1>3. Store!Days \subseteq Nat BY <1>2 DEF Store!Days
<1>6. None \notin Nat
  <2>1. Nat \subseteq Int OBVIOUS
  <2> QED BY <2>1, Zenon DEF StoreConfigured
<1>4. None \notin Store!Days BY <1>3, <1>6, Zenon
<1>5. ASSUME NEW i \in 0 .. MaxTape PROVE Store!Day(i) \in Store!Days
  <2>1. i \in Nat /\ i <= MaxTape + 1 BY <1>1
  <2>2. Store!Day(i) \in Nat /\ Store!Day(i) <= Store!Day(MaxTape + 1) BY <1>1, <2>1, StampsGrow
  <2> QED BY <1>2, <2>2 DEF Store!Days
<1> QED BY <1>3, <1>4, <1>5

(* It holds before the first print.                                        *)
LEMMA StoreInit == ASSUME StoreConfigured, Store!Init PROVE StoreInv
<1>1. /\ storeClock = 0 /\ storeHeard = {} /\ storeDay = None /\ entry = None
      /\ storeLost = FALSE /\ nextGen = 0 /\ discarded = 0 /\ task = None
      /\ budget = [day |-> None, started |-> 0]
      /\ begun = [d \in Store!Days |-> 0] /\ spliced = 0
  BY DEF Store!Init
<1>2. MaxPerDay \in Nat /\ MaxTape \in Nat BY DEF StoreConfigured
<1>3. StoreTyped
  <2>1. storeClock \in 0 .. MaxTape /\ storeHeard \subseteq 1 .. storeClock BY <1>1, <1>2
  <2>2. begun \in [Store!Days -> Nat] BY <1>1
  <2>3. None \in Store!Days \cup {None} /\ 0 \in 0 .. MaxPerDay BY <1>2
  <2>4. budget \in [day : Store!Days \cup {None}, started : 0 .. MaxPerDay] BY <1>1, <2>3
  <2> QED BY <1>1, <2>1, <2>2, <2>3, <2>4 DEF StoreTyped
<1>4. BudgetOK(budget, begun, storeClock) BY <1>1, <1>2 DEF BudgetOK
<1>5. \A d \in Store!Days : begun[d] = 0 BY <1>1
<1>6. Total(begun, Store!Days) = 0 BY <1>5, StoreFinite, TotalZero
<1>7. OwedOK(begun, discarded + spliced, task, entry) BY <1>1, <1>6 DEF OwedOK, Owed
<1> QED BY <1>1, <1>3, <1>4, <1>7 DEF StoreInv, DayOK, EntryOK, TaskOK, FlightOK

-----------------------------------------------------------------------------
(* The next print changes nothing but the clock.                           *)
LEMMA NextPrintKeeps == ASSUME StoreConfigured, StoreInv, Store!NextPrint PROVE StoreInv'
<1>1. storeClock \in 0 .. MaxTape /\ storeHeard \subseteq 1 .. storeClock
  BY DEF StoreInv, StoreTyped
<1>2. storeClock < MaxTape /\ storeClock' = storeClock + 1 BY DEF Store!NextPrint
<1>3. UNCHANGED <<storeHeard, storeDay, entry, storeLost, nextGen, discarded, budget, task,
                  begun, spliced>>
  BY DEF Store!NextPrint, Store!store
<1>4. storeClock' \in 0 .. MaxTape /\ storeHeard' \subseteq 1 .. storeClock'
  BY <1>1, <1>2, <1>3 DEF StoreConfigured
<1>5. StoreTyped' BY <1>3, <1>4 DEF StoreInv, StoreTyped
<1>6. Store!Day(storeClock) <= Store!Day(storeClock')
      /\ Store!Day(storeClock) \in Nat /\ Store!Day(storeClock') \in Nat
  BY <1>1, <1>2, StampsGrow
<1>7. DayOK(storeDay', storeClock')
  <2>1. DayOK(storeDay, storeClock) BY DEF StoreInv
  <2>2. storeDay # None => storeDay \in Nat BY DaysAre DEF StoreInv, StoreTyped
  <2> QED BY <1>3, <1>6, <2>1, <2>2 DEF DayOK
<1>8. BudgetOK(budget', begun', storeClock')
  <2>1. BudgetOK(budget, begun, storeClock) BY DEF StoreInv
  <2>2. budget.day # None => budget.day \in Nat BY DaysAre DEF StoreInv, StoreTyped
  <2> QED BY <1>3, <1>6, <2>1, <2>2 DEF BudgetOK
<1> QED BY <1>3, <1>5, <1>7, <1>8 DEF StoreInv

(* A failed attempt leaves a sound entry.                                  *)
LEMMA FailedSound ==
    ASSUME StoreConfigured, NEW e, NEW h, Sound(e, h)
    PROVE  /\ Sound([e EXCEPT !.fill = "failed", !.buffer = <<>>, !.boundary = None], h)
           /\ [e EXCEPT !.fill = "failed", !.buffer = <<>>, !.boundary = None].gen = e.gen
           /\ [e EXCEPT !.fill = "failed", !.buffer = <<>>, !.boundary = None].fill = "failed"
<1> DEFINE a == [e EXCEPT !.fill = "failed", !.buffer = <<>>, !.boundary = None]
<1>0. e \in StoreEntries BY DEF Sound, Shaped
<1>1. a.engine = e.engine /\ a.gen = e.gen /\ a.fill = "failed" /\ a.buffer = <<>>
      /\ a.boundary = None
  BY <1>0 DEF StoreEntries
<1>2. <<>> \in Seq(Store!Tape) /\ Len(<<>>) = 0 OBVIOUS
<1>3. a \in StoreEntries BY <1>0, <1>2 DEF StoreEntries
<1> HIDE DEF a
<1>4. Shaped(a) BY <1>1, <1>2, <1>3 DEF Shaped, StoreConfigured
<1>5. Sound(a, h) BY <1>1, <1>2, <1>4 DEF Sound, InTime
<1> QED BY <1>1, <1>5 DEF a

(* Giving up the task's attempt keeps the invariant: it is counted, here   *)
(* or where it failed.                                                     *)
LEMMA RefusedKeeps ==
    ASSUME StoreConfigured, StoreInv, task # None, task' = None,
           Store!Refuse(task.gen) \/ Store!RefuseFresh(task.gen),
           UNCHANGED <<storeClock, storeHeard, storeDay, storeLost, nextGen, budget, begun,
                       spliced>>
    PROVE  StoreInv'
<1> DEFINE mine == entry # None /\ entry.gen = task.gen
           failed == [entry EXCEPT !.fill = "failed", !.buffer = <<>>, !.boundary = None]
<1>1. discarded \in Nat /\ spliced \in Nat /\ begun \in [Store!Days -> Nat]
  BY DEF StoreInv, StoreTyped
<1>2. EntryOK(entry, storeHeard, storeDay, nextGen)
      /\ FlightOK(task, entry, storeHeard, storeDay)
      /\ OwedOK(begun, discarded + spliced, task, entry)
  BY DEF StoreInv
<1>3. \/ /\ entry' = IF mine THEN failed ELSE entry
         /\ discarded' = discarded + 1
      \/ mine /\ entry.fill # "running" /\ UNCHANGED <<entry, discarded>>
  BY Zenon DEF Store!Refuse, Store!RefuseFresh, Store!InFlight, Store!Mine
<1>4. entry' = entry \/ (mine /\ entry' = failed) BY <1>3
<1>5. entry' # None => /\ storeDay # None /\ Sound(entry', storeHeard)
                       /\ entry'.gen \in 1 .. nextGen
                       /\ entry'.fill = "done" => storeDay <= Store!Day(entry'.upto)
  <2>1. CASE entry' = entry BY <1>2, <2>1 DEF EntryOK
  <2>2. CASE mine /\ entry' = failed
    <3>1. Sound(entry, storeHeard) /\ storeDay # None /\ entry.gen \in 1 .. nextGen
      BY <1>2, <2>2 DEF EntryOK
    <3>2. Sound(failed, storeHeard) /\ failed.gen = entry.gen /\ failed.fill = "failed"
      BY <3>1, FailedSound
    <3> HIDE DEF failed
    <3> QED BY <2>2, <3>1, <3>2
  <2> QED BY <1>4, <2>1, <2>2
<1>6. EntryOK(entry', storeHeard', storeDay', nextGen') BY <1>5 DEF EntryOK
<1>7. ~(entry' # None /\ entry'.fill = "running")
  <2>1. CASE mine /\ entry' = failed
    <3>1. Sound(entry, storeHeard) BY <1>2, <2>1 DEF EntryOK
    <3>2. failed.fill = "failed" BY <3>1, FailedSound
    <3> HIDE DEF failed
    <3> QED BY <2>1, <3>2
  <2>2. CASE ~(mine /\ entry' = failed)
    <3>1. entry' = entry /\ (mine => entry.fill # "running") BY <1>3, <2>2
    <3> QED BY <1>2, <3>1 DEF FlightOK
  <2> QED BY <2>1, <2>2
<1>8. FlightOK(task', entry', storeHeard', storeDay') BY <1>7 DEF FlightOK
<1>9. discarded' \in Nat BY <1>1, <1>3
<1>10. OwedOK(begun', discarded' + spliced', task', entry')
  <2>1. Total(begun, Store!Days) \in Nat
    <3>1. \A d \in Store!Days : begun[d] \in Nat BY <1>1
    <3> QED BY <3>1, StoreFinite, TotalHolds
  <2>2. Total(begun, Store!Days) <= (discarded + spliced) + Owed(task, entry)
    BY <1>2 DEF OwedOK
  <2>3. Owed(task', entry') = 0 BY DEF Owed
  <2>4. CASE discarded' = discarded + 1
    <3>1. Owed(task, entry) \in {0, 1} BY DEF Owed
    <3> QED BY <1>1, <2>1, <2>2, <2>3, <2>4, <3>1 DEF OwedOK
  <2>5. CASE mine /\ entry.fill # "running" /\ UNCHANGED <<entry, discarded>>
    <3>1. Owed(task, entry) = 0 BY <2>5 DEF Owed
    <3> QED BY <1>1, <2>1, <2>2, <2>3, <2>5, <3>1 DEF OwedOK
  <2> QED BY <1>3, <2>4, <2>5
<1>11. StoreTyped' BY <1>9 DEF StoreInv, StoreTyped
<1>12. TaskOK(task', storeHeard', nextGen') BY DEF TaskOK
<1> QED BY <1>6, <1>8, <1>10, <1>11, <1>12 DEF StoreInv

(* An entry is sound though a print of another day than its history's was  *)
(* delivered and dropped.                                                  *)
LEMMA SoundThough ==
    ASSUME NEW e, NEW h, Sound(e, h), NEW i,
           e.fill = "done" => Store!Day(i) # Store!Day(e.upto)
    PROVE  Sound(e, h \cup {i})
<1>1. InTime(e.buffer, h \cup {i}) BY DEF Sound, InTime
<1>2. e.fill = "done" => CountsDay(e.engine, h \cup {i}, e.upto) BY DEF Sound, CountsDay
<1> QED BY <1>1, <1>2 DEF Sound

(* More is delivered.                                                      *)
LEMMA TaskGrows ==
    ASSUME NEW t, NEW h, NEW k, h \subseteq k, NEW n \in Nat, NEW m \in Nat, n <= m,
           TaskOK(t, h, n)
    PROVE  TaskOK(t, k, m)
<1>1. (t # None /\ t.gen \in 1 .. n) => t.gen \in 1 .. m OBVIOUS
<1> QED BY <1>1 DEF TaskOK, Learned

(* A new entry is sound.                                                   *)
LEMMA NewSound ==
    ASSUME StoreConfigured, NEW gen \in Nat, NEW t \in Nat, NEW h, NEW gone \in BOOLEAN
    PROVE  /\ Sound(Store!NewEntry(gen, t, gone), h)
           /\ Store!NewEntry(gen, t, gone).gen = gen
           /\ Store!NewEntry(gen, t, gone).fill = "none"
<1> DEFINE e == Store!NewEntry(gen, t, gone)
<1>1. e = [last |-> t, engine |-> Store!EmptyEngine, fill |-> "none", buffer |-> <<>>,
           boundary |-> None, gen |-> gen, partial |-> gone, lite |-> None, upto |-> 0]
  BY DEF Store!NewEntry
<1>2. <<>> \in Seq(Store!Tape) /\ Len(<<>>) = 0 OBVIOUS
<1>3. Store!EmptyEngine \in [Store!Trades -> Nat]
      /\ \A i \in Store!Trades : Store!EmptyEngine[i] = 0
  BY DEF Store!EmptyEngine
<1>4. e \in StoreEntries BY <1>1, <1>2, <1>3 DEF StoreEntries
<1>5. e.engine = Store!EmptyEngine /\ e.fill = "none" /\ e.buffer = <<>> /\ e.boundary = None
      /\ e.gen = gen
  BY <1>1
<1> HIDE DEF e
<1>6. Shaped(e) BY <1>2, <1>4, <1>5 DEF Shaped, StoreConfigured
<1>7. Sound(e, h) BY <1>2, <1>3, <1>5, <1>6 DEF Sound, InTime
<1> QED BY <1>5, <1>7 DEF e

(* A delivered print keeps the invariant.                                  *)
LEMMA StoreHearKeeps ==
    ASSUME StoreConfigured, StoreInv, NEW i \in Store!Tape, Store!Hear(i)
    PROVE  StoreInv'
<1> DEFINE t == Store!Stamp(i)
           h == storeHeard
           k == storeHeard \cup {i}
<1>0. i \in Nat /\ i \in 1 .. MaxTape BY DEF Store!Tape, StoreConfigured
<1>1. t \in Nat /\ Store!Day(i) \in Nat /\ t \div StoreDayLen = Store!Day(i)
  BY <1>0, StampNat DEF Store!Day
<1>2. i <= storeClock /\ i \notin h /\ storeHeard' = k
      /\ UNCHANGED <<storeClock, budget, task, begun, spliced>>
  BY DEF Store!Hear
<1>3. StoreTyped BY DEF StoreInv
<1>4. storeClock \in 0 .. MaxTape /\ storeClock \in Nat /\ k \subseteq 1 .. storeClock
  BY <1>0, <1>2, <1>3 DEF StoreTyped, StoreConfigured
<1>5. /\ DayOK(storeDay, storeClock) /\ EntryOK(entry, h, storeDay, nextGen)
      /\ TaskOK(task, h, nextGen) /\ FlightOK(task, entry, h, storeDay)
      /\ BudgetOK(budget, begun, storeClock)
      /\ OwedOK(begun, discarded + spliced, task, entry)
  BY DEF StoreInv
<1>6. Store!Day(i) <= Store!Day(storeClock) /\ Store!Day(i) \in Store!Days
  BY <1>0, <1>2, <1>4, StampsGrow, DaysAre
<1>7. BudgetOK(budget', begun', storeClock') BY <1>2, <1>5
<1>8. storeDay # None => storeDay \in Nat BY <1>3, DaysAre DEF StoreTyped
<1>9. discarded \in Nat /\ spliced \in Nat /\ nextGen \in Nat BY <1>3 DEF StoreTyped
<1>10. Total(begun, Store!Days) \in Nat
  <2>1. \A d \in Store!Days : begun[d] \in Nat BY <1>3 DEF StoreTyped
  <2> QED BY <2>1, StoreFinite, TotalHolds
<1>11. Total(begun, Store!Days) <= (discarded + spliced) + Owed(task, entry)
       /\ Owed(task, entry) \in {0, 1}
  BY <1>5 DEF OwedOK, Owed
<1>12. \A n : n \in Nat /\ nextGen <= n => TaskOK(task, k, n)
  <2> SUFFICES ASSUME NEW n \in Nat, nextGen <= n PROVE TaskOK(task, k, n) OBVIOUS
  <2>1. h \subseteq k OBVIOUS
  <2> HIDE DEF k, h
  <2> QED BY <1>5, <1>9, <2>1, TaskGrows
<1> DEFINE stays == IF Store!Rolls(t) THEN None ELSE entry
           gone == IF Store!Rolls(t) THEN FALSE ELSE storeLost
<1>13. \/ /\ Store!Late(t)
          /\ UNCHANGED <<storeDay, entry, storeLost, nextGen, discarded>>
       \/ /\ ~Store!Late(t)
          /\ storeDay' = t \div StoreDayLen
          /\ \/ /\ stays # None
                /\ Store!ApplyTo(stays, i)
                /\ storeLost' = gone /\ UNCHANGED nextGen
             \/ /\ nextGen' = nextGen + 1 /\ storeLost' = gone
                /\ Store!ApplyTo(Store!NewEntry(nextGen + 1, t, gone), i)
             \/ /\ entry' = None /\ storeLost' \in {TRUE, gone}
                /\ UNCHANGED <<nextGen, discarded>>
  BY Zenon DEF Store!Hear, Store!store
<1>14. gone \in BOOLEAN BY <1>3 DEF StoreTyped
<1>15. Store!Late(t) <=> storeDay # None /\ Store!Day(i) < storeDay
  BY <1>1 DEF Store!Late
<1>16. Store!Rolls(t) <=> ~(storeDay # None /\ Store!Day(i) <= storeDay)
  BY <1>1 DEF Store!Rolls
<1> HIDE DEF t, gone
<1>17. CASE Store!Late(t) /\ UNCHANGED <<storeDay, entry, storeLost, nextGen, discarded>>
  <2>1. StoreTyped' BY <1>2, <1>3, <1>4, <1>17 DEF StoreTyped
  <2>2. DayOK(storeDay', storeClock') BY <1>2, <1>5, <1>17
  <2>3. storeDay # None /\ Store!Day(i) < storeDay /\ storeDay \in Nat BY <1>8, <1>15, <1>17
  <2>4. EntryOK(entry, k, storeDay, nextGen)
    <3> SUFFICES ASSUME entry # None PROVE Sound(entry, k) BY <1>5 DEF EntryOK
    <3>1. Sound(entry, h) /\ (entry.fill = "done" => storeDay <= Store!Day(entry.upto))
      BY <1>5 DEF EntryOK
    <3>2. entry.fill = "done" => Store!Day(i) # Store!Day(entry.upto)
      <4>1. entry.upto \in Nat BY <3>1, EntryFields DEF Sound, Shaped
      <4>2. Store!Day(entry.upto) \in Nat BY <4>1, StampNat
      <4> QED BY <1>1, <2>3, <3>1, <4>2
    <3> QED BY <3>1, <3>2, SoundThough
  <2>5. FlightOK(task, entry, k, storeDay)
    <3> SUFFICES ASSUME entry # None, entry.fill = "running"
                 PROVE  /\ task # None /\ task.gen = entry.gen
                        /\ storeDay <= Store!Day(task.upto) /\ Follows(task, entry, k)
      BY DEF FlightOK
    <3>1. /\ task # None /\ task.gen = entry.gen
          /\ storeDay <= Store!Day(task.upto) /\ Follows(task, entry, h)
      BY <1>5 DEF FlightOK
    <3>2. task.upto \in Nat BY <1>5, <3>1 DEF TaskOK, Store!Tasks
    <3>3. Store!Day(task.upto) \in Nat BY <3>2, StampNat
    <3>4. Store!Day(i) # Store!Day(task.upto) BY <1>1, <2>3, <3>1, <3>3
    <3>5. Follows(task, entry, k) BY <3>1, <3>4 DEF Follows
    <3> QED BY <3>1, <3>5
  <2>6. TaskOK(task, k, nextGen) BY <1>9, <1>12
  <2>7. OwedOK(begun', discarded' + spliced', task', entry') BY <1>2, <1>5, <1>17
  <2> QED BY <1>2, <1>7, <1>17, <2>1, <2>2, <2>4, <2>5, <2>6, <2>7 DEF StoreInv
<1>18. ASSUME ~Store!Late(t), storeDay' = t \div StoreDayLen
       PROVE  storeDay' = Store!Day(i) /\ DayOK(storeDay', storeClock') /\ storeDay' # None
  BY <1>1, <1>2, <1>6, <1>18, DaysAre DEF DayOK
<1>19. CASE /\ ~Store!Late(t) /\ storeDay' = t \div StoreDayLen
            /\ stays # None /\ Store!ApplyTo(stays, i)
            /\ storeLost' = gone /\ UNCHANGED nextGen
  <2>1. stays = entry /\ ~Store!Rolls(t) /\ entry # None BY <1>19
  <2>2. storeDay # None /\ storeDay = Store!Day(i) /\ storeDay' = storeDay
    BY <1>1, <1>8, <1>15, <1>16, <1>18, <1>19, <2>1
  <2> DEFINE a == Store!Apply(entry, i)
  <2>3. entry' = a /\ discarded' = IF Store!Breaks(entry, i) THEN discarded + 1 ELSE discarded
    BY <1>19, <2>1 DEF Store!ApplyTo
  <2>4. Sound(entry, h) /\ entry.gen \in 1 .. nextGen
        /\ (entry.fill = "done" => storeDay <= Store!Day(entry.upto))
    BY <1>5, <2>1 DEF EntryOK
  <2>5. /\ Sound(a, k) /\ a.gen = entry.gen /\ a.upto = entry.upto
        /\ a.fill = "done" => entry.fill = "done"
        /\ a.fill = "running" => entry.fill = "running" /\ a.buffer = Append(entry.buffer, i)
        /\ (entry.fill = "running" /\ a.fill # "running") <=> Store!Breaks(entry, i)
    BY <1>2, <2>4, AppliedIs
  <2> HIDE DEF a
  <2>6. discarded' \in Nat BY <1>9, <2>3
  <2>7. StoreTyped' BY <1>2, <1>3, <1>4, <1>14, <1>19, <2>2, <2>6 DEF StoreTyped
  <2>8. EntryOK(entry', k, storeDay', nextGen') BY <1>19, <2>2, <2>3, <2>4, <2>5 DEF EntryOK
  <2>9. FlightOK(task, a, k, storeDay)
    <3> SUFFICES ASSUME a.fill = "running"
                 PROVE  /\ task # None /\ task.gen = a.gen
                        /\ storeDay <= Store!Day(task.upto) /\ Follows(task, a, k)
      BY DEF FlightOK
    <3>1. /\ task # None /\ task.gen = entry.gen
          /\ storeDay <= Store!Day(task.upto) /\ Follows(task, entry, h)
      BY <1>5, <2>1, <2>5 DEF FlightOK
    <3>2. entry.buffer \in Seq(Store!Tape)
      <4>1. entry \in StoreEntries BY <2>4 DEF Sound, Shaped
      <4> QED BY <4>1, EntryFields
    <3> DEFINE q == entry.buffer
    <3>3. a.buffer = Append(q, i) BY <2>5
    <3> HIDE DEF q
    <3>4. Len(a.buffer) = Len(q) + 1 /\ Len(q) \in Nat /\ a.buffer[Len(q) + 1] = i
          /\ \A n \in 1 .. Len(q) : a.buffer[n] = q[n]
      BY <3>2, <3>3 DEF q
    <3>5. ASSUME task.phase = "replaying"
          PROVE  /\ Len(task.first) <= Len(a.buffer)
                 /\ \A n \in 1 .. Len(task.first) : a.buffer[n] = task.first[n]
      <4>1. Len(task.first) <= Len(q) /\ \A n \in 1 .. Len(task.first) : q[n] = task.first[n]
        BY <3>1, <3>5 DEF Follows, q
      <4>2. Len(task.first) \in Nat
        <5>1. task.first \in Seq(Store!Tape) BY <1>5, <3>1 DEF TaskOK, Store!Tasks
        <5> QED BY <5>1
      <4> QED BY <3>4, <4>1, <4>2
    <3>6. ASSUME NEW j \in Store!Tape, j \in k, j > task.upto, Store!Day(j) = Store!Day(task.upto)
          PROVE  Holds(a.buffer, j)
      <4>1. CASE j = i BY <3>4, <4>1 DEF Holds
      <4>2. CASE j # i
        <5>1. Holds(q, j) BY <3>1, <3>6, <4>2 DEF Follows, q
        <5>2. PICK n \in 1 .. Len(q) : q[n] = j BY <5>1 DEF Holds
        <5>3. n \in 1 .. Len(a.buffer) /\ a.buffer[n] = j BY <3>4, <5>2
        <5> QED BY <5>3 DEF Holds
      <4> QED BY <4>1, <4>2
    <3>7. Follows(task, a, k) BY <3>5, <3>6 DEF Follows
    <3> QED BY <2>5, <3>1, <3>7
  <2>10. TaskOK(task, k, nextGen) BY <1>9, <1>12
  <2>11. OwedOK(begun, discarded' + spliced, task, a)
    <3>1. Owed(task, a) \in {0, 1} BY DEF Owed
    <3>2. CASE Store!Breaks(entry, i)
      BY <1>9, <1>10, <1>11, <2>3, <3>1, <3>2 DEF OwedOK
    <3>3. CASE ~Store!Breaks(entry, i)
      <4>1. Owed(task, a) >= Owed(task, entry) BY <2>1, <2>5, <3>3 DEF Owed
      <4> QED BY <1>9, <1>10, <1>11, <2>3, <3>1, <3>3, <4>1 DEF OwedOK
    <3> QED BY <3>2, <3>3
  <2> QED BY <1>2, <1>7, <1>18, <1>19, <2>2, <2>3, <2>7, <2>8, <2>9, <2>10, <2>11 DEF StoreInv
<1>20. CASE /\ ~Store!Late(t) /\ storeDay' = t \div StoreDayLen
            /\ nextGen' = nextGen + 1 /\ storeLost' = gone
            /\ Store!ApplyTo(Store!NewEntry(nextGen + 1, t, gone), i)
  <2> DEFINE e == Store!NewEntry(nextGen + 1, t, gone)
             a == Store!Apply(e, i)
  <2>1. nextGen + 1 \in Nat BY <1>9
  <2>2. Sound(e, h) /\ e.gen = nextGen + 1 /\ e.fill = "none"
    BY <1>1, <1>14, <2>1, NewSound
  <2>3. entry' = a /\ discarded' = IF Store!Breaks(e, i) THEN discarded + 1 ELSE discarded
    BY <1>20, Zenon DEF Store!ApplyTo
  <2> HIDE DEF e
  <2>4. /\ Sound(a, k) /\ a.gen = nextGen + 1 /\ a.fill # "done" /\ a.fill # "running"
    BY <1>2, <2>2, AppliedIs
  <2> HIDE DEF a
  <2>5. discarded' \in Nat /\ discarded' >= discarded BY <1>9, <2>3
  <2>6. StoreTyped'
    BY <1>2, <1>3, <1>4, <1>6, <1>14, <1>18, <1>20, <2>1, <2>5 DEF StoreTyped
  <2>7. EntryOK(entry', k, storeDay', nextGen')
    BY <1>9, <1>18, <1>20, <2>3, <2>4 DEF EntryOK
  <2>8. FlightOK(task, a, k, storeDay') BY <2>4 DEF FlightOK
  <2>9. TaskOK(task, k, nextGen')
    <3>1. nextGen <= nextGen + 1 BY <1>9
    <3> HIDE DEF k
    <3>2. TaskOK(task, k, nextGen + 1) BY <1>12, <2>1, <3>1, Zenon
    <3> QED BY <1>20, <3>2
  <2>10. OwedOK(begun, discarded' + spliced, task, a)
    <3>1. task # None => task.gen \in 1 .. nextGen BY <1>5 DEF TaskOK
    <3>2. Owed(task, a) >= Owed(task, entry)
      <4>1. task = None => Owed(task, entry) = 0 /\ Owed(task, a) = 0 BY DEF Owed
      <4>2. task # None => Owed(task, a) = 1 BY <1>9, <2>4, <3>1 DEF Owed
      <4> QED BY <1>11, <4>1, <4>2
    <3>3. Owed(task, a) \in {0, 1} BY DEF Owed
    <3> QED BY <1>9, <1>10, <1>11, <2>5, <3>2, <3>3 DEF OwedOK
  <2> QED BY <1>2, <1>7, <1>18, <1>20, <2>3, <2>6, <2>7, <2>8, <2>9, <2>10 DEF StoreInv
<1>21. CASE /\ ~Store!Late(t) /\ storeDay' = t \div StoreDayLen
            /\ entry' = None /\ storeLost' \in {TRUE, gone} /\ UNCHANGED <<nextGen, discarded>>
  <2>1. StoreTyped' BY <1>2, <1>3, <1>4, <1>6, <1>14, <1>18, <1>21 DEF StoreTyped
  <2>2. TaskOK(task, k, nextGen) BY <1>9, <1>12
  <2>3. OwedOK(begun, discarded + spliced, task, None)
    <3>1. Owed(task, None) \in {0, 1} /\ Owed(task, None) >= Owed(task, entry) BY DEF Owed
    <3> QED BY <1>9, <1>10, <1>11, <3>1 DEF OwedOK
  <2>4. EntryOK(entry', k, storeDay', nextGen') /\ FlightOK(task, entry', k, storeDay')
    BY <1>21 DEF EntryOK, FlightOK
  <2> QED BY <1>2, <1>7, <1>18, <1>21, <2>1, <2>2, <2>3, <2>4 DEF StoreInv
<1> QED BY <1>13, <1>17, <1>19, <1>20, <1>21

(* Other traffic can only take the entry.                                  *)
LEMMA OtherTrafficKeeps ==
    ASSUME StoreConfigured, StoreInv, Store!OtherTraffic
    PROVE  StoreInv'
<1> DEFINE t == Store!Stamp(storeClock)
<1>1. StoreTyped BY DEF StoreInv
<1>2. storeClock \in 0 .. MaxTape /\ storeClock \in Nat BY <1>1 DEF StoreTyped, StoreConfigured
<1>3. entry' = None /\ storeLost' \in BOOLEAN
      /\ (storeDay' = storeDay \/ storeDay' = t \div StoreDayLen)
  BY DEF Store!OtherTraffic
<1>4. UNCHANGED <<storeClock, storeHeard, nextGen, discarded, budget, task, begun, spliced>>
  BY DEF Store!OtherTraffic
<1>5. t \div StoreDayLen = Store!Day(storeClock) /\ Store!Day(storeClock) \in Store!Days
      /\ Store!Day(storeClock) \in Nat
  BY <1>2, DaysAre, StampNat DEF Store!Day
<1> HIDE DEF t
<1>6. StoreTyped' BY <1>1, <1>3, <1>4, <1>5 DEF StoreTyped
<1>7. DayOK(storeDay', storeClock') BY <1>3, <1>4, <1>5 DEF StoreInv, DayOK
<1>8. EntryOK(entry', storeHeard', storeDay', nextGen')
      /\ FlightOK(task', entry', storeHeard', storeDay')
  BY <1>3 DEF EntryOK, FlightOK
<1>9. OwedOK(begun', discarded' + spliced', task', entry')
  <2>1. \A d \in Store!Days : begun[d] \in Nat BY <1>1 DEF StoreTyped
  <2>2. Total(begun, Store!Days) \in Nat BY <2>1, StoreFinite, TotalHolds
  <2>3. Total(begun, Store!Days) <= (discarded + spliced) + Owed(task, entry)
    BY DEF StoreInv, OwedOK
  <2>4. Owed(task, entry) \in {0, 1} /\ Owed(task, None) \in {0, 1}
        /\ Owed(task, entry) <= Owed(task, None)
    BY DEF Owed
  <2>5. discarded \in Nat /\ spliced \in Nat BY <1>1 DEF StoreTyped
  <2> QED BY <1>3, <1>4, <2>2, <2>3, <2>4, <2>5 DEF OwedOK
<1> QED BY <1>4, <1>6, <1>7, <1>8, <1>9 DEF StoreInv

(* An engine's volume is a number.                                         *)
LEMMA VolumeNat ==
    ASSUME StoreConfigured, NEW f \in [Store!Trades -> Nat]
    PROVE  Store!Volume(f) \in Nat
<1>1. \A i \in Store!Trades : f[i] \in Nat OBVIOUS
<1>2. Total(f, Store!Trades) \in Nat BY <1>1, StoreFinite, TotalHolds
<1> QED BY <1>2, StoreFinite, VolumeIs

(* A started attempt leaves a sound entry with an empty buffer.            *)
LEMMA StartedSound ==
    ASSUME StoreConfigured, NEW e, NEW h, Sound(e, h), NEW b \in Store!Boundaries
    PROVE  LET a == [e EXCEPT !.fill = "running", !.buffer = <<>>, !.boundary = b]
           IN  /\ Sound(a, h) /\ a.gen = e.gen /\ a.fill = "running" /\ a.buffer = <<>>
<1> DEFINE a == [e EXCEPT !.fill = "running", !.buffer = <<>>, !.boundary = b]
<1>0. e \in StoreEntries BY DEF Sound, Shaped
<1>1. a.engine = e.engine /\ a.gen = e.gen /\ a.fill = "running" /\ a.buffer = <<>>
      /\ a.boundary = b
  BY <1>0 DEF StoreEntries
<1>2. <<>> \in Seq(Store!Tape) /\ Len(<<>>) = 0 OBVIOUS
<1>3. a \in StoreEntries BY <1>0, <1>2 DEF StoreEntries
<1>4. b # None BY DEF StoreConfigured
<1> HIDE DEF a
<1>5. Shaped(a) BY <1>1, <1>2, <1>3, <1>4 DEF Shaped, StoreConfigured
<1>6. Sound(a, h) BY <1>1, <1>2, <1>5 DEF Sound, InTime
<1> QED BY <1>1, <1>6 DEF a

(* What was spent today covers what was begun today, and a later day has   *)
(* begun nothing.                                                          *)
LEMMA SpentCovers ==
    ASSUME StoreConfigured, StoreInv
    PROVE  LET d == Store!Day(storeClock) IN
           /\ d \in Store!Days /\ d \in Nat
           /\ Store!SpentToday(d) \in 0 .. MaxPerDay
           /\ begun[d] <= Store!SpentToday(d)
           /\ \A x \in Store!Days : x > d => begun[x] = 0
<1> DEFINE d == Store!Day(storeClock)
<1>1. StoreTyped BY DEF StoreInv
<1>2. d \in Store!Days /\ d \in Nat
  <2>1. storeClock \in 0 .. MaxTape BY <1>1 DEF StoreTyped
  <2> QED BY <2>1, DaysAre
<1>3. BudgetOK(budget, begun, storeClock) BY DEF StoreInv
<1>4. budget.day \in Store!Days \cup {None} /\ budget.started \in 0 .. MaxPerDay
  BY <1>1 DEF StoreTyped
<1>5. MaxPerDay \in Nat /\ 0 \in 0 .. MaxPerDay BY DEF StoreConfigured
<1> HIDE DEF d
<1>6. Store!SpentToday(d) = IF budget.day = d THEN budget.started ELSE 0
  BY DEF Store!SpentToday
<1>7. budget.day # None => budget.day \in Nat /\ budget.day <= d
  BY <1>3, <1>4, DaysAre DEF BudgetOK, d
<1>8. begun[d] <= Store!SpentToday(d)
  <2>1. CASE budget.day = d
    <3>1. d # None BY <1>2, DaysAre
    <3> QED BY <1>3, <1>6, <2>1, <3>1 DEF BudgetOK
  <2>2. CASE budget.day # d
    <3>1. begun[d] = 0
      <4>1. CASE budget.day = None BY <1>2, <1>3, <4>1 DEF BudgetOK
      <4>2. CASE budget.day # None
        <5>1. d > budget.day BY <1>2, <1>7, <2>2, <4>2
        <5> QED BY <1>2, <1>3, <4>2, <5>1 DEF BudgetOK
      <4> QED BY <4>1, <4>2
    <3> QED BY <1>6, <2>2, <3>1
  <2> QED BY <2>1, <2>2
<1>9. ASSUME NEW x \in Store!Days, x > d PROVE begun[x] = 0
  <2>1. CASE budget.day = None BY <1>3, <2>1 DEF BudgetOK
  <2>2. CASE budget.day # None
    <3>1. x \in Nat BY DaysAre
    <3>2. x > budget.day BY <1>2, <1>7, <1>9, <2>2, <3>1
    <3> QED BY <1>3, <2>2, <3>2 DEF BudgetOK
  <2> QED BY <2>1, <2>2
<1>10. Store!SpentToday(d) \in 0 .. MaxPerDay BY <1>4, <1>5, <1>6
<1> QED BY <1>2, <1>8, <1>9, <1>10 DEF d

(* Starting an attempt keeps the invariant.                                *)
LEMMA MaybeStartKeeps ==
    ASSUME StoreConfigured, StoreInv, Store!MaybeStart
    PROVE  StoreInv'
<1> DEFINE d == Store!Day(storeClock)
           n == Store!SpentToday(d)
<1>1. StoreTyped BY DEF StoreInv
<1>2. /\ d \in Store!Days /\ d \in Nat /\ n \in 0 .. MaxPerDay /\ begun[d] <= n
      /\ \A x \in Store!Days : x > d => begun[x] = 0
  BY SpentCovers
<1>3. UNCHANGED <<storeClock, storeHeard, storeDay, storeLost, nextGen, discarded, spliced>>
      /\ task = None /\ n < MaxPerDay
  BY DEF Store!MaybeStart
<1>4. /\ DayOK(storeDay, storeClock) /\ EntryOK(entry, storeHeard, storeDay, nextGen)
      /\ TaskOK(task, storeHeard, nextGen)
      /\ FlightOK(task, entry, storeHeard, storeDay)
      /\ BudgetOK(budget, begun, storeClock)
      /\ OwedOK(begun, discarded + spliced, task, entry)
  BY DEF StoreInv
<1>5. d # None /\ MaxPerDay \in Nat BY <1>2, DaysAre DEF StoreConfigured
<1>6. /\ begun \in [Store!Days -> Nat] /\ storeClock \in 0 .. MaxTape /\ storeClock \in Nat
      /\ discarded \in Nat /\ spliced \in Nat
  BY <1>1 DEF StoreTyped, StoreConfigured
<1>7. CASE ~Store!Eligible /\ budget' = [day |-> d, started |-> n]
           /\ UNCHANGED <<entry, task, begun>>
  <2>1. budget' \in [day : Store!Days \cup {None}, started : 0 .. MaxPerDay]
        /\ budget'.day = d /\ budget'.started = n
    BY <1>2, <1>7
  <2>2. StoreTyped' BY <1>1, <1>3, <1>7, <2>1 DEF StoreTyped
  <2>3. BudgetOK(budget', begun, storeClock)
    <3>1. \A x \in Store!Days : begun[x] <= MaxPerDay BY <1>4 DEF BudgetOK
    <3>2. d <= Store!Day(storeClock) BY <1>2
    <3> HIDE DEF d, n
    <3> QED BY <1>2, <1>5, <2>1, <3>1, <3>2 DEF BudgetOK
  <2> QED BY <1>3, <1>4, <1>7, <2>2, <2>3 DEF StoreInv
<1>8. CASE /\ Store!Eligible
           /\ budget' = [day |-> d, started |-> n + 1]
           /\ entry' = [entry EXCEPT !.fill = "running", !.buffer = <<>>,
                          !.boundary = [at |-> entry.last, volume |-> Store!Volume(entry.engine)]]
           /\ task' = [gen |-> entry.gen, upto |-> storeClock, phase |-> "fetching",
                       first |-> <<>>]
           /\ begun' = [begun EXCEPT ![d] = @ + 1]
  <2>1. entry # None /\ entry.fill = "none" BY <1>8 DEF Store!Eligible
  <2>2. Sound(entry, storeHeard) /\ entry.gen \in 1 .. nextGen /\ storeDay # None
    BY <1>4, <2>1 DEF EntryOK
  <2> DEFINE b == [at |-> entry.last, volume |-> Store!Volume(entry.engine)]
             a == [entry EXCEPT !.fill = "running", !.buffer = <<>>, !.boundary = b]
  <2>3. b \in Store!Boundaries
    <3>1. entry \in StoreEntries BY <2>2 DEF Sound, Shaped
    <3>2. Store!Volume(entry.engine) \in Nat BY <3>1, EntryFields, VolumeNat
    <3>3. entry.last \in Nat BY <3>1, EntryFields
    <3> QED BY <3>2, <3>3 DEF Store!Boundaries
  <2>4. entry' = a BY <1>8
  <2> HIDE DEF b
  <2>5. Sound(a, storeHeard) /\ a.gen = entry.gen /\ a.fill = "running" /\ a.buffer = <<>>
    BY <2>2, <2>3, StartedSound
  <2> HIDE DEF a
  <2>6. EntryOK(entry', storeHeard', storeDay', nextGen')
    BY <1>3, <2>2, <2>4, <2>5 DEF EntryOK
  <2> DEFINE u == [gen |-> entry.gen, upto |-> storeClock, phase |-> "fetching",
                   first |-> <<>>]
  <2>7. u \in Store!Tasks /\ u.gen = entry.gen /\ u.upto = storeClock /\ u.phase = "fetching"
    <3>1. entry.gen \in Nat /\ <<>> \in Seq(Store!Tape) BY <2>2
    <3> QED BY <1>6, <3>1 DEF Store!Tasks
  <2>8. task' = u BY <1>8
  <2>9. u # None BY <2>7 DEF StoreConfigured
  <2> HIDE DEF u
  <2>10. TaskOK(task', storeHeard', nextGen') BY <1>3, <2>2, <2>7, <2>8 DEF TaskOK
  <2>11. FlightOK(task', entry', storeHeard', storeDay')
    <3>1. storeDay <= Store!Day(storeClock) BY <1>4, <2>2 DEF DayOK
    <3>2. \A i \in storeHeard : i <= storeClock BY <1>1, <1>6 DEF StoreTyped
    <3>3. \A i \in Store!Tape : i \in Nat BY DEF Store!Tape, StoreConfigured
    <3>4. Follows(u, a, storeHeard) BY <1>6, <2>7, <3>2, <3>3 DEF Follows
    <3> QED BY <1>3, <2>4, <2>5, <2>7, <2>8, <2>9, <3>1, <3>4 DEF FlightOK
  <2>12. /\ begun' \in [Store!Days -> Nat] /\ begun'[d] = begun[d] + 1
         /\ \A x \in Store!Days : x # d => begun'[x] = begun[x]
    BY <1>2, <1>6, <1>8
  <2>13. budget' \in [day : Store!Days \cup {None}, started : 0 .. MaxPerDay]
        /\ budget'.day = d /\ budget'.started = n + 1
    <3>1. n + 1 \in 0 .. MaxPerDay BY <1>2, <1>3, <1>5
    <3> HIDE DEF n, d
    <3> QED BY <1>2, <1>8, <3>1
  <2>14. StoreTyped' BY <1>1, <1>3, <2>12, <2>13 DEF StoreTyped
  <2>15. BudgetOK(budget', begun', storeClock)
    <3>1. \A x \in Store!Days : begun[x] <= MaxPerDay BY <1>4 DEF BudgetOK
    <3>2. d <= Store!Day(storeClock) BY <1>2
    <3>3. Store!Days \subseteq Nat BY DaysAre
    <3> HIDE DEF d, n
    <3>4. begun[d] \in Nat BY <1>2, <1>6
    <3>5. begun'[d] <= n + 1 /\ begun'[d] <= MaxPerDay
      BY <1>2, <1>3, <1>5, <2>12, <3>4
    <3>6. \A x \in Store!Days : begun'[x] <= MaxPerDay BY <2>12, <3>1, <3>5
    <3>7. \A x \in Store!Days : x > d => begun'[x] = 0 BY <1>2, <2>12, <3>3
    <3> QED BY <1>5, <2>13, <3>2, <3>5, <3>6, <3>7 DEF BudgetOK
  <2>16. OwedOK(begun', discarded + spliced, task', entry')
    <3> HIDE DEF d, n
    <3>1. \A x \in Store!Days : begun[x] \in Int /\ begun'[x] \in Int BY <1>6, <2>12
    <3> DEFINE f == begun
               g == begun'
    <3>2. Total(g, Store!Days) = Total(f, Store!Days) + (g[d] - f[d])
      <4>1. \A x \in Store!Days : f[x] \in Int /\ g[x] \in Int BY <3>1
      <4>2. \A x \in Store!Days : x # d => g[x] = f[x] BY <2>12
      <4>3. IsFiniteSet(Store!Days) /\ d \in Store!Days BY <1>2, StoreFinite
      <4> HIDE DEF f, g
      <4> QED BY <4>1, <4>2, <4>3, TotalChange
    <3>3. \A x \in Store!Days : begun[x] \in Nat BY <1>6
    <3>4. Total(begun, Store!Days) \in Nat BY <3>3, StoreFinite, TotalHolds
    <3>5. Total(begun', Store!Days) = Total(begun, Store!Days) + 1
      BY <1>2, <2>12, <3>2, <3>3, <3>4
    <3>6. Total(begun, Store!Days) <= discarded + spliced + 0
      BY <1>3, <1>4 DEF OwedOK, Owed
    <3>7. Owed(task', entry') = 1 BY <2>4, <2>5, <2>7, <2>8, <2>9 DEF Owed
    <3> QED BY <1>6, <3>4, <3>5, <3>6, <3>7 DEF OwedOK
  <2>17. DayOK(storeDay', storeClock') BY <1>3, <1>4
  <2> QED BY <1>3, <2>6, <2>10, <2>11, <2>14, <2>15, <2>16, <2>17 DEF StoreInv
<1>9. \/ ~Store!Eligible /\ budget' = [day |-> d, started |-> n]
         /\ UNCHANGED <<entry, task, begun>>
      \/ /\ Store!Eligible
         /\ budget' = [day |-> d, started |-> n + 1]
         /\ entry' = [entry EXCEPT !.fill = "running", !.buffer = <<>>,
                        !.boundary = [at |-> entry.last, volume |-> Store!Volume(entry.engine)]]
         /\ task' = [gen |-> entry.gen, upto |-> storeClock, phase |-> "fetching",
                     first |-> <<>>]
         /\ begun' = [begun EXCEPT ![d] = @ + 1]
  BY DEF Store!MaybeStart
<1> HIDE DEF d, n
<1> QED BY <1>7, <1>8, <1>9

-----------------------------------------------------------------------------
(* The first look keeps the invariant: it has the whole history of a feed  *)
(* that owes nothing.                                                      *)
LEMMA FetchedKeeps ==
    ASSUME StoreConfigured, ~FeedLags, StoreInv, Store!Fetched
    PROVE  StoreInv'
<1>1. StoreTyped BY DEF StoreInv
<1>2. task # None /\ task.phase = "fetching" /\ 1 .. task.upto \subseteq storeHeard
      /\ UNCHANGED <<storeClock, storeHeard, storeDay, storeLost, nextGen, budget, begun,
                     entry, discarded, spliced>>
  BY DEF Store!Fetched, Store!TaskOnly
<1>3. /\ DayOK(storeDay, storeClock) /\ EntryOK(entry, storeHeard, storeDay, nextGen)
      /\ TaskOK(task, storeHeard, nextGen)
      /\ FlightOK(task, entry, storeHeard, storeDay)
      /\ BudgetOK(budget, begun, storeClock)
      /\ OwedOK(begun, discarded + spliced, task, entry)
  BY DEF StoreInv
<1>4. task \in Store!Tasks /\ task.gen \in 1 .. nextGen BY <1>2, <1>3 DEF TaskOK
<1>5. \/ /\ Store!Spliceable
         /\ task' = [task EXCEPT !.phase = "replaying", !.first = entry.buffer]
      \/ task' = [task EXCEPT !.phase = "refusing"]
  BY DEF Store!Fetched
<1>6. StoreTyped' BY <1>1, <1>2 DEF StoreTyped
<1>7. ASSUME task' \in Store!Tasks, task'.gen = task.gen, task'.upto = task.upto,
             task'.phase = "replaying" =>
                /\ Learned(task', storeHeard)
                /\ entry # None /\ entry.gen = task.gen => task'.first = entry.buffer
      PROVE  StoreInv'
  <2>1. task' # None BY <1>7 DEF StoreConfigured
  <2>2. TaskOK(task', storeHeard', nextGen') BY <1>2, <1>4, <1>7 DEF TaskOK
  <2>3. Owed(task', entry') = Owed(task, entry) BY <1>2, <1>7, <2>1 DEF Owed
  <2>4. OwedOK(begun', discarded' + spliced', task', entry') BY <1>2, <1>3, <2>3 DEF OwedOK
  <2>5. FlightOK(task', entry', storeHeard', storeDay')
    <3> SUFFICES ASSUME entry # None, entry.fill = "running"
                 PROVE  /\ task' # None /\ task'.gen = entry.gen
                        /\ storeDay <= Store!Day(task'.upto) /\ Follows(task', entry, storeHeard)
      BY <1>2 DEF FlightOK
    <3>1. task.gen = entry.gen /\ storeDay <= Store!Day(task.upto)
          /\ Follows(task, entry, storeHeard)
      BY <1>3 DEF FlightOK
    <3>2. entry.buffer \in Seq(Store!Tape)
      <4>1. entry \in StoreEntries BY <1>3 DEF EntryOK, Sound, Shaped
      <4> QED BY <4>1, EntryFields
    <3>3. Len(entry.buffer) \in Nat BY <3>2
    <3>4. task'.phase = "replaying" => task'.first = entry.buffer BY <1>7, <3>1
    <3>5. Follows(task', entry, storeHeard) BY <1>7, <3>1, <3>3, <3>4 DEF Follows
    <3> QED BY <1>7, <2>1, <3>1, <3>5
  <2> QED BY <1>2, <1>3, <1>6, <2>2, <2>4, <2>5 DEF StoreInv
<1>8. CASE task' = [task EXCEPT !.phase = "refusing"]
  <2>1. task' \in Store!Tasks /\ task'.gen = task.gen /\ task'.upto = task.upto
        /\ task'.phase = "refusing"
    BY <1>4, <1>8 DEF Store!Tasks
  <2> QED BY <1>7, <2>1
<1>9. CASE /\ Store!Spliceable
           /\ task' = [task EXCEPT !.phase = "replaying", !.first = entry.buffer]
  <2>1. entry # None /\ entry.gen = task.gen /\ Store!Overlaps(entry.buffer)
    BY <1>9 DEF Store!Spliceable, Store!InFlight, Store!Mine
  <2>2. entry.buffer \in Seq(Store!Tape)
    <3>1. entry \in StoreEntries BY <1>3, <2>1 DEF EntryOK, Sound, Shaped
    <3> QED BY <3>1, EntryFields
  <2> DEFINE q == entry.buffer
  <2>3. q \in Seq(Store!Tape) BY <2>2
  <2>4. task' = [task EXCEPT !.phase = "replaying", !.first = q] BY <1>9
  <2>5. DOMAIN q = 1 .. Len(q) BY <2>3
  <2>6. Store!Overlaps(q) BY <2>1
  <2> HIDE DEF q
  <2>7. task' \in Store!Tasks /\ task'.gen = task.gen /\ task'.upto = task.upto
        /\ task'.first = q
    BY <1>4, <2>3, <2>4 DEF Store!Tasks
  <2>8. Learned(task', storeHeard)
    <3>1. ASSUME NEW i \in Store!Tape, i <= task.upto, Store!Day(i) = Store!Day(task.upto),
                 Store!Cut(q, i)
          PROVE  Holds(q, i)
      <4>1. i \in Store!History BY <3>1 DEF Store!History
      <4> QED BY <2>5, <2>6, <3>1, <4>1 DEF Store!Overlaps, Holds
    <3> QED BY <1>2, <2>7, <3>1 DEF Learned
  <2>9. task'.first = entry.buffer BY <2>7 DEF q
  <2> QED BY <1>7, <2>7, <2>8, <2>9
<1> QED BY <1>5, <1>8, <1>9

(* Reading the summary keeps the invariant.                                *)
LEMMA ReadLiteKeeps == ASSUME StoreConfigured, StoreInv, Store!ReadLite PROVE StoreInv'
<1>1. StoreTyped BY DEF StoreInv
<1>2. UNCHANGED <<storeClock, storeHeard, storeDay, storeLost, nextGen, discarded, budget,
                  task, begun, spliced>>
      /\ entry # None
  BY DEF Store!ReadLite
<1>3. /\ DayOK(storeDay, storeClock) /\ EntryOK(entry, storeHeard, storeDay, nextGen)
      /\ TaskOK(task, storeHeard, nextGen)
      /\ FlightOK(task, entry, storeHeard, storeDay)
      /\ BudgetOK(budget, begun, storeClock)
      /\ OwedOK(begun, discarded + spliced, task, entry)
  BY DEF StoreInv
<1> DEFINE t == Store!Stamp(storeClock)
<1>4. entry' = [entry EXCEPT !.lite = [at |-> t, engine |-> entry.engine]]
  BY DEF Store!ReadLite
<1>5. t \in Nat
  <2>1. storeClock \in Nat BY <1>1 DEF StoreTyped, StoreConfigured
  <2> QED BY <2>1, StampNat
<1> HIDE DEF t
<1>6. Sound(entry, storeHeard) /\ entry.gen \in 1 .. nextGen /\ storeDay # None
      /\ (entry.fill = "done" => storeDay <= Store!Day(entry.upto))
  BY <1>2, <1>3 DEF EntryOK
<1>7. entry \in StoreEntries BY <1>6 DEF Sound, Shaped
<1> DEFINE x == [at |-> t, engine |-> entry.engine]
<1>8. x \in [at : Nat, engine : [Store!Trades -> Nat]] /\ x.engine = entry.engine
  BY <1>5, <1>7, EntryFields
<1>9. entry' = [entry EXCEPT !.lite = x] BY <1>4
<1> HIDE DEF x
<1>10. /\ entry'.engine = entry.engine /\ entry'.gen = entry.gen /\ entry'.fill = entry.fill
       /\ entry'.buffer = entry.buffer /\ entry'.boundary = entry.boundary
       /\ entry'.upto = entry.upto /\ entry'.lite = x
  BY <1>7, <1>9 DEF StoreEntries
<1>11. entry' \in StoreEntries BY <1>7, <1>8, <1>9 DEF StoreEntries
<1>12. Shaped(entry') BY <1>6, <1>10, <1>11 DEF Sound, Shaped
<1>13. CountsDay(entry.engine, storeHeard, entry.upto) => CountsPast(x.engine, entry.upto)
  BY <1>8 DEF CountsDay, CountsPast
<1>14. Sound(entry', storeHeard) BY <1>6, <1>10, <1>12, <1>13 DEF Sound
<1>15. EntryOK(entry', storeHeard', storeDay', nextGen')
  BY <1>2, <1>6, <1>10, <1>14 DEF EntryOK
<1>16. FlightOK(task', entry', storeHeard', storeDay')
  BY <1>2, <1>3, <1>10 DEF FlightOK, Follows
<1>17. OwedOK(begun', discarded' + spliced', task', entry')
  <2>1. \A d \in Store!Days : begun[d] \in Nat BY <1>1 DEF StoreTyped
  <2>2. Total(begun, Store!Days) \in Nat BY <2>1, StoreFinite, TotalHolds
  <2>3. Total(begun, Store!Days) <= (discarded + spliced) + Owed(task, entry)
    BY <1>3 DEF OwedOK
  <2>4. Owed(task, entry) \in {0, 1} /\ Owed(task, entry') \in {0, 1}
        /\ Owed(task, entry) <= Owed(task, entry')
    BY <1>2, <1>10 DEF Owed
  <2>5. discarded \in Nat /\ spliced \in Nat BY <1>1 DEF StoreTyped
  <2> QED BY <1>2, <2>2, <2>3, <2>4, <2>5 DEF OwedOK
<1>18. StoreTyped' BY <1>1, <1>2 DEF StoreTyped
<1> QED BY <1>2, <1>3, <1>15, <1>16, <1>17, <1>18 DEF StoreInv

-----------------------------------------------------------------------------
(* A buffer holds a print once or not at all.                              *)
LEMMA HeldOnce ==
    ASSUME NEW q \in Seq(Store!Tape), NEW h, InTime(q, h), NEW i
    PROVE  Store!Cardinality({n \in DOMAIN q : q[n] = i}) = IF Holds(q, i) THEN 1 ELSE 0
<1> DEFINE S == {n \in DOMAIN q : q[n] = i}
<1>1. DOMAIN q = 1 .. Len(q) /\ Len(q) \in Nat OBVIOUS
<1>2. Store!Cardinality(S) = Cardinality(S) BY SameCard
<1>3. CASE ~Holds(q, i)
  <2>1. S = {} BY <1>1, <1>3 DEF Holds
  <2> QED BY <1>2, <1>3, <2>1, FS_EmptySet
<1>4. CASE Holds(q, i)
  <2>1. PICK n \in 1 .. Len(q) : q[n] = i BY <1>4 DEF Holds
  <2>2. ASSUME NEW m \in 1 .. Len(q), q[m] = i PROVE m = n
    <3>1. m < n \/ n < m \/ m = n OBVIOUS
    <3> QED BY <2>1, <2>2, <3>1 DEF InTime
  <2>3. S = {n} BY <1>1, <2>1, <2>2
  <2>4. Cardinality({n}) = 1 BY FS_Singleton
  <2> QED BY <1>2, <1>4, <2>3, <2>4
<1> QED BY <1>3, <1>4

(* The replay counts each trade of the day once: the history before the    *)
(* cut and the buffer after it have none in common and miss none between.  *)
LEMMA ReplayedIs ==
    ASSUME StoreConfigured, NEW h,
           task \in Store!Tasks, task.phase = "replaying", Learned(task, h),
           entry.buffer \in Seq(Store!Tape), InTime(entry.buffer, h),
           Follows(task, entry, h), Store!InFlight(task.gen), ~Store!Ambiguous
    PROVE  /\ Store!Replayed \in [Store!Trades -> Nat]
           /\ \A i \in Store!Trades :
                 Store!Replayed[i] <= 1 /\ (Store!Replayed[i] # 0 => i \in h)
           /\ CountsDay(Store!Replayed, h, task.upto)
<1> DEFINE q == entry.buffer
           f == task.first
           u == task.upto
           past == {i \in Store!History : ~Store!Cut(f, i)}
           old == [i \in Store!Trades |-> IF i \in past THEN 1 ELSE 0]
           r == Store!Replayed
<1>1. u \in Nat /\ f \in Seq(Store!Tape) /\ Len(f) \in Nat BY DEF Store!Tasks
<1>2. q \in Seq(Store!Tape) /\ InTime(q, h) /\ Len(q) \in Nat OBVIOUS
<1>3. \A i : i \in Store!Tape => i \in Nat /\ i \in 1 .. MaxTape
  BY DEF Store!Tape, StoreConfigured
<1>4. \A i \in Store!Trades : i \in Store!Tape BY DEF Store!Trades
<1>5. \A i : i \in Store!History <=> i \in Store!Tape /\ i <= u /\ Store!Day(i) = Store!Day(u)
  BY DEF Store!History
<1>6. /\ Len(f) <= Len(q)
      /\ \A n \in 1 .. Len(f) : q[n] = f[n]
      /\ \A i \in Store!Tape :
            (i \in h /\ i > u /\ Store!Day(i) = Store!Day(u)) => Holds(q, i)
  BY DEF Follows
<1>7. /\ 1 .. u \subseteq h
      /\ \A i \in Store!Tape :
            (i <= u /\ Store!Day(i) = Store!Day(u) /\ Store!Cut(f, i)) => Holds(f, i)
  BY DEF Learned
<1>8. f = <<>> /\ q # <<>> => \A i \in Store!History : ~(Store!Stamp(q[1]) <= Store!Stamp(i))
  BY DEF Store!Ambiguous
<1>9. r = [i \in Store!Trades |-> old[i] + Store!Cardinality({n \in DOMAIN q : q[n] = i})]
  BY DEF Store!Replayed, Store!CountedAll
<1>10. \A i : Store!Cut(f, i) <=> f # <<>> /\ Store!Stamp(i) >= Store!Stamp(f[1])
  BY DEF Store!Cut
<1> HIDE DEF q, f, u, r
<1>11. \A i \in Store!Trades :
          r[i] = (IF i \in past THEN 1 ELSE 0) + (IF Holds(q, i) THEN 1 ELSE 0)
  <2> SUFFICES ASSUME NEW i \in Store!Trades
               PROVE  r[i] = (IF i \in past THEN 1 ELSE 0) + (IF Holds(q, i) THEN 1 ELSE 0)
    OBVIOUS
  <2>1. Store!Cardinality({n \in DOMAIN q : q[n] = i}) = IF Holds(q, i) THEN 1 ELSE 0
    BY <1>2, HeldOnce
  <2>2. r[i] = old[i] + Store!Cardinality({n \in DOMAIN q : q[n] = i}) BY <1>9
  <2>3. old[i] = IF i \in past THEN 1 ELSE 0 OBVIOUS
  <2> HIDE DEF past, old
  <2> QED BY <2>1, <2>2, <2>3
<1>12. ASSUME NEW i \in past, Holds(q, i) PROVE FALSE
  <2>1. i \in Store!Tape /\ i \in Nat /\ i <= u /\ i \in Store!History BY <1>3, <1>5
  <2>2. PICK n \in 1 .. Len(q) : q[n] = i BY <1>12 DEF Holds
  <2>3. 1 \in 1 .. Len(q) /\ q[1] \in Store!Tape /\ q # <<>> BY <1>2, <2>2
  <2>4. Store!Stamp(q[1]) <= Store!Stamp(i)
    <3>1. CASE n = 1
      <4>1. i <= i BY <2>1
      <4>2. Store!Stamp(i) <= Store!Stamp(i) BY <2>1, <4>1, StampsGrow
      <4> QED BY <2>2, <3>1, <4>2
    <3>2. CASE n # 1
      <4>1. 1 < n BY <2>2, <3>2
      <4> QED BY <1>2, <2>2, <2>3, <4>1 DEF InTime
    <3> QED BY <3>1, <3>2
  <2>5. CASE f = <<>> BY <1>8, <2>1, <2>3, <2>4, <2>5
  <2>6. CASE f # <<>>
    <3>1. 1 \in 1 .. Len(f) BY <1>1, <2>6
    <3>2. q[1] = f[1] BY <1>6, <3>1
    <3>3. Store!Stamp(q[1]) \in Nat /\ Store!Stamp(i) \in Nat BY <1>3, <2>1, <2>3, StampNat
    <3>4. Store!Cut(f, i) BY <1>10, <2>4, <2>6, <3>2, <3>3
    <3> QED BY <3>4
  <2> QED BY <2>5, <2>6
<1>13. ASSUME NEW i \in Store!Trades PROVE r[i] \in Nat /\ r[i] <= 1 /\ (r[i] # 0 => i \in h)
  <2>1. r[i] \in Nat /\ r[i] <= 1 /\ (r[i] # 0 => i \in past \/ Holds(q, i))
    <3> HIDE DEF past
    <3> QED BY <1>11, <1>12
  <2>2. Holds(q, i) => i \in h BY <1>2 DEF InTime, Holds
  <2>3. i \in past => i \in h
    <3>1. i \in past => i \in 1 .. u BY <1>1, <1>3, <1>5
    <3> QED BY <1>7, <3>1
  <2> QED BY <2>1, <2>2, <2>3
<1>14. ASSUME NEW i \in Store!Trades, Store!Day(i) = Store!Day(u), i \in h \/ i <= u
       PROVE  r[i] >= 1
  <2>1. i \in Store!Tape /\ i \in Nat BY <1>3, <1>4
  <2>2. i \in past \/ Holds(q, i)
    <3>1. CASE i <= u
      <4>1. CASE Store!Cut(f, i)
        <5>1. PICK n \in 1 .. Len(f) : f[n] = i BY <1>7, <1>14, <2>1, <3>1, <4>1 DEF Holds
        <5>2. n \in 1 .. Len(q) /\ q[n] = i BY <1>1, <1>2, <1>6, <5>1
        <5> QED BY <5>2 DEF Holds
      <4>2. CASE ~Store!Cut(f, i) BY <1>5, <1>14, <2>1, <3>1, <4>2
      <4> QED BY <4>1, <4>2
    <3>2. CASE ~(i <= u)
      <4>1. i > u /\ i \in h BY <1>1, <1>14, <2>1, <3>2
      <4> QED BY <1>6, <1>14, <2>1, <4>1
    <3> QED BY <3>1, <3>2
  <2> HIDE DEF past
  <2> QED BY <1>11, <2>2
<1>15. r \in [Store!Trades -> Nat]
  <2>1. DOMAIN r = Store!Trades /\ r = [i \in Store!Trades |-> r[i]] BY <1>9
  <2> QED BY <1>13, <2>1
<1>16. CountsDay(r, h, u) BY <1>14 DEF CountsDay
<1> QED BY <1>13, <1>15, <1>16 DEF r, u

(* An entry after the splice, and a replay up to u of what was heard.      *)
Spliced(a, e, r, u) ==
    a = [e EXCEPT !.engine = r, !.fill = "done", !.buffer = <<>>, !.boundary = None,
                  !.lite = None, !.upto = u]
Replays(r, h, u) ==
    /\ r \in [Store!Trades -> Nat]
    /\ \A i \in Store!Trades : r[i] <= 1 /\ (r[i] # 0 => i \in h)
    /\ CountsDay(r, h, u)

(* A finished splice leaves a sound entry.                                 *)
LEMMA SplicedSound ==
    ASSUME StoreConfigured, NEW e, NEW h, Sound(e, h), NEW r, NEW u \in Nat, Replays(r, h, u),
           NEW a, Spliced(a, e, r, u)
    PROVE  Sound(a, h) /\ a.gen = e.gen /\ a.fill = "done" /\ a.upto = u
<1> USE DEF Spliced, Replays
<1>0. e \in StoreEntries BY DEF Sound, Shaped
<1>1. a.engine = r /\ a.gen = e.gen /\ a.fill = "done" /\ a.buffer = <<>>
      /\ a.boundary = None /\ a.lite = None /\ a.upto = u
  BY <1>0 DEF StoreEntries
<1>2. <<>> \in Seq(Store!Tape) /\ Len(<<>>) = 0 OBVIOUS
<1>3. a \in StoreEntries BY <1>0, <1>2 DEF StoreEntries
<1>4. Shaped(a) BY <1>1, <1>2, <1>3 DEF Shaped, StoreConfigured
<1>5. Sound(a, h) BY <1>1, <1>2, <1>4 DEF Sound, InTime
<1> QED BY <1>1, <1>5

(* The commit keeps the invariant.                                         *)
LEMMA StoreCommitKeeps == ASSUME StoreConfigured, StoreInv, Store!Commit PROVE StoreInv'
<1>1. StoreTyped BY DEF StoreInv
<1>2. task # None /\ task.phase = "replaying" /\ task' = None
      /\ UNCHANGED <<storeClock, storeHeard, storeDay, storeLost, nextGen, budget, begun>>
  BY DEF Store!Commit, Store!TaskOnly
<1>3. /\ DayOK(storeDay, storeClock) /\ EntryOK(entry, storeHeard, storeDay, nextGen)
      /\ TaskOK(task, storeHeard, nextGen)
      /\ FlightOK(task, entry, storeHeard, storeDay)
      /\ BudgetOK(budget, begun, storeClock)
      /\ OwedOK(begun, discarded + spliced, task, entry)
  BY DEF StoreInv
<1>4. CASE (Store!Refuse(task.gen) \/ Store!RefuseFresh(task.gen)) /\ UNCHANGED spliced
  BY <1>2, <1>4, RefusedKeeps
<1>5. CASE /\ ~Store!Ambiguous /\ Store!InFlight(task.gen)
           /\ entry' = [entry EXCEPT !.engine = Store!Replayed, !.fill = "done",
                                     !.buffer = <<>>, !.boundary = None,
                                     !.lite = None, !.upto = task.upto]
           /\ spliced' = spliced + 1 /\ UNCHANGED discarded
  <2>1. entry # None /\ entry.gen = task.gen /\ entry.fill = "running"
    BY <1>5 DEF Store!InFlight, Store!Mine
  <2>2. Sound(entry, storeHeard) /\ entry.gen \in 1 .. nextGen /\ storeDay # None
    BY <1>3, <2>1 DEF EntryOK
  <2>3. task \in Store!Tasks /\ Learned(task, storeHeard) BY <1>2, <1>3 DEF TaskOK
  <2>4. storeDay <= Store!Day(task.upto) /\ Follows(task, entry, storeHeard)
    BY <1>3, <2>1 DEF FlightOK
  <2>5. entry.buffer \in Seq(Store!Tape) /\ InTime(entry.buffer, storeHeard)
    <3>1. entry \in StoreEntries BY <2>2 DEF Sound, Shaped
    <3> QED BY <2>2, <3>1, EntryFields DEF Sound
  <2> DEFINE r == Store!Replayed
  <2>6. /\ r \in [Store!Trades -> Nat]
        /\ \A i \in Store!Trades : r[i] <= 1 /\ (r[i] # 0 => i \in storeHeard)
        /\ CountsDay(r, storeHeard, task.upto)
    BY <1>2, <1>5, <2>3, <2>4, <2>5, ReplayedIs
  <2>7. task.upto \in Nat BY <2>3 DEF Store!Tasks
  <2>8. Spliced(entry', entry, r, task.upto)
    BY <1>5 DEF Spliced
  <2> HIDE DEF r
  <2>18. Replays(r, storeHeard, task.upto)
    BY <2>6, Zenon DEF Replays
  <2>9. /\ Sound(entry', storeHeard) /\ entry'.gen = entry.gen /\ entry'.fill = "done"
        /\ entry'.upto = task.upto
    BY <2>2, <2>7, <2>8, <2>18, SplicedSound
  <2>10. EntryOK(entry', storeHeard', storeDay', nextGen')
    BY <1>2, <2>2, <2>4, <2>9 DEF EntryOK
  <2>11. FlightOK(task', entry', storeHeard', storeDay') BY <2>9 DEF FlightOK
  <2>12. TaskOK(task', storeHeard', nextGen') BY <1>2 DEF TaskOK
  <2>13. discarded \in Nat /\ spliced \in Nat /\ begun \in [Store!Days -> Nat]
    BY <1>1 DEF StoreTyped
  <2>14. spliced' \in Nat BY <1>5, <2>13
  <2>15. OwedOK(begun', discarded' + spliced', task', entry')
    <3>1. Total(begun, Store!Days) \in Nat
      <4>1. \A d \in Store!Days : begun[d] \in Nat BY <2>13
      <4> QED BY <4>1, StoreFinite, TotalHolds
    <3>2. Total(begun, Store!Days) <= (discarded + spliced) + Owed(task, entry)
      BY <1>3 DEF OwedOK
    <3>3. Owed(task, entry) \in {0, 1} BY DEF Owed
    <3>4. Owed(task', entry') = 0 BY <1>2 DEF Owed
    <3> QED BY <1>2, <1>5, <2>13, <3>1, <3>2, <3>3, <3>4 DEF OwedOK
  <2>16. StoreTyped' BY <1>1, <1>2, <1>5, <2>14 DEF StoreTyped
  <2> QED BY <1>2, <1>3, <2>10, <2>11, <2>12, <2>15, <2>16 DEF StoreInv
<1> QED BY <1>4, <1>5 DEF Store!Commit

(* So does giving up before the commit.                                    *)
LEMMA GivingUpKeeps ==
    ASSUME StoreConfigured, StoreInv, Store!Abandon \/ Store!Refused
    PROVE  StoreInv'
<1>1. /\ task # None /\ task' = None /\ Store!Refuse(task.gen)
      /\ UNCHANGED <<storeClock, storeHeard, storeDay, storeLost, nextGen, budget, begun,
                     spliced>>
  BY DEF Store!Abandon, Store!Refused, Store!TaskOnly
<1> QED BY <1>1, RefusedKeeps

(* Every step of the store keeps the invariant.                            *)
LEMMA StoreStepKeeps ==
    ~FeedLags => (StoreConfigured /\ StoreInv /\ [Store!Next]_(Store!vars) => StoreInv')
<1> SUFFICES ASSUME ~FeedLags, StoreConfigured, StoreInv, [Store!Next]_(Store!vars)
             PROVE  StoreInv'
  OBVIOUS
<1>1. CASE UNCHANGED Store!vars
  <2>1. UNCHANGED <<storeClock, storeHeard, storeDay, entry, storeLost, nextGen, discarded,
                    budget, task, begun, spliced>>
    BY <1>1 DEF Store!vars, Store!store
  <2>2. StoreTyped' BY <2>1 DEF StoreInv, StoreTyped
  <2> QED BY <2>1, <2>2 DEF StoreInv
<1>2. CASE Store!NextPrint BY <1>2, NextPrintKeeps
<1>3. CASE Store!OtherTraffic BY <1>3, OtherTrafficKeeps
<1>4. CASE Store!MaybeStart BY <1>4, MaybeStartKeeps
<1>5. CASE Store!Abandon \/ Store!Refused BY <1>5, GivingUpKeeps
<1>6. CASE Store!Fetched BY <1>6, FetchedKeeps
<1>7. CASE Store!Commit BY <1>7, StoreCommitKeeps
<1>8. CASE Store!ReadLite BY <1>8, ReadLiteKeeps
<1>9. ASSUME NEW i \in Store!Tape, Store!Hear(i) PROVE StoreInv' BY <1>9, StoreHearKeeps
<1> QED BY <1>1, <1>2, <1>3, <1>4, <1>5, <1>6, <1>7, <1>8, <1>9 DEF Store!Next

(* The invariant says what is claimed.                                     *)
LEMMA StoreSafe == ASSUME StoreConfigured, StoreInv PROVE StoreLosesNothing
<1>1. StoreTyped BY DEF StoreInv
<1>2. /\ EntryOK(entry, storeHeard, storeDay, nextGen)
      /\ TaskOK(task, storeHeard, nextGen)
      /\ FlightOK(task, entry, storeHeard, storeDay)
      /\ BudgetOK(budget, begun, storeClock)
      /\ OwedOK(begun, discarded + spliced, task, entry)
  BY DEF StoreInv
<1>3. Store!TypeOK
  <2>1. ASSUME entry # None
        PROVE  /\ entry \in Store!Entries /\ Len(entry.buffer) <= MaxBuffered
               /\ (entry.fill = "running") <=> (entry.boundary # None)
               /\ entry.fill # "running" => entry.buffer = <<>>
    <3>1. Shaped(entry) /\ entry.gen \in 1 .. nextGen BY <1>2, <2>1 DEF EntryOK, Sound
    <3>2. entry \in StoreEntries BY <3>1 DEF Shaped
    <3>3. entry \in Store!Entries BY <3>1, <3>2 DEF StoreEntries, Store!Entries
    <3> QED BY <3>1, <3>3 DEF Shaped
  <2>2. task # None => task \in Store!Tasks /\ task.gen \in 1 .. nextGen BY <1>2 DEF TaskOK
  <2> QED BY <1>1, <2>1, <2>2 DEF StoreTyped, Store!TypeOK
<1>4. entry # None => Sound(entry, storeHeard) BY <1>2 DEF EntryOK
<1>5. Store!NothingCountedTwice BY <1>4 DEF Sound, Store!NothingCountedTwice
<1>6. Store!SpliceLosesNothing BY <1>4 DEF Sound, CountsDay, Store!SpliceLosesNothing
<1>7. Store!LiteHasHistory BY <1>4 DEF Sound, CountsPast, Store!LiteHasHistory
<1>8. Store!PendingHasTask BY <1>2 DEF FlightOK, Store!PendingHasTask
<1>9. Store!AttemptsAccounted
  <2>1. Store!Begun = Total(begun, Store!Days) BY StoreFinite, BegunIs
  <2>2. Total(begun, Store!Days) <= (discarded + spliced) + Owed(task, entry)
    BY <1>2 DEF OwedOK
  <2>3. Total(begun, Store!Days) \in Nat
    <3>1. \A d \in Store!Days : begun[d] \in Nat BY <1>1 DEF StoreTyped
    <3> QED BY <3>1, StoreFinite, TotalHolds
  <2>4. discarded \in Nat /\ spliced \in Nat BY <1>1 DEF StoreTyped
  <2>5. Owed(task, entry) \in {0, 1} /\ (task = None => Owed(task, entry) = 0) BY DEF Owed
  <2> QED BY <2>1, <2>2, <2>3, <2>4, <2>5 DEF Store!AttemptsAccounted
<1>10. Store!BudgetHolds BY <1>2 DEF BudgetOK, Store!BudgetHolds
<1> QED BY <1>3, <1>5, <1>6, <1>7, <1>8, <1>9, <1>10 DEF StoreLosesNothing

(* A step of the services is the store's or leaves it as it was.           *)
LEMMA StepStore == [ServicesNext]_servicesVars => [Store!Next]_(Store!vars)
<1>1. UNCHANGED storeVars => UNCHANGED Store!vars BY DEF storeVars, Store!vars, Store!store
<1>2. StoreStep => Store!Next BY DEF StoreStep
<1>3. UNCHANGED servicesVars => UNCHANGED storeVars BY DEF servicesVars
<1>4. TraderStep => UNCHANGED storeVars BY DEF TraderStep
<1>5. HubStep => UNCHANGED storeVars BY DEF HubStep
<1>6. StreamStep => UNCHANGED storeVars BY DEF StreamStep
<1>7. BarsStep => UNCHANGED storeVars BY DEF BarsStep
<1>8. CoverageStep => UNCHANGED storeVars BY DEF CoverageStep
<1>9. FeedStep => UNCHANGED storeVars BY DEF FeedStep
<1>10. IgnitionStep => UNCHANGED storeVars BY DEF IgnitionStep
<1>11. HaltsStep => UNCHANGED storeVars BY DEF HaltsStep
<1> QED BY <1>1, <1>2, <1>3, <1>4, <1>5, <1>6, <1>7, <1>8, <1>9, <1>10, <1>11 DEF ServicesNext

(* Over a feed that owes nothing the REST call returned (FeedLags), the    *)
(* engine counts every trade of the day exactly once when its history is   *)
(* spliced in, and no attempt is forgotten or over budget: for any tape,   *)
(* buffer, budget and length of day, and whatever the other parts do.      *)
THEOREM StoreLosesNothingAlways == ~FeedLags => (ServicesSpec => []StoreLosesNothing)
<1>0. StoreConfigured BY StoreAssumption DEF StoreConfigured
<1> SUFFICES ASSUME ~FeedLags PROVE ServicesSpec => []StoreLosesNothing OBVIOUS
<1>1. ServicesInit => StoreInv BY <1>0, StoreInit DEF ServicesInit
<1>2. StoreInv /\ [ServicesNext]_servicesVars => StoreInv'
  BY <1>0, StepStore, StoreStepKeeps
<1>3. StoreInv => StoreLosesNothing BY <1>0, StoreSafe
<1> QED BY <1>1, <1>2, <1>3, PTL DEF ServicesSpec
=============================================================================
