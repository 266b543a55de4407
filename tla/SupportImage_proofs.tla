------------------------- MODULE SupportImage_proofs -------------------------
(***************************************************************************)
(* Proofs about the payment proof, for any number of reviews.              *)
(***************************************************************************)
EXTENDS SupportImage, TLAPS

\* What a review knows at each of its calls.  Until the download has ended the
\* document still has the media id and nothing was refused; what is about to be
\* written is the photo only if it came whole, and the sample only if Meta refused
\* or the browser has gone, which keeps the update from taking effect.
ReviewFollowsDownload ==
  \A t \in Tx :
    /\ step[t] # "done" => support[t] = "media"
    /\ step[t] \notin {"write", "done"} => url[t] = "media" /\ ~refused[t]
    /\ step[t] = "read" => body[t] = "photo"
    /\ step[t] = "write" => /\ url[t] = "photo" => body[t] = "photo" /\ ~refused[t]
                            /\ url[t] = "sample" => refused[t] \/ gone[t]

IInv ==
  /\ TypeOK
  /\ ReviewFollowsDownload
  /\ PhotoIsComplete
  /\ SampleMeansRefused

\* A step of one review leaves the others alone.
Others(t) ==
  \A u \in Tx \ {t} : /\ support'[u] = support[u] /\ step'[u] = step[u]
                      /\ url'[u] = url[u] /\ body'[u] = body[u]
                      /\ refused'[u] = refused[u] /\ gone'[u] = gone[u]

\* Every document has its media id and no review has begun.
LEMMA InitIInv == Init => IInv
BY DEF Init, IInv, TypeOK, ReviewFollowsDownload, PhotoIsComplete, SampleMeansRefused

\* What a call that fails leaves behind: the fallback's choice is the sample, or
\* what the document had.
LEMMA GiveUpKeeps ==
  ASSUME IInv, NEW t \in Tx, NEW from \in {"graph", "download", "read"}, GiveUp(t, from)
  PROVE  IInv'
<1> USE DEF IInv
<1>1. PICK u \in {"sample", url[t]} : url' = [url EXCEPT ![t] = u]
  BY DEF GiveUp, Fallback
<1>2. TypeOK'
  BY <1>1 DEF GiveUp, Advance, TypeOK
<1>3. /\ step[t] = from /\ step'[t] = "write"
      /\ url'[t] = u
      /\ refused'[t] = (refused[t] \/ ~gone[t])
      /\ UNCHANGED <<support, body, gone>>
      /\ Others(t)
  BY <1>1 DEF GiveUp, Advance, TypeOK, Others
<1>4. support[t] = "media" /\ url[t] = "media"
  BY <1>3 DEF ReviewFollowsDownload
<1>5. ReviewFollowsDownload'
  <2>1. u \in {"sample", "media"}
    BY <1>4
  <2>2. u = "sample" => refused'[t] \/ gone'[t]
    BY <1>3 DEF TypeOK
  <2> QED
    BY <1>3, <1>4, <2>1, <2>2 DEF ReviewFollowsDownload, Others
<1>6. PhotoIsComplete' /\ SampleMeansRefused'
  BY <1>3, <1>4 DEF PhotoIsComplete, SampleMeansRefused, Others
<1> QED
  BY <1>2, <1>5, <1>6

\* The calls of the download that succeed, one after the other.
LEMMA DownloadKeeps ==
  ASSUME IInv, NEW t \in Tx, Load(t) \/ Graph(t) \/ Download(t) \/ ReadBody(t)
  PROVE  IInv'
<1> USE DEF IInv
<1>1. CASE Load(t)
  BY <1>1 DEF Load, Advance, TypeOK, ReviewFollowsDownload, PhotoIsComplete, SampleMeansRefused
<1>2. CASE Graph(t) /\ ~GiveUp(t, "graph")
  BY <1>2 DEF Graph, Advance, TypeOK, ReviewFollowsDownload, PhotoIsComplete, SampleMeansRefused
<1>3. CASE Download(t) /\ ~GiveUp(t, "download")
  BY <1>3 DEF Download, Advance, TypeOK, ReviewFollowsDownload, PhotoIsComplete,
     SampleMeansRefused
<1>4. CASE ReadBody(t) /\ ~GiveUp(t, "read")
  BY <1>4 DEF ReadBody, Advance, TypeOK, ReviewFollowsDownload, PhotoIsComplete,
     SampleMeansRefused
<1> QED
  BY <1>1, <1>2, <1>3, <1>4, GiveUpKeeps

\* A body that is not an image is refused.
LEMMA ContentTypeKeeps ==
  ASSUME IInv, NEW t \in Tx, ContentType(t)
  PROVE  IInv'
<1> USE DEF IInv
<1>1. step[t] = "type" /\ support[t] = "media" /\ url[t] = "media"
  BY DEF ContentType, Advance, ReviewFollowsDownload
<1>2. CASE body[t] = "photo"
  BY <1>1, <1>2 DEF ContentType, Advance, TypeOK, ReviewFollowsDownload, PhotoIsComplete,
     SampleMeansRefused
<1>3. CASE body[t] # "photo"
  <2>1. PICK u \in {"sample", "media"} : url' = [url EXCEPT ![t] = u]
    BY <1>1, <1>3 DEF ContentType, Fallback
  <2>2. TypeOK'
    BY <1>3, <2>1 DEF ContentType, Advance, TypeOK
  <2>3. /\ step'[t] = "write" /\ url'[t] = u /\ refused'[t]
        /\ UNCHANGED <<support, body, gone>>
        /\ Others(t)
    BY <1>3, <2>1 DEF ContentType, Advance, TypeOK, Others
  <2> QED
    BY <1>1, <2>2, <2>3 DEF ReviewFollowsDownload, PhotoIsComplete, SampleMeansRefused, Others
<1> QED
  BY <1>2, <1>3

\* The update stores what was decided, if the browser is still there.
LEMMA StoreKeeps ==
  ASSUME IInv, NEW t \in Tx, Store(t)
  PROVE  IInv'
<1> USE DEF IInv
<1>1. TypeOK'
  BY DEF Store, Advance, TypeOK
<1>2. /\ step[t] = "write" /\ step'[t] = "done" /\ ~gone[t]
      /\ support'[t] = url[t]
      /\ UNCHANGED <<url, body, refused, gone>>
      /\ Others(t)
  BY DEF Store, Advance, TypeOK, Others
<1> QED
  BY <1>1, <1>2 DEF ReviewFollowsDownload, PhotoIsComplete, SampleMeansRefused, Others

\* A failing Mongo call stores nothing, and a browser that leaves changes nothing
\* but what later calls will do.
LEMMA EndKeeps ==
  ASSUME IInv, NEW t \in Tx, MongoError(t) \/ Disconnect(t)
  PROVE  IInv'
<1> USE DEF IInv
<1>1. CASE MongoError(t)
  BY <1>1 DEF MongoError, Advance, TypeOK, ReviewFollowsDownload, PhotoIsComplete,
     SampleMeansRefused
<1>2. CASE Disconnect(t)
  BY <1>2 DEF Disconnect, TypeOK, ReviewFollowsDownload, PhotoIsComplete, SampleMeansRefused
<1> QED
  BY <1>1, <1>2

\* A step of any review, or none.
LEMMA StepKeepsIInv == IInv /\ [Next]_vars => IInv'
<1> SUFFICES ASSUME IInv, [Next]_vars PROVE IInv'
  OBVIOUS
<1>1. CASE UNCHANGED vars
  BY <1>1 DEF vars, IInv, TypeOK, ReviewFollowsDownload, PhotoIsComplete, SampleMeansRefused
<1> QED
  BY <1>1, DownloadKeeps, ContentTypeKeeps, StoreKeeps, EndKeeps DEF Next

\* The inductive invariant.
THEOREM Invariance == Spec => []IInv
<1> QED
  BY InitIInv, StepKeepsIInv, PTL DEF Spec

\* Every variable of a review has its type.
THEOREM TypeCorrect == Spec => []TypeOK
<1>1. IInv => TypeOK
  BY DEF IInv
<1> QED
  BY <1>1, Invariance, PTL

\* What is stored as the client's proof is what Meta served, whole.
THEOREM PhotosAreComplete == Spec => []PhotoIsComplete
<1>1. IInv => PhotoIsComplete
  BY DEF IInv
<1> QED
  BY <1>1, Invariance, PTL

\* The media id is replaced by the sample only after Meta refused, although a
\* browser that leaves makes the code choose the sample as well.
THEOREM SamplesMeanRefusals == Spec => []SampleMeansRefused
<1>1. IInv => SampleMeansRefused
  BY DEF IInv
<1> QED
  BY <1>1, Invariance, PTL
=============================================================================
