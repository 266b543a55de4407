---------------------------- MODULE SupportImage -----------------------------
(***************************************************************************)
(* The payment proof of a transaction: reviewTransaction resolves the media *)
(* id stored in support_url through Meta's Graph API, downloads the image  *)
(* and stores it in the document as a data URL; if anything fails it takes *)
(* a sample image from the disk (transactions.go:218-340 and 441-470).     *)
(*                                                                         *)
(* Redis lets one review through per transaction, so a review is one       *)
(* sequence of calls, one action each.  A call succeeds, is refused in one *)
(* of the ways the code treats alike (transport error, status, empty URL), *)
(* or fails because the browser has gone: all of them run under the        *)
(* request's context, which the disconnection cancels.                     *)
(***************************************************************************)
CONSTANT Tx   \* transactions under review

VARIABLES
  support,  \* support_url in Mongo: "media" id, downloaded "photo", or "sample"
  step,     \* the call the review waits for
  url,      \* uploadedURL: what will be written
  body,     \* what the server sends as the image: "photo" or "junk"
  refused,  \* Meta refused a call, or sent no image
  gone      \* the browser that asked for the review has gone

vars == <<support, step, url, body, refused, gone>>

Init ==
  /\ support = [t \in Tx |-> "media"]
  /\ step = [t \in Tx |-> "load"]
  /\ url = [t \in Tx |-> "media"]
  /\ body = [t \in Tx |-> "photo"]
  /\ refused = [t \in Tx |-> FALSE]
  /\ gone = [t \in Tx |-> FALSE]

Advance(t, from, to) ==
  /\ step[t] = from
  /\ step' = [step EXCEPT ![t] = to]

\* fallbackUpload: the sample from the disk, or the media id if it is not there.
Fallback(t) == \E u \in {"sample", url[t]} : url' = [url EXCEPT ![t] = u]

\* A call of the download fails.  With the browser gone it fails without Meta
\* having refused anything.
GiveUp(t, from) ==
  /\ Advance(t, from, "write")
  /\ Fallback(t)
  /\ refused' = [refused EXCEPT ![t] = @ \/ ~gone[t]]
  /\ UNCHANGED <<support, body, gone>>

-----------------------------------------------------------------------------
\* The document is read: tx.SupportURL.
Load(t) ==
  /\ Advance(t, "load", "graph")
  /\ ~gone[t]
  /\ url' = [url EXCEPT ![t] = support[t]]
  /\ UNCHANGED <<support, body, refused, gone>>

\* getRealImageURLFromMeta
Graph(t) ==
  \/ /\ Advance(t, "graph", "download")
     /\ ~gone[t]
     /\ UNCHANGED <<support, url, body, refused, gone>>
  \/ GiveUp(t, "graph")

\* The response may be anything: its type is looked at next.
Download(t) ==
  \/ /\ Advance(t, "download", "type")
     /\ ~gone[t]
     /\ \E b \in {"photo", "junk"} : body' = [body EXCEPT ![t] = b]
     /\ UNCHANGED <<support, url, refused, gone>>
  \/ GiveUp(t, "download")

\* Mutant: the type is not checked.
ContentTypeUnchecked(t) ==
  Advance(t, "type", "read") /\ UNCHANGED <<support, url, body, refused, gone>>

\* The Content-Type header, or the first bytes if there is none, must say image;
\* no call is made.
ContentType(t) ==
  \/ /\ body[t] = "photo"
     /\ Advance(t, "type", "read")
     /\ UNCHANGED <<support, url, body, refused, gone>>
  \/ /\ body[t] # "photo"
     /\ Advance(t, "type", "write")
     /\ Fallback(t)
     /\ refused' = [refused EXCEPT ![t] = TRUE]
     /\ UNCHANGED <<support, body, gone>>

\* Mutant: the error of io.ReadAll is dropped.
ReadBodyUnchecked(t) ==
  /\ Advance(t, "read", "write")
  /\ url' = [url EXCEPT ![t] = body[t]]
  /\ \E cut \in BOOLEAN : refused' = [refused EXCEPT ![t] = cut]
  /\ UNCHANGED <<support, body, gone>>

\* A body that has arrived entirely is read even if the browser has gone.
ReadBody(t) ==
  \/ /\ Advance(t, "read", "write")
     /\ url' = [url EXCEPT ![t] = body[t]]
     /\ UNCHANGED <<support, body, refused, gone>>
  \/ GiveUp(t, "read")

\* Mutant: the update runs under a context of its own.
StoreDetached(t) ==
  /\ Advance(t, "write", "done")
  /\ support' = [support EXCEPT ![t] = url[t]]
  /\ UNCHANGED <<url, body, refused, gone>>

\* The update of the document.
Store(t) ==
  /\ Advance(t, "write", "done")
  /\ ~gone[t]
  /\ support' = [support EXCEPT ![t] = url[t]]
  /\ UNCHANGED <<url, body, refused, gone>>

\* FindOne or UpdateOne fails and the handler returns.
MongoError(t) ==
  /\ Advance(t, "load", "done") \/ Advance(t, "write", "done")
  /\ UNCHANGED <<support, url, body, refused, gone>>

\* External: the browser closes the request.
Disconnect(t) ==
  /\ step[t] # "done"
  /\ ~gone[t]
  /\ gone' = [gone EXCEPT ![t] = TRUE]
  /\ UNCHANGED <<support, step, url, body, refused>>

Next ==
  \E t \in Tx : \/ Load(t) \/ Graph(t) \/ Download(t) \/ ContentType(t) \/ ReadBody(t)
                \/ Store(t) \/ MongoError(t) \/ Disconnect(t)

Spec == Init /\ [][Next]_vars

-----------------------------------------------------------------------------
(***************************************************************************)
(* Properties.                                                             *)
(***************************************************************************)
TypeOK ==
  /\ support \in [Tx -> {"media", "photo", "sample"}]
  /\ step \in [Tx -> {"load", "graph", "download", "type", "read", "write", "done"}]
  /\ url \in [Tx -> {"media", "photo", "sample"}]
  /\ body \in [Tx -> {"photo", "junk"}]
  /\ refused \in [Tx -> BOOLEAN]
  /\ gone \in [Tx -> BOOLEAN]

\* What the reviewers are shown as the client's proof is the image Meta served,
\* whole: a refused or truncated download is never stored as the photo.
PhotoIsComplete ==
  \A t \in Tx : support[t] = "photo" => body[t] = "photo" /\ ~refused[t]

\* The media id is replaced by the sample, and lost, only when Meta refused: a
\* browser that leaves in the middle of the download also makes it fall back,
\* but the update then fails too.
SampleMeansRefused ==
  \A t \in Tx : support[t] = "sample" => refused[t]
=============================================================================
