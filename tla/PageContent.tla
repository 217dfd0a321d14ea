----------------------------- MODULE PageContent ----------------------------
(***************************************************************************)
(* What a shop shows: the images of its page, and its posts.               *)
(***************************************************************************)
EXTENDS Integers, FiniteSets

CONSTANTS
    Part,        \* the flow that is explored: "images", "posts"
    Worker,
    None,
    Key,         \* file names; an upload takes a new one
    Kind,        \* "cover" (the photo of a professional works alike), "logo" or "gallery"
    MaxGallery,  \* MAX_GALLERY_PHOTOS
    Overlap,     \* whether requests run together
    S3Fails,     \* whether a file may fail to be deleted
    Faults       \* "crash": a job stops; "lost": an answer of Meta is lost; "retries": two
                 \* people try the post again together; "again": a post that went out on one
                 \* network and then failed as a whole is tried again

VARIABLES
    used,     \* names given to uploads
    files,    \* files in S3
    slot,     \* the cover, the logo or the photo: its file and hiddenAt
    retired,  \* hiddenCoverKeys, hiddenAvatarKeys
    gallery,  \* rows of BarbershopPhoto: "none", "shown", "hidden"
    open,     \* keys with an open complaint
    judged,   \* keys the platform hid and did not put back
    req,
    post,     \* the row of SocialPost
    out,      \* how often each network received it
    account,  \* SocialConnection: the networks it reaches, {} with a token that opens no more,
              \* None when it is not connected
    shop      \* "open", "suspended" or "closed"

(***************************************************************************)
(* "images". The images of the public page of a shop: the cover, the logo  *)
(* and the photo of a professional (one file each) and the gallery, with   *)
(* the complaints of visitors and the decisions of the platform.           *)
(***************************************************************************)

imageVars == <<used, files, slot, retired, gallery, open, judged, req>>

ImageFree == [op |-> "free", key |-> None, before |-> None, old |-> None]
MayStart(w) == req[w] = ImageFree /\ (Overlap \/ \A v \in Worker : req[v] = ImageFree)
ImageStarts(w, op, k, before, old) ==
    MayStart(w) /\ req' = [req EXCEPT ![w] = [op |-> op, key |-> k, before |-> before, old |-> old]]
Goes(w, op) == req' = [req EXCEPT ![w].op = op]
ImageEnds(w) == req' = [req EXCEPT ![w] = ImageFree]

Rows == {k \in Key : gallery[k] # "none"}
OnPage(k) == k \in files /\ IF Kind = "gallery" THEN gallery[k] = "shown" ELSE slot.key = k /\ ~slot.hidden

ImageInit ==
    /\ used = {} /\ files = {} /\ retired = {} /\ open = {} /\ judged = {}
    /\ slot = [key |-> None, hidden |-> FALSE]
    /\ gallery = [k \in Key |-> "none"]
    /\ req = [w \in Worker |-> ImageFree]

(* galleryUpload, coverUpload, avatarUpload: a new name each time *)
Upload(k) ==
    /\ k \notin used
    /\ Kind = "gallery" => Cardinality(Rows) < MaxGallery
    /\ used' = used \cup {k} /\ files' = files \cup {k}
    /\ UNCHANGED <<slot, retired, gallery, open, judged, req>>

DeletesFile(k) == files' = files \ {k} \/ (S3Fails /\ UNCHANGED files)

(***************************************************************************)
(* The cover, the logo and the photo of a professional                     *)
(***************************************************************************)

(* setCover, setAvatar: the file that was hidden does not come back        *)
RefusedKey(k) == k \in retired \/ (slot.hidden /\ k = slot.key)

(* "old": the hidden file that leaves with this request *)
SetCoverReads(w, k) ==
    LET leaves == IF slot.hidden /\ slot.key # k THEN slot.key ELSE None IN
    /\ Kind = "cover" /\ (k = None \/ ~RefusedKey(k))
    /\ ImageStarts(w, IF leaves = None THEN "setCover" ELSE "retire", k, slot.key, leaves)
    /\ UNCHANGED <<used, files, slot, retired, gallery, open, judged>>

RetireFile(w) ==
    /\ req[w].op = "retire" /\ DeletesFile(req[w].old)
    /\ Goes(w, "setCover")
    /\ UNCHANGED <<used, slot, retired, gallery, open, judged>>

SetCoverWrites(w) ==
    LET r == req[w] IN
    /\ r.op = "setCover"
    /\ slot' = [key |-> r.key, hidden |-> slot.hidden /\ r.key = r.before]
    /\ retired' = IF r.old = None THEN retired ELSE retired \cup {r.old}
    /\ IF r.old = None /\ r.before \notin {None, r.key} THEN Goes(w, "discard") ELSE ImageEnds(w)
    /\ UNCHANGED <<used, files, gallery, open, judged>>

(* setBarbershopLogo: any confirmation clears the decision of the platform *)
SetLogo(w, k) ==
    /\ Kind = "logo" /\ slot' = [key |-> k, hidden |-> FALSE]
    /\ IF slot.key \notin {None, k} THEN ImageStarts(w, "discard", k, slot.key, None)
       ELSE MayStart(w) /\ UNCHANGED req
    /\ UNCHANGED <<used, files, retired, gallery, open, judged>>

(* discard: after the answer *)
Discard(w) ==
    /\ req[w].op = "discard" /\ DeletesFile(req[w].before)
    /\ ImageEnds(w)
    /\ UNCHANGED <<used, slot, retired, gallery, open, judged>>

(***************************************************************************)
(* The gallery                                                             *)
(***************************************************************************)

AddPhotoReads(w, k) ==
    /\ Kind = "gallery" /\ Cardinality(Rows) < MaxGallery /\ k \notin Rows
    /\ ImageStarts(w, "addPhoto", k, None, None)
    /\ UNCHANGED <<used, files, slot, retired, gallery, open, judged>>

(* the unique index on the name of the file *)
KeyTaken(k) == k \in Rows

AddPhoto(w) ==
    /\ req[w].op = "addPhoto"
    /\ gallery' = IF KeyTaken(req[w].key) THEN gallery ELSE [gallery EXCEPT ![req[w].key] = "shown"]
    /\ ImageEnds(w)
    /\ UNCHANGED <<used, files, slot, retired, open, judged>>

(* removePhoto: the row, then the file, awaited when the photo was hidden  *)
RemovePhoto(w, k) ==
    /\ Kind = "gallery" /\ k \in Rows
    /\ gallery' = [gallery EXCEPT ![k] = "none"]
    /\ ImageStarts(w, "discard", None, k, None)
    /\ UNCHANGED <<used, files, slot, retired, open, judged>>

(***************************************************************************)
(* Complaints and decisions                                                *)
(***************************************************************************)

(* report: only what is on the page *)
Report(k) ==
    /\ IF Kind = "gallery" THEN gallery[k] = "shown" ELSE slot.key = k /\ ~slot.hidden
    /\ open' = open \cup {k}
    /\ UNCHANGED <<used, files, slot, retired, gallery, judged, req>>

SetHidden(k, at) ==
    IF Kind = "gallery" THEN gallery' = [gallery EXCEPT ![k] = IF at THEN "hidden" ELSE "shown"] /\ UNCHANGED slot
    ELSE slot' = [slot EXCEPT !.hidden = at] /\ UNCHANGED gallery

(* resolve: on the photo, or on whatever the slot shows by then            *)
Resolve(k, action) ==
    /\ Overlap \/ \A w \in Worker : req[w] = ImageFree
    /\ IF Kind = "gallery" THEN k \in Rows ELSE slot.key = k
    /\ action = "restore" => IF Kind = "gallery" THEN gallery[k] = "hidden" ELSE slot.hidden
    /\ IF action = "dismiss" THEN UNCHANGED <<slot, gallery>> ELSE SetHidden(k, action = "hide")
    /\ judged' = CASE action = "hide" -> judged \cup {k} [] action = "restore" -> judged \ {k} [] OTHER -> judged
    /\ open' = IF action = "restore" THEN open ELSE {}
    /\ UNCHANGED <<used, files, retired, req>>

ImageNext ==
    \/ \E k \in Key : Upload(k) \/ Report(k) \/ \E a \in {"hide", "dismiss", "restore"} : Resolve(k, a)
    \/ \E w \in Worker :
         \/ RetireFile(w) \/ SetCoverWrites(w) \/ Discard(w) \/ AddPhoto(w)
         \/ \E k \in used : AddPhotoReads(w, k) \/ RemovePhoto(w, k)
         \/ \E k \in used \cup {None} : SetCoverReads(w, k) \/ SetLogo(w, k)

(***************************************************************************)
(* Properties                                                              *)
(***************************************************************************)

ImageTypeOK ==
    /\ {used, files, retired, open, judged} \subseteq SUBSET Key
    /\ slot \in [key : Key \cup {None}, hidden : BOOLEAN]
    /\ gallery \in [Key -> {"none", "shown", "hidden"}]
    /\ req \in [Worker -> [op : {"free", "setCover", "retire", "discard", "addPhoto"}, key : Key \cup {None},
                           before : Key \cup {None}, old : Key \cup {None}]]

(* A cover, or a photo of the gallery, that the platform hid is not on the *)
(* page again by setting it, removing it and adding it, or changing it and *)
(* changing back. The cover is held back by its name even if its file      *)
(* cannot be deleted, one request at a time; a photo, by its file          *)
(* (setCover, addPhoto, removePhoto).                                      *)
HiddenImageStaysOut ==
    (Kind = "cover" /\ ~Overlap) \/ (Kind = "gallery" /\ ~S3Fails)
    => \A k \in judged : OnPage(k) => \E w \in Worker : req[w].op = "discard" /\ req[w].before = k

(***************************************************************************)
(* "posts". A post of a shop for its social networks: scheduled, published *)
(* by the job of every five minutes (on several processes), tried again,   *)
(* deleted, and hidden by the platform.                                    *)
(***************************************************************************)

postVars == <<post, out, account, shop, req>>

Net == {"facebook", "instagram"}

PostRow == [status : {"none", "deleted", "SCHEDULED", "PUBLISHING", "PUBLISHED", "FAILED", "CANCELLED"},
            ids : SUBSET Net, hidden : BOOLEAN, overdue : BOOLEAN]

PostFree == [op |-> "free", ids |-> {}, net |-> {}]
PostStarts(w, op, ids, net) == req[w] = PostFree /\ req' = [req EXCEPT ![w] = [op |-> op, ids |-> ids, net |-> net]]
PostEnds(w) == req' = [req EXCEPT ![w] = PostFree]
Alone(w) == \A v \in Worker \ {w} : req[v] = PostFree

PostInit ==
    /\ post = [status |-> "none", ids |-> {}, hidden |-> FALSE, overdue |-> FALSE]
    /\ out = [n \in Net |-> 0]
    /\ account \in {None, {"facebook"}, Net}
    /\ shop = "open"
    /\ req = [w \in Worker |-> PostFree]

(* handleOAuthCallback, chooseSocialPage, savePage; disconnect; and a      *)
(* token that the current keys do not open (pageToken)                     *)
Connect == shop # "closed" /\ account' \in {{}, {"facebook"}, Net} /\ UNCHANGED <<post, out, shop, req>>
Disconnect == account # None /\ account' = None /\ UNCHANGED <<post, out, shop, req>>

Suspend ==
    /\ shop # "closed" /\ shop' \in {"open", "suspended"} \ {shop}
    /\ UNCHANGED <<post, out, account, req>>

(* deleteBarbershop, as far as it concerns a post *)
CloseShop ==
    /\ shop # "closed" /\ shop' = "closed" /\ account' = None
    /\ post' = IF post.status = "SCHEDULED" THEN [post EXCEPT !.status = "CANCELLED"] ELSE post
    /\ UNCHANGED <<out, req>>

(***************************************************************************)
(* The team                                                                *)
(***************************************************************************)

(* createPost: for both networks; assertImageNotHidden holds for the one   *)
(* post there is                                                           *)
CreatePost ==
    /\ post.status = "none" /\ account = Net /\ shop # "closed"
    /\ post' = [status |-> "SCHEDULED", ids |-> {}, hidden |-> FALSE, overdue |-> FALSE]
    /\ UNCHANGED <<out, account, shop, req>>

(* deletePost: what is not published yet *)
DeleteReads(w) ==
    /\ post.status \in {"SCHEDULED", "FAILED", "CANCELLED"} /\ shop # "closed" /\ PostStarts(w, "delete", {}, {})
    /\ UNCHANGED <<post, out, account, shop>>

DeletePost(w) ==
    /\ req[w].op = "delete" /\ post' = [post EXCEPT !.status = "deleted"]
    /\ PostEnds(w) /\ UNCHANGED <<out, account, shop>>

(* retryPost: a post that failed, or that one network has not received.    *)
(* The attempt keeps what went out, unless the post failed as a whole in   *)
(* an attempt after the first.                                             *)
Partial == post.status = "PUBLISHED" /\ post.ids # Net
RetryReads(w) ==
    /\ post.status = "FAILED" \/ Partial
    /\ ~post.hidden /\ account = Net /\ shop # "closed"
    /\ "retries" \in Faults \/ Alone(w)
    /\ post.status = "FAILED" /\ post.ids # {} => "again" \in Faults
    /\ PostStarts(w, IF Partial THEN "retryRest" ELSE "retryAll", {}, {})
    /\ UNCHANGED <<post, out, account, shop>>

Kept(op) == IF op = "retryRest" THEN post.ids ELSE {}

RetryPost(w) ==
    /\ req[w].op \in {"retryRest", "retryAll"}
    /\ post' = IF post.status = "deleted" THEN post
               ELSE [post EXCEPT !.status = "SCHEDULED", !.overdue = FALSE, !.ids = Kept(req[w].op)]
    /\ PostEnds(w) /\ UNCHANGED <<out, account, shop>>

(***************************************************************************)
(* The job                                                                 *)
(***************************************************************************)

DayPasses ==
    /\ post.status = "SCHEDULED" /\ post' = [post EXCEPT !.overdue = TRUE]
    /\ UNCHANGED <<out, account, shop, req>>

(* publishDuePosts: a reservation that stands still became a failure       *)
FailStale ==
    /\ post.status = "PUBLISHING" /\ "crash" \in Faults
    /\ post' = [post EXCEPT !.status = "FAILED"]
    /\ UNCHANGED <<out, account, shop, req>>

(* publishPost: what was read decides, and what already went out           *)
PublishReads(w) ==
    /\ post.status = "SCHEDULED" /\ ~post.hidden /\ shop # "suspended"
    /\ \A v \in Worker : req[v].op \in {"retryRest", "retryAll"} => "retries" \in Faults
    /\ PostStarts(w, CASE shop = "closed" -> "cancel" [] post.overdue -> "late" [] OTHER -> "claim", post.ids, {})
    /\ UNCHANGED <<post, out, account, shop>>

(* hidden since the list of the due posts was read *)
CancelHidden ==
    /\ post.status = "SCHEDULED" /\ post.hidden /\ post' = [post EXCEPT !.status = "CANCELLED"]
    /\ UNCHANGED <<out, account, shop, req>>

CancelOfClosed(w) ==
    /\ req[w].op = "cancel"
    /\ post' = IF post.status = "deleted" THEN post ELSE [post EXCEPT !.status = "CANCELLED"]
    /\ PostEnds(w) /\ UNCHANGED <<out, account, shop>>

FailLate(w) ==
    /\ req[w].op = "late"
    /\ post' = IF post.status = "SCHEDULED" THEN [post EXCEPT !.status = "FAILED"] ELSE post
    /\ PostEnds(w) /\ UNCHANGED <<out, account, shop>>

(* Mutant: the reservation forgets the platform. *)
MutMayClaim == post.status = "SCHEDULED"

MayClaim == post.status = "SCHEDULED" /\ ~post.hidden

Claim(w) ==
    /\ req[w].op = "claim"
    /\ IF MayClaim THEN post' = [post EXCEPT !.status = "PUBLISHING"] /\ Goes(w, "connect")
       ELSE UNCHANGED post /\ PostEnds(w)
    /\ UNCHANGED <<out, account, shop>>

ReadConnection(w) ==
    /\ req[w].op = "connect"
    /\ IF account \in {None, {}}
       THEN /\ post' = IF post.status = "deleted" THEN post ELSE [post EXCEPT !.status = "FAILED"]
            /\ PostEnds(w)
       ELSE /\ req' = [req EXCEPT ![w].op = "facebook", ![w].net = account]
            /\ UNCHANGED post
    /\ UNCHANGED <<out, account, shop>>

(* One network after the other; the one that has the post is skipped. Meta *)
(* refuses, accepts, or accepts and the answer does not arrive.            *)
PostTo(w, n, answer) ==
    LET sends == n \notin req[w].ids /\ n \in req[w].net IN
    /\ req[w].op = n
    /\ answer # "refused" => sends
    /\ answer = "lost" => "lost" \in Faults
    /\ out' = IF answer = "refused" THEN out ELSE [out EXCEPT ![n] = IF @ < 2 THEN @ + 1 ELSE @]
    /\ req' = [req EXCEPT ![w].op = IF n = "facebook" THEN "instagram" ELSE "finish",
                          ![w].ids = IF answer = "accepted" THEN @ \cup {n} ELSE @]
    /\ UNCHANGED <<post, account, shop>>

(* whatever became of the row meanwhile *)
Finish(w) ==
    /\ req[w].op = "finish"
    /\ post' = IF post.status = "deleted" THEN post
               ELSE IF req[w].ids # {} THEN [post EXCEPT !.status = "PUBLISHED", !.ids = req[w].ids]
               ELSE [post EXCEPT !.status = "FAILED"]
    /\ PostEnds(w) /\ UNCHANGED <<out, account, shop>>

Crash(w) ==
    /\ "crash" \in Faults /\ req[w].op \in {"connect", "facebook", "instagram", "finish"}
    /\ PostEnds(w) /\ UNCHANGED <<post, out, account, shop>>

(***************************************************************************)
(* The platform (setHidden)                                                *)
(***************************************************************************)

HideReads(w) ==
    /\ post.status \notin {"none", "deleted"} /\ ~post.hidden
    /\ PostStarts(w, IF post.status \in {"SCHEDULED", "PUBLISHING"} THEN "hideCancel" ELSE "hide", {}, {})
    /\ UNCHANGED <<post, out, account, shop>>

Hide(w) ==
    /\ req[w].op \in {"hide", "hideCancel"}
    /\ post' = IF post.status = "deleted" THEN post
               ELSE [post EXCEPT !.hidden = TRUE, !.status = IF req[w].op = "hideCancel" THEN "CANCELLED" ELSE @]
    /\ PostEnds(w) /\ UNCHANGED <<out, account, shop>>

Restore == post.hidden /\ post' = [post EXCEPT !.hidden = FALSE] /\ UNCHANGED <<out, account, shop, req>>

PostNext ==
    \/ Connect \/ Disconnect \/ Suspend \/ CloseShop \/ CreatePost \/ DayPasses \/ FailStale
    \/ CancelHidden \/ Restore
    \/ \E w \in Worker :
         \/ DeleteReads(w) \/ DeletePost(w) \/ RetryReads(w) \/ RetryPost(w)
         \/ PublishReads(w) \/ CancelOfClosed(w) \/ FailLate(w) \/ Claim(w) \/ ReadConnection(w)
         \/ \E n \in Net, answer \in {"refused", "accepted", "lost"} : PostTo(w, n, answer)
         \/ Finish(w) \/ Crash(w) \/ HideReads(w) \/ Hide(w)

(***************************************************************************)
(* Properties                                                              *)
(***************************************************************************)

PostTypeOK ==
    /\ post \in PostRow /\ out \in [Net -> 0 .. 2]
    /\ account \in {None} \cup SUBSET Net /\ shop \in {"open", "suspended", "closed"}
    /\ req \in [Worker -> [op : {"free", "delete", "retryRest", "retryAll", "cancel", "late", "claim", "connect",
                                 "facebook", "instagram", "finish", "hide", "hideCancel"},
                           ids : SUBSET Net, net : SUBSET Net]]

Publishing == \E w \in Worker : req[w].op \in {"connect", "facebook", "instagram", "finish"}

(* Each network receives the post once, though jobs run together, one      *)
(* network fails and is tried again, and the post is deleted or hidden in  *)
(* the middle; jobs that stop and answers that are lost are left to the    *)
(* team, who is told to look (publishPost, retryPost).                     *)
PostedOnce == Faults = {} => \A n \in Net : out[n] <= 1

(* What went out is written down, and only that: a retry does not repeat   *)
(* it and the page shows it (publishPost).                                 *)
PostRecorded ==
    Faults = {} /\ ~Publishing /\ post.status # "deleted" => post.ids = {n \in Net : out[n] = 1}

(* A post that the platform hid does not go out, unless it was going out   *)
(* already, in whatever order the job, the retry and the decision run      *)
(* (publishPost, retryPost, setHidden).                                    *)
HiddenNotPosted == post.hidden /\ ~Publishing => out' = out /\ ~Publishing'

(***************************************************************************)
(* The component: one part at a time. The other parts have no state then.  *)
(***************************************************************************)

vars == 
    <<used, files, slot, retired, gallery, open, judged, req, post, out, account, shop>>

Init ==
    \/ /\ Part = "images" /\ ImageInit
          /\ post = None /\ out = None /\ account = None /\ shop = None
    \/ /\ Part = "posts" /\ PostInit
          /\ used = None /\ files = None /\ slot = None /\ retired = None /\ gallery = None
          /\ open = None /\ judged = None

Next ==
    \/ Part = "images" /\ ImageNext /\ UNCHANGED <<post, out, account, shop>>
    \/ Part = "posts" /\ PostNext /\ UNCHANGED <<used, files, slot, retired, gallery, open, judged>>

Spec == Init /\ [][Next]_vars

TypeOK ==
    /\ Part = "images" => ImageTypeOK
    /\ Part = "posts" => PostTypeOK
=============================================================================
