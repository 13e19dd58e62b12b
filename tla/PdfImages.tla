------------------------------ MODULE PdfImages ------------------------------
(***************************************************************************)
(* internal/service/pdf/pdf_to_images_converter.go: the pages of a PDF are *)
(* converted in batches, each page of a batch by a goroutine of its own    *)
(* that sends its result over a channel with room for all of them.  The    *)
(* first failure that is received ends the conversion, and the caller      *)
(* removes the directory, whatever still runs.                             *)
(***************************************************************************)
EXTENDS Integers

CONSTANTS
    MaxPages,     \* bound: pages of a document
    BatchSizes    \* sizes a caller may ask for

ASSUME PagesAssumption == MaxPages \in Nat /\ BatchSizes \subseteq Int

pdfToCairoBatchSize == 10

VARIABLES
    pages,     \* of the document
    size,      \* cfg.BatchSize
    first,     \* page the current batch starts with
    running,   \* pages whose goroutine has not sent its result
    sent,      \* results in the channel
    images     \* pages whose path is in imagePaths

imageVars == <<pages, size, first, running, sent, images>>

Results == [page : 1 .. MaxPages, ok : BOOLEAN]

ImagesTypeOK ==
    /\ pages \in 0 .. MaxPages
    /\ size \in BatchSizes \union {pdfToCairoBatchSize}
    /\ first \in Int
    /\ running \subseteq 1 .. MaxPages
    /\ sent \subseteq Results
    /\ images \subseteq 1 .. MaxPages

ImagesInit ==
    /\ pages = 0
    /\ size = pdfToCairoBatchSize
    /\ first = 1
    /\ running = {} /\ sent = {} /\ images = {}

\* Pages of the batch that starts with `from`.
Batch(from) == {p \in from .. from + size - 1 : p <= pages}

\* The channel of a batch would have a negative capacity.
BatchPanics == first <= pages /\ size < 0

AllBatchesDone == first > pages

\* The loop has received as many results as the batch has pages.
BatchReceived == Batch(first) \subseteq images

\* The document is fetched and its pages are counted.
CountPages ==
    /\ pages' \in 0 .. MaxPages
    /\ size' \in BatchSizes \union {pdfToCairoBatchSize}
    /\ first' = 1
    /\ running' = {} /\ sent' = {} /\ images' = {}

BatchNotStarted == first = 1 /\ pages > 0 /\ running = {} /\ sent = {} /\ images = {}

StartBatch ==
    /\ first <= pages /\ size > 0
    /\ running = {} /\ sent = {} /\ Batch(first) \intersect images = {}
    /\ running' = Batch(first)
    /\ UNCHANGED <<pages, size, first, sent, images>>

\* Fault: a page that fails sends no result.
PageDoneSilently(p) ==
    /\ p \in running
    /\ sent' \in {sent, sent \union {[page |-> p, ok |-> TRUE]}}
    /\ running' = running \ {p}
    /\ UNCHANGED <<pages, size, first, images>>

PageDone(p) ==
    /\ p \in running
    /\ \E ok \in BOOLEAN : sent' = sent \union {[page |-> p, ok |-> ok]}
    /\ running' = running \ {p}
    /\ UNCHANGED <<pages, size, first, images>>

Receive(r) ==
    /\ r \in sent /\ r.ok
    /\ sent' = sent \ {r}
    /\ images' = images \union {r.page}
    /\ UNCHANGED <<pages, size, first, running>>

\* A batch of no page is received at once.
NextBatch ==
    /\ first <= pages /\ size >= 0 /\ BatchReceived
    /\ first' = first + size
    /\ UNCHANGED <<pages, size, running, sent, images>>
=============================================================================
