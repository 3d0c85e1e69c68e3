----------------------------- MODULE ApiDocument -----------------------------
(***************************************************************************)
(* GET /: the OpenAPI document in its two formats, and conditional reads.  *)
(*                                                                         *)
(*   src/handlers/openapi.ts         handleOpenAPISpec                     *)
(*   src/openapi-generator.ts        generateSpec                          *)
(*   src/utils/response.ts           generateETag                          *)
(*                                                                         *)
(* The first reader generates the document and awaits the digest of each   *)
(* format; whoever reads in between gets no ETag.  A reader keeps one copy *)
(* (the answers carry no Vary header) and presents its ETag when it asks   *)
(* again, perhaps for the other format, perhaps after the service was      *)
(* restarted with another document.                                        *)
(***************************************************************************)
EXTENDS Naturals

CONSTANTS
    DocumentClients,    \* clients that read the document concurrently
    MaxVersion          \* bound: documents that are ever deployed

VARIABLES
    deployed,           \* the document of the running service
    documentCached,     \* cachedSpec and both contents are set
    etags,              \* the formats whose ETag is known
    reading,            \* [DocumentClients -> what its request waits for]
    copy,               \* [DocumentClients -> the representation it holds]
    documentAnswer      \* [DocumentClients -> the last answer]

documentVars == <<deployed, documentCached, etags, reading, copy, documentAnswer>>

Formats == {"json", "yaml"}
NoETag == <<"none", 0>>
NoCopy == [format |-> "none", version |-> 0, etag |-> NoETag]

\* Mutant: one ETag for the document, whatever its format.
ETagOfDocument(format, ver) == <<"json", ver>>

\* generateETag: a digest of the content, hence of format and version.
ETag(format, ver) == <<format, ver>>

DocumentInit ==
    /\ deployed = 1
    /\ documentCached = FALSE
    /\ etags = {}
    /\ reading = [c \in DocumentClients |-> "idle"]
    /\ copy = [c \in DocumentClients |-> NoCopy]
    /\ documentAnswer = [c \in DocumentClients |-> [status |-> 0, format |-> "none", version |-> 0]]

\* The answer to c, which may send the ETag of its copy as If-None-Match,
\* when the ETags of the formats in known are there.
Answer(c, format, conditional, known) ==
    LET etag == IF format \in known THEN ETag(format, deployed) ELSE NoETag
        notModified == etag # NoETag /\ conditional /\ copy[c].etag = etag
    IN  /\ documentAnswer' = [documentAnswer EXCEPT ![c] =
               [status |-> IF notModified THEN 304 ELSE 200, format |-> format,
                version |-> deployed]]
        /\ copy' = [copy EXCEPT ![c] =
               IF notModified THEN @ ELSE [format |-> format, version |-> deployed, etag |-> etag]]

ServeDocument(c, format, conditional) ==
    /\ reading[c] = "idle"
    /\ documentCached
    /\ Answer(c, format, conditional, etags)
    /\ UNCHANGED <<deployed, documentCached, etags, reading>>

\* The first request generates the document and awaits both ETags.
GenerateDocument(c) ==
    /\ reading[c] = "idle"
    /\ ~documentCached
    /\ documentCached' = TRUE
    /\ reading' = [reading EXCEPT ![c] = "json"]
    /\ UNCHANGED <<deployed, etags, copy, documentAnswer>>

TagComputed(c, format, conditional) ==
    \/ /\ reading[c] = "json"
       /\ etags' = etags \cup {"json"}
       /\ reading' = [reading EXCEPT ![c] = "yaml"]
       /\ UNCHANGED <<deployed, documentCached, copy, documentAnswer>>
    \/ /\ reading[c] = "yaml"
       /\ etags' = etags \cup {"yaml"}
       /\ reading' = [reading EXCEPT ![c] = "idle"]
       /\ Answer(c, format, conditional, etags')
       /\ UNCHANGED <<deployed, documentCached>>

\* Another document is deployed; requests under way are lost.
Redeploy ==
    /\ deployed < MaxVersion
    /\ deployed' = deployed + 1
    /\ documentCached' = FALSE
    /\ etags' = {}
    /\ reading' = [c \in DocumentClients |-> "idle"]
    /\ UNCHANGED <<copy, documentAnswer>>

DocumentNext ==
    \/ \E c \in DocumentClients, format \in Formats, conditional \in BOOLEAN :
           \/ ServeDocument(c, format, conditional)
           \/ TagComputed(c, format, conditional)
    \/ \E c \in DocumentClients : GenerateDocument(c)
    \/ Redeploy

(***************************************************************************)
(* Properties                                                              *)
(***************************************************************************)

Copies == [format : Formats \cup {"none"}, version : 0..MaxVersion,
           etag : (Formats \cup {"none"}) \X (0..MaxVersion)]

\* Types.
DocumentTypeOK ==
    /\ deployed \in 1..MaxVersion
    /\ documentCached \in BOOLEAN
    /\ etags \subseteq Formats
    /\ reading \in [DocumentClients -> Formats \cup {"idle"}]
    /\ copy \in [DocumentClients -> Copies]
    /\ documentAnswer \in [DocumentClients -> [status : {0, 200, 304},
                            format : Formats \cup {"none"}, version : 0..MaxVersion]]

\* A client that is told "304 Not Modified" holds the document the service had
\* when it answered, in the format the client had asked for: neither the
\* document of an earlier deployment nor the other format, whichever copy it
\* got with or without an ETag, from whichever of the concurrent requests.
NotModifiedMeansCurrent ==
    \A c \in DocumentClients :
        documentAnswer[c].status = 304 =>
            /\ copy[c].format = documentAnswer[c].format
            /\ copy[c].version = documentAnswer[c].version
=============================================================================
