------------------------------ MODULE ApiRouter ------------------------------
(***************************************************************************)
(* The router of the generated server (oas_router_gen.go): ServeHTTP finds *)
(* the handler of a request, FindPath answers the same question for code   *)
(* that has only a method and a URL.                                       *)
(*                                                                         *)
(* A path is a sequence of tokens, cut so that every prefix the router     *)
(* tests ends between two of them; Escapes are the tokens that are percent *)
(* escapes.  A URL has the decoded path, and the path as it was sent when  *)
(* that is not the default encoding of the decoded one.                    *)
(***************************************************************************)
EXTENDS Naturals, SequencesExt

CONSTANTS
    Escapes,   \* the tokens that are escapes
    Unescaped, \* what each stands for
    Reserved,  \* the escapes that normalisation keeps
    Default    \* the escapes net/url itself writes for their character

ASSUME EscapeAssumption ==
    /\ Reserved \subseteq Escapes
    /\ Default \subseteq Escapes
    /\ Unescaped \in [Escapes -> STRING]
    /\ Escapes \intersect
          {"/", "health", "live", "ready", "api", "v1", "organizations"} = {}

Methods == {"GET", "POST", "OPTIONS"}

Operations == {"getLiveness", "getReadiness", "getOrganization"}

-----------------------------------------------------------------------------
(* URLs.                                                                   *)

\* url.PathUnescape, token by token.
PathUnescape(path) ==
    [i \in DOMAIN path |->
        IF path[i] \in Escapes THEN Unescaped[path[i]] ELSE path[i]]

\* uri.NormalizeEscapedPath: escapes of characters that need none go.
NormalizeEscapedPath(path) ==
    [i \in DOMAIN path |->
        IF path[i] \in Escapes \ Reserved THEN Unescaped[path[i]] ELSE path[i]]

HasEscape(path) == \E i \in DOMAIN path : path[i] \in Escapes

\* url.Parse
ParseURL(sent) ==
    [Path |-> PathUnescape(sent),
     RawPath |-> IF \E i \in DOMAIN sent : sent[i] \in Escapes \ Default
                 THEN sent ELSE <<>>]

-----------------------------------------------------------------------------
(* The search.                                                             *)

Cut(path, prefix) == SubSeq(path, Len(prefix) + 1, Len(path))

\* Server.cutPrefix
CutPrefix(path, prefix) ==
    IF prefix = "" THEN [ok |-> TRUE, rest |-> path]
    ELSE IF IsPrefix(<<prefix>>, path)
         THEN [ok |-> TRUE, rest |-> Cut(path, <<prefix>>)]
         ELSE [ok |-> FALSE, rest |-> <<>>]

NoRoute == [op |-> "none", args |-> <<>>]

LivePath == <<"/", "health", "/", "live">>

ReadyPath == <<"/", "health", "/", "ready">>

OrganizationsPrefix == <<"/", "api", "/", "v1", "/", "organizations", "/">>

\* The leaf of the trie that a path leads to.  The parameter is what is left of
\* the path: it may be empty, but a slash in it is no match.
Leaf(path) ==
    CASE path = LivePath -> [op |-> "getLiveness", args |-> <<>>]
      [] path = ReadyPath -> [op |-> "getReadiness", args |-> <<>>]
      [] /\ IsPrefix(OrganizationsPrefix, path)
         /\ ~Contains(Cut(path, OrganizationsPrefix), "/") ->
            [op |-> "getOrganization", args |-> Cut(path, OrganizationsPrefix)]
      [] OTHER -> NoRoute

\* The path the search begins with.
Elem(url) == IF url.RawPath = <<>> THEN url.Path
             ELSE NormalizeEscapedPath(url.RawPath)

\* Server.ServeHTTP up to the call of a handler: the operation, or that no path
\* or no method fits, the raw argument, and whether it still has escapes.
ServeHTTP(method, url, prefix) ==
    LET cut == CutPrefix(Elem(url), prefix)
        leaf == IF ~cut.ok \/ cut.rest = <<>> THEN NoRoute ELSE Leaf(cut.rest)
    IN [op |-> IF leaf.op = "none" THEN "notFound"
               ELSE IF method = "GET" THEN leaf.op ELSE "notAllowed",
        args |-> leaf.args,
        escaped |-> url.RawPath # <<>> /\ HasEscape(Elem(url))]

\* Server.FindPath: the copy of the search that answers with a Route, whose
\* arguments are unescaped at the end if the URL has a raw path.
FindPath(method, url, prefix) ==
    LET cut == CutPrefix(Elem(url), prefix)
        leaf == IF cut.ok THEN Leaf(cut.rest) ELSE NoRoute
        found == leaf.op # "none" /\ method = "GET"
    IN [found |-> found,
        name |-> IF found THEN leaf.op ELSE "none",
        args |-> IF ~found THEN <<>>
                 ELSE IF url.RawPath = <<>> THEN leaf.args
                 ELSE PathUnescape(leaf.args)]
=============================================================================
