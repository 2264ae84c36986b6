------------------------------ MODULE RootDesc ------------------------------
(* parse_root_desc: the loop over the XML events of the router's description  *)
(* that finds the URLs of its WAN connection services, and the choice between *)
(* them. The description is a sequence of services, a service the sequence of *)
(* its elements; routers leave elements out, empty, and in any order. The     *)
(* devices around the services and a document that is no XML are left out.    *)
EXTENDS Naturals, Sequences, SequencesExt

CONSTANTS
    MaxServices,  \* bound: the services of a description
    Blank,        \* no text, String::new()
    None          \* no URL

VARIABLE doc  \* the description the router serves

WanKinds == {"WANIPConnection", "WANPPPConnection"}
Host == "router"

Tags == {"serviceType", "controlURL", "eventSubURL"}

\* URLs have no host when they start with a slash.
Url == {Blank} \cup [host: {Blank, Host}, path: Tags \X Nat]
DocUrls == [control: Url, event: Url]

\* A service says each thing once.
Element ==
    [tag: {"serviceType"}, text: WanKinds \cup {"other", Blank}]
    \cup [tag: {"controlURL", "eventSubURL"}, text: Url]
ServiceDesc == {s \in Seq(Element) : \A i, j \in DOMAIN s : s[i].tag = s[j].tag => i = j}
Description == Seq(ServiceDesc)

ASSUME RootDescAssumption == None \notin DocUrls

-----------------------------------------------------------------------------
(* The router's description, written an element at a time. The path of a URL  *)
(* says where it stands.                                                      *)

Text(tag) ==
    IF tag = "serviceType" THEN WanKinds \cup {"other"}
    ELSE {Blank} \cup [host: {Blank, Host}, path: {<<tag, Len(doc)>>}]

DocInit == doc = <<>>

AddService ==
    /\ Len(doc) < MaxServices
    /\ doc' = Append(doc, <<>>)

AddElement ==
    /\ doc # <<>>
    /\ \E tag \in Tags : \E text \in Text(tag) :
          /\ \A i \in DOMAIN Last(doc) : Last(doc)[i].tag # tag
          /\ doc' = [doc EXCEPT ![Len(doc)] = Append(@, [tag |-> tag, text |-> text])]

DocNext == AddService \/ AddElement

DocSpec == DocInit /\ [][DocNext]_doc

\* What quick_xml makes of it. Blank text is no event.
ElementEvents(e) ==
    <<[event |-> "start", tag |-> e.tag]>>
    \o (IF e.text = Blank THEN <<>> ELSE <<[event |-> "text", text |-> e.text]>>)
    \o <<[event |-> "end", tag |-> e.tag]>>

ServiceEvents(s) ==
    <<[event |-> "start", tag |-> "service"]>>
    \o FlattenSeq([i \in DOMAIN s |-> ElementEvents(s[i])])
    \o <<[event |-> "end", tag |-> "service"]>>

Events(d) == FlattenSeq([i \in DOMAIN d |-> ServiceEvents(d[i])])

-----------------------------------------------------------------------------
(* The parser.                                                               *)

Cleared == [tag \in Tags |-> Blank]
NoServices == [kind \in WanKinds |-> None]
ParserStart == [inService |-> FALSE, tag |-> Blank, current |-> Cleared, found |-> NoServices]

\* The base URL is that of the description.
Resolve(url) == IF url # Blank /\ url.host = Blank THEN [url EXCEPT !.host = Host] ELSE url

\* Mutant: what the service before said is kept.
StartTag_NotCleared(p, tag) ==
    [p EXCEPT !.tag = tag, !.inService = @ \/ tag = "service"]

StartTag(p, tag) ==
    IF tag = "service" THEN [p EXCEPT !.tag = tag, !.inService = TRUE, !.current = Cleared]
    ELSE [p EXCEPT !.tag = tag]

TextOf(p, text) ==
    IF p.inService /\ p.tag \in Tags THEN [p EXCEPT !.current[p.tag] = text] ELSE p

EndTag(p, tag) ==
    LET kind == p.current["serviceType"]
        urls == [control |-> Resolve(p.current["controlURL"]),
                 event |-> Resolve(p.current["eventSubURL"])]
    IN  IF tag # "service" \/ ~p.inService THEN p
        ELSE IF kind \in WanKinds THEN [p EXCEPT !.inService = FALSE, !.found[kind] = urls]
        ELSE [p EXCEPT !.inService = FALSE]

ReadEvent(p, e) ==
    CASE e.event = "start" -> StartTag(p, e.tag)
      [] e.event = "text" -> TextOf(p, e.text)
      [] e.event = "end" -> EndTag(p, e.tag)

\* (The singletons let TLC evaluate each state of the parser once.)
ParseRootDesc(d) ==
    LET events == Events(d)
        parser[i \in 0..Len(events)] ==
            IF i = 0 THEN {ParserStart} ELSE {ReadEvent(p, events[i]) : p \in parser[i - 1]}
    IN  (CHOOSE p \in parser[Len(events)] : TRUE).found

\* control_url, event_url: WANIPConnection before WANPPPConnection.
Preferred(services, url) ==
    IF services["WANIPConnection"] # None THEN services["WANIPConnection"][url]
    ELSE IF services["WANPPPConnection"] # None THEN services["WANPPPConnection"][url]
    ELSE None

ControlUrl(services) == Preferred(services, "control")
EventUrl(services) == Preferred(services, "event")

-----------------------------------------------------------------------------
\* What a service says in an element, Blank when it says nothing.
Says(service, tag) ==
    LET said == {i \in DOMAIN service : service[i].tag = tag} IN
    IF said = {} THEN Blank ELSE service[CHOOSE i \in said : TRUE].text

\* The service the router means: the last of its kind.
Meant(d) ==
    LET OfKind(kind) == {i \in DOMAIN d : Says(d[i], "serviceType") = kind}
        Ranked == IF OfKind("WANIPConnection") # {} THEN OfKind("WANIPConnection")
                  ELSE OfKind("WANPPPConnection")
    IN  {i \in Ranked : \A j \in Ranked : j <= i}

\* The URL that is asked for the address and told the mappings, and the one
\* that is subscribed to, are those of one service, the one meant, whatever
\* order its elements have and whatever they leave out: none is inherited from
\* another service.
RootDescIsRead ==
    LET services == ParseRootDesc(doc) IN
    IF Meant(doc) = {} THEN ControlUrl(services) = None /\ EventUrl(services) = None
    ELSE \A i \in Meant(doc) :
            /\ ControlUrl(services) = Resolve(Says(doc[i], "controlURL"))
            /\ EventUrl(services) = Resolve(Says(doc[i], "eventSubURL"))
=============================================================================
