---------------------------- MODULE TargetRules ----------------------------
(***************************************************************************)
(* What internal/api and internal/target make of the body of a POST or a   *)
(* PUT: defaults, normalisation and validation, and what a response shows. *)
(* TargetTypes has one valid or invalid body for both methods; that this   *)
(* is sound is shown here.                                                 *)
(*                                                                         *)
(* A text is what is left of it when the space around it is trimmed, and   *)
(* whether there was any; of a method also whether it was in lower case.   *)
(* A URL is what url.Parse makes of it.                                    *)
(***************************************************************************)
EXTENDS Integers

CONSTANTS
  Words,       \* names
  Urls,        \* URLs
  WebUrls,     \* those that have a host and the scheme http or https
  Methods,     \* methods, in upper case
  Durations,   \* values of durations
  Codes,       \* expected status codes
  Omitted,     \* the field is not in the body
  Unparsable   \* time.ParseDuration refuses it

Texts(S)      == [core : S \cup {""}, space : BOOLEAN]
MethodTexts   == {m \in [core : Methods \cup {""}, space : BOOLEAN, lower : BOOLEAN] :
                    m.core = "" => ~m.lower}
IsEmpty(text) == text.core = "" /\ ~text.space
Trim(text)    == [text EXCEPT !.space = FALSE]

Bodies ==
  [name : Texts(Words), url : Texts(Urls), method : MethodTexts,
   interval : Durations \cup {Omitted, Unparsable},
   timeout  : Durations \cup {Omitted, Unparsable},
   code : Codes \cup {Omitted}, enabled : BOOLEAN \cup {Omitted}]

Fields == {"name", "url", "method", "interval", "timeout", "code", "enabled"}

RulesConstants ==
  /\ "" \notin Words \cup Urls \cup Methods /\ WebUrls \subseteq Urls
  /\ "GET" \in Methods
  /\ Durations \subseteq Int /\ Codes \subseteq Int
  /\ {Omitted, Unparsable} \cap (Int \cup BOOLEAN) = {}
  /\ Omitted # Unparsable

-----------------------------------------------------------------------------
Decodes(b)   == Unparsable \notin {b.interval, b.timeout}
Parsed(d)    == IF d = Omitted THEN 0 ELSE d
EnabledOf(b) == IF b.enabled = Omitted THEN TRUE ELSE b.enabled

Get == [core |-> "GET", space |-> FALSE, lower |-> FALSE]

normalizeMethod(m) == IF IsEmpty(m) THEN Get ELSE [Trim(m) EXCEPT !.lower = FALSE]

normalizeExpectedStatusCode(c) == IF c \in {Omitted, 0} THEN 200 ELSE c

New(b) ==
  [name     |-> Trim(b.name),
   url      |-> Trim(b.url),
   method   |-> normalizeMethod(b.method),
   interval |-> Parsed(b.interval),
   timeout  |-> Parsed(b.timeout),
   code     |-> normalizeExpectedStatusCode(b.code),
   enabled  |-> TRUE]

Updated(b) ==
  [name     |-> Trim(b.name),
   url      |-> Trim(b.url),
   method   |-> normalizeMethod(b.method),
   interval |-> Parsed(b.interval),
   timeout  |-> Parsed(b.timeout),
   code     |-> normalizeExpectedStatusCode(b.code),
   enabled  |-> EnabledOf(b)]

allowedMethods == {"GET", "POST", "PUT", "PATCH", "DELETE", "HEAD", "OPTIONS"}

(* Validate returns no error.  It only sees texts that were trimmed.       *)
Valid(t) ==
  /\ ~IsEmpty(t.name) /\ t.url.core \in WebUrls
  /\ t.method.core \in allowedMethods /\ ~t.method.space /\ ~t.method.lower
  /\ t.interval > 0 /\ t.timeout > 0 /\ t.code \in 100..599

(* toTargetResponse.  What Duration.String writes, ParseDuration reads     *)
(* back as the same duration.                                              *)
Shown(t) ==
  [name |-> t.name, url |-> t.url, method |-> t.method, interval |-> t.interval,
   timeout |-> t.timeout, code |-> t.code, enabled |-> t.enabled]

(* The body of a PUT by a client that sends the target back as it is       *)
(* shown, but for one field.                                               *)
Edited(t, f, v) == [Shown(t) EXCEPT ![f] = v]

-----------------------------------------------------------------------------
(* A stored target: it satisfies the CHECKs of the table's migration, its  *)
(* interval is one that the scheduler can tick by and its timeout one the  *)
(* checker can wait for, and updating it with itself changes nothing.      *)
Normal(t) ==
  /\ t \in [name : Texts(Words), url : Texts(WebUrls), method : MethodTexts,
            interval : Int, timeout : Int, code : Int, enabled : BOOLEAN]
  /\ t.interval > 0 /\ t.timeout > 0 /\ t.code \in 100..599
  /\ Updated(Shown(t)) = t

(* What Validate lets pass of either method is a stored target as above.   *)
StoresNormal(b) ==
  Decodes(b) => \A t \in {New(b), Updated(b)} : Valid(t) => Normal(t)

(* docs/api.md: the defaulting rules of PUT are those of POST.  The two    *)
(* copies of the rules in New and in Service.Update accept the same bodies *)
(* and make the same row of them, but for "enabled".                       *)
PostAndPutAgree(b) ==
  Decodes(b) =>
    /\ Valid(New(b)) <=> Valid(Updated(b))
    /\ [New(b) EXCEPT !.enabled = EnabledOf(b)] = Updated(b)

(* A body is accepted exactly when docs/api.md says so, if a code of zero  *)
(* and an empty method are taken for omitted ones.                         *)
AcceptsLegal(b) ==
  Decodes(b) /\ Valid(New(b)) <=>
    /\ b.name.core # "" /\ b.url.core \in WebUrls
    /\ IsEmpty(b.method) \/ b.method.core \in allowedMethods
    /\ {b.interval, b.timeout} \subseteq Nat \ {0}
    /\ b.code \in {Omitted, 0} \cup 100..599

(* Editing one field of a target as it is shown leaves the others as they  *)
(* were: what the response shows is what a PUT of it means.                *)
EditIsLocal(t, f, v) ==
  \A g \in Fields \ {f} : Updated(Edited(t, f, v))[g] = t[g]
=============================================================================
