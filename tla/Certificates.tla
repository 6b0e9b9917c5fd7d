---- MODULE Certificates ----
(* TLS for the dashboard: the four files of the local CA and of the server's    *)
(* own pair (webtls.py), the two ways to write them -- `setup-tls' and the      *)
(* setup page --, the server that loads a pair when it starts and keeps it      *)
(* (webapp.py), the plain-HTTP page that hands the CA out (webtrust.py), and    *)
(* the devices that installed a CA. A file is emptied, then filled; a setup may *)
(* be killed in between. Nothing keeps two setups apart: Together says whether  *)
(* they are explored.                                                           *)
EXTENDS Naturals, Sequences

CONSTANTS Devices, MaxKeys, Together

VARIABLES
    file,       \* what each file holds
    setup,      \* the setup that runs at the command line, and on the web page
    pairs,      \* key pairs generated so far
    serving,    \* the server: its scheme, and the certificate it loaded
    trusted,    \* for each device, the key pairs of the CAs it installed
    torn,       \* a setup was killed while it replaced a CA whose certificate was still there
    forgotten   \* somebody removed a file of the CA

certVars == <<file, setup, pairs, serving, trusted, torn, forgotten>>

CaFiles == {"ca.crt", "ca.key"}
Files == CaFiles \cup {"crt", "key"}
Setups == {"cli", "web"}

\* A file is missing, emptied, a private key, or a certificate: for a pair,
\* signed by a pair, in the name of an issuer.
Missing == [is |-> "missing"]
Empty == [is |-> "empty"]
Key(k) == [is |-> "key", pair |-> k]
Cert(k, by, issuer) == [is |-> "cert", pair |-> k, by |-> by, issuer |-> issuer]

Idle == [pc |-> "idle", method |-> "none", plan |-> <<>>, done |-> 0, said |-> "none"]
Down == [scheme |-> "down", cert |-> Missing, own |-> FALSE]

Init ==
    /\ file = [f \in Files |-> Missing]
    /\ setup = [s \in Setups |-> Idle]
    /\ pairs = 0
    /\ serving = Down
    /\ trusted = [d \in Devices |-> {}]
    /\ torn = FALSE /\ forgotten = FALSE

Exists(f) == file[f] # Missing

\* A certificate of which something can be said.
Parsed(f) == file[f].is = "cert"

\* Whether a certificate is of this CA goes by the issuer's name: every local CA
\* bears the same one.
SignedByCA(c) == c.issuer = "ca" /\ Parsed("ca.crt")

KindOf(c) ==
    CASE c.is # "cert" -> "none"
      [] c.is = "cert" /\ c.issuer = "self" -> "selfsigned"
      [] c.is = "cert" /\ c.issuer # "self" /\ SignedByCA(c) -> "ca"
      [] OTHER -> "public"

\* ------------------------------------------------------------------- the setups

\* What is written, in this order: the key before its certificate, except by
\* the tailscale command.
Put(f, what) == [to |-> f, what |-> what]
InTurn(f, what, g, other) == <<Put(f, Empty), Put(f, what), Put(g, Empty), Put(g, other)>>
SelfSigned(k) == InTurn("key", Key(k), "crt", Cert(k, k, "self"))
LocalCA(k) == InTurn("ca.key", Key(k), "ca.crt", Cert(k, k, "ca"))
\* Mutant: the leaf is signed with its own key.
Leaf_OwnKey(k, ca) == InTurn("key", Key(k), "crt", Cert(k, k, "ca"))
Leaf(k, ca) == InTurn("key", Key(k), "crt", Cert(k, ca, "ca"))
Tailnet(k) == InTurn("crt", Cert(k, 0, "public"), "key", Key(k))

At(s, pc) == setup[s].pc = pc
Quiet == \A s \in Setups : At(s, "idle")
Turn(s, pc, plan, said) ==
    setup' = [setup EXCEPT ![s] = [pc |-> pc, method |-> setup[s].method, plan |-> plan, done |-> 0, said |-> said]]
Step(s, pc, plan) == Turn(s, pc, plan, "none")
End(s, said) == Turn(s, "end", <<>>, said)
NewKey == pairs < MaxKeys /\ pairs' = pairs + 1

Begin(s, method) ==
    /\ At(s, "idle")
    /\ setup' = [setup EXCEPT ![s] = [Idle EXCEPT !.pc = "begun", !.method = method]]
    /\ Quiet \/ Together
    /\ UNCHANGED <<file, pairs, serving, trusted, torn, forgotten>>

\* setup-tls; `Regenerate?' answered with no changes nothing.
CliSetup == \E method \in {"auto", "tailscale", "selfsigned", "ca"} : Begin("cli", method)

\* POST /setup/tls, which asks nothing.
WebSetup ==
    /\ serving.scheme # "down"
    /\ \E method \in {"tailscale", "selfsigned", "ca"} : Begin("web", method)

GenerateSelfSigned(s) == NewKey /\ Step(s, "write", SelfSigned(pairs + 1))

\* Without a tailnet certificate: auto goes on, tailscale gives up.
NoTailnet(s) ==
    IF setup[s].method = "auto" THEN GenerateSelfSigned(s) ELSE End(s, "error") /\ UNCHANGED pairs

Detect(s) ==
    /\ At(s, "begun")
    /\ CASE setup[s].method \in {"auto", "tailscale"} ->
              NoTailnet(s) \/ (NewKey /\ Step(s, "tailnet", Tailnet(pairs + 1)))
         [] setup[s].method = "selfsigned" -> GenerateSelfSigned(s)
         [] setup[s].method = "ca" -> Step(s, "ca", <<>>) /\ UNCHANGED pairs
    /\ UNCHANGED <<file, serving, trusted, torn, forgotten>>

\* The tailscale command fails or runs out of time, whatever it has written; or
\* what it left is no pair that can be read.
TailnetFails(s) ==
    /\ At(s, "tailnet")
    /\ NoTailnet(s)
    /\ UNCHANGED <<file, serving, trusted, torn, forgotten>>

TailnetObtained(s) ==
    /\ At(s, "tailnet") /\ setup[s].done = Len(setup[s].plan)
    /\ Parsed("crt") /\ Exists("key")
    /\ End(s, "ok")
    /\ UNCHANGED <<file, pairs, serving, trusted, torn, forgotten>>

\* The CA is reused when both its files are there, whatever is in them.
HaveCA == Exists("ca.crt") /\ Exists("ca.key")

GenerateLocalCA(s) ==
    /\ At(s, "ca")
    /\ IF HaveCA THEN Step(s, "sign", <<>>) /\ UNCHANGED pairs ELSE NewKey /\ Step(s, "writeca", LocalCA(pairs + 1))
    /\ UNCHANGED <<file, serving, trusted, torn, forgotten>>

\* The leaf gets the issuer's name from the certificate and its signature from
\* the key; that they belong together is not looked at.
SignLeaf(s) ==
    /\ At(s, "sign")
    /\ IF Parsed("ca.crt") /\ file["ca.key"].is = "key"
       THEN NewKey /\ Step(s, "write", Leaf(pairs + 1, file["ca.key"].pair))
       ELSE End(s, "error") /\ UNCHANGED pairs
    /\ UNCHANGED <<file, serving, trusted, torn, forgotten>>

\* The next file is emptied, or filled.
WriteFile(s) ==
    /\ setup[s].done < Len(setup[s].plan)
    /\ LET now == setup[s].plan[setup[s].done + 1]
           last == setup[s].done + 1 = Len(setup[s].plan)
       IN  /\ file' = [file EXCEPT ![now.to] = now.what]
           /\ CASE last /\ At(s, "write") -> End(s, "ok")
                [] last /\ At(s, "writeca") -> Step(s, "sign", <<>>)
                [] OTHER -> setup' = [setup EXCEPT ![s].done = @ + 1]
    /\ UNCHANGED <<pairs, serving, trusted, torn, forgotten>>

Return(s) ==
    /\ At(s, "end")
    /\ setup' = [setup EXCEPT ![s] = Idle]
    /\ UNCHANGED <<file, pairs, serving, trusted, torn, forgotten>>

\* The command is killed, or the server in the middle of its page's setup.
Kill(s) ==
    /\ ~At(s, "idle")
    /\ setup' = [setup EXCEPT ![s] = Idle]
    /\ serving' = IF s = "web" THEN Down ELSE serving
    /\ torn' = (torn \/ (At(s, "writeca") /\ Parsed("ca.crt")))
    /\ UNCHANGED <<file, pairs, trusted, forgotten>>

\* `To regenerate, delete the files first.'
RemoveCA ==
    /\ Quiet
    /\ \E gone \in (SUBSET CaFiles) \ {{}} :
          /\ \A f \in gone : Exists(f)
          /\ file' = [f \in Files |-> IF f \in gone THEN Missing ELSE file[f]]
    /\ forgotten' = TRUE
    /\ UNCHANGED <<setup, pairs, serving, trusted, torn>>

\* ------------------------------------------------------------------- the server

\* The pair a server was given by name, which somebody else takes care of.
Own == Cert(0, 0, "public")

\* What a server that starts now would serve: the pair it was given, or the one
\* at the default paths when both files are there; half a pair is refused, and
\* one whose halves do not fit cannot be loaded.
Resolved(given) ==
    CASE given = "half" -> Down
      [] given = "pair" -> [scheme |-> "https", cert |-> Own, own |-> TRUE]
      [] given = "nothing" /\ ~(Exists("crt") /\ Exists("key")) -> [Down EXCEPT !.scheme = "http"]
      [] OTHER ->
            IF Parsed("crt") /\ file["key"].is = "key" /\ file["crt"].pair = file["key"].pair
            THEN [scheme |-> "https", cert |-> file["crt"], own |-> FALSE]
            ELSE Down

\* A server stops between two requests only; it never changes what it loaded.
Start ==
    /\ At("web", "idle")
    /\ \E given \in {"nothing", "pair", "half"} : serving' = Resolved(given)
    /\ UNCHANGED <<file, setup, pairs, trusted, torn, forgotten>>

\* ---------------------------------------------------------- handing out the CA

\* The trust page listens beside https only, and not while the setup page is
\* busy: it runs in the same loop. It looks at the file that was loaded.
Listening == serving.scheme = "https" /\ At("web", "idle")
TrustKind == KindOf(IF serving.own THEN Own ELSE file["crt"])
Offered == Listening /\ TrustKind = "ca"

\* The status card of the setup page looks at the default paths.
StatusKind == IF Exists("crt") /\ Exists("key") THEN KindOf(file["crt"]) ELSE "none"

Install(d) ==
    /\ Parsed("ca.crt")
    /\ trusted' = [trusted EXCEPT ![d] = @ \cup {file["ca.crt"].pair}]
    /\ UNCHANGED <<file, setup, pairs, serving, torn, forgotten>>

\* From the trust page: GET /ca.crt, or the profile; from the setup page; by
\* hand, as setup-tls says.
TrustDownload(d) == Offered /\ Install(d)
SetupDownload(d) == serving.scheme # "down" /\ At("web", "idle") /\ Install(d)
Copy(d) == Install(d)

Next ==
    \/ CliSetup \/ WebSetup \/ RemoveCA \/ Start
    \/ \E s \in Setups :
          \/ Detect(s) \/ TailnetFails(s) \/ TailnetObtained(s)
          \/ GenerateLocalCA(s) \/ SignLeaf(s)
          \/ WriteFile(s) \/ Return(s) \/ Kill(s)
    \/ \E d \in Devices : TrustDownload(d) \/ SetupDownload(d) \/ Copy(d)

\* ----------------------------------------------------------------- what it owes

\* A setup that reports success leaves a pair that a server can load, whatever
\* an earlier one that was killed left behind; made with the CA, it was signed by
\* the CA that is handed out, unless that one was being replaced when it happened.
SetupIsWhole ==
    \A s \in Setups :
        At(s, "end") /\ setup[s].said = "ok" =>
            /\ Resolved("nothing").scheme = "https"
            /\ setup[s].method = "ca" /\ ~torn => Parsed("ca.crt") /\ file["crt"].by = file["ca.crt"].pair

\* "The leaf rotates without re-trusting; the CA is what you trust" (cmd_setup_tls):
\* a device that installed the CA accepts every certificate of it that is ever
\* served, unless somebody removed the CA.
TrustOnce ==
    ~forgotten =>
        \A d \in Devices :
            trusted[d] # {} /\ serving.scheme = "https" /\ serving.cert.issuer = "ca" => serving.cert.by \in trusted[d]

\* A CA offered while the server serves what is on disk is the one that signed
\* it, under the same proviso.
OfferIsReal ==
    ~forgotten /\ Offered /\ serving.cert = file["crt"] => serving.cert.by = file["ca.crt"].pair

CertificatesAreTrue == SetupIsWhole /\ TrustOnce /\ OfferIsReal

\* "only ever offer a REAL local-CA download when the certificate this server is
\* actually serving over HTTPS was signed by a local CA" (webtrust.py): it fails.
TrustPageIsReal == Offered => serving.cert.issuer = "ca" /\ serving.cert.by = file["ca.crt"].pair

\* "/trust and /setup can never disagree about what kind of certificate is
\* active" (webtrust.py): it fails.
PagesAgree == Listening => TrustKind = StatusKind
====
