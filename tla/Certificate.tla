------------------------------ MODULE Certificate ------------------------------
(***************************************************************************)
(* How long the certificate that nginx serves is still valid.  Three       *)
(* periods of compose.prod.yaml and deploy.sh meet here: certbot tries to  *)
(* renew every 12 hours, nginx reads the certificate again every 6 hours   *)
(* (or when its container is started), and a deployment renews only what   *)
(* expires within a day.  Certbot itself renews in the last Window of the  *)
(* lifetime, and every attempt may fail.                                   *)
(***************************************************************************)
EXTENDS Integers

CONSTANTS
    Lifetime,      \* external: of a new certificate
    Window,        \* external: what certbot takes for due
    RenewEvery,    \* sleep 12h
    ReloadEvery,   \* sleep 6h
    Day,           \* -checkend 86400
    Retries        \* attempts that may fail in a row

ASSUME PeriodsAssumption ==
    /\ Lifetime \in Nat /\ Window \in Nat /\ Day \in Nat
    /\ RenewEvery \in Nat \ {0} /\ ReloadEvery \in Nat \ {0} /\ Retries \in Nat
    /\ Window < Lifetime /\ Day <= Lifetime
    /\ (Retries + 1) * RenewEvery + ReloadEvery <= Window

VARIABLES
    left,       \* time left of the certificate in the volume
    loaded,     \* time left of the certificate nginx serves
    certbotIn,  \* time until certbot's sleep is over
    reloadIn,   \* time until the sleep in the nginx container is over
    failures    \* attempts that have failed since the last that did not

vars == << left, loaded, certbotIn, reloadIn, failures >>

TypeOK ==
    /\ left \in 0..Lifetime
    /\ loaded \in 0..Lifetime
    /\ certbotIn \in 0..RenewEvery
    /\ reloadIn \in 0..ReloadEvery
    /\ failures \in 0..Retries

\* The first deployment has just issued the certificate.
Init ==
    /\ left = Lifetime /\ loaded = Lifetime
    /\ certbotIn = 0 /\ reloadIn = ReloadEvery
    /\ failures = 0

After(t) == IF t > 0 THEN t - 1 ELSE 0

Tick ==
    /\ certbotIn > 0 /\ reloadIn > 0
    /\ left' = After(left)
    /\ loaded' = After(loaded)
    /\ certbotIn' = certbotIn - 1
    /\ reloadIn' = reloadIn - 1
    /\ UNCHANGED failures

Renewed == Lifetime

\* certbot renew, and back to sleep
Renew ==
    /\ certbotIn = 0
    /\ certbotIn' = RenewEvery
    /\ \/ left > Window /\ failures' = 0 /\ UNCHANGED left
       \/ left <= Window /\ failures' = 0 /\ left' = Renewed
       \/ /\ left <= Window /\ failures < Retries
          /\ failures' = failures + 1
          /\ UNCHANGED left
    /\ UNCHANGED << loaded, reloadIn >>

\* Mutant: nginx goes on with what it read when it was started.
NotRead == loaded

Read == left'

\* nginx -s reload, and back to sleep
Reload ==
    /\ reloadIn = 0
    /\ reloadIn' = ReloadEvery
    /\ UNCHANGED left
    /\ loaded' = Read
    /\ UNCHANGED << certbotIn, failures >>

CertificateIsUsable == left > Day

\* A deployment: the certificate is issued again if it is not usable, which
\* may fail; either way nginx is recreated.  certbot is started only if it
\* does not run.
Deploy ==
    /\ \/ CertificateIsUsable /\ UNCHANGED left
       \/ ~CertificateIsUsable /\ left' \in {left, Renewed}
    /\ loaded' = left'
    /\ reloadIn' = ReloadEvery
    /\ UNCHANGED << certbotIn, failures >>

\* The host is rebooted, or a container is restarted by Docker.
CertbotRestarts ==
    /\ certbotIn' = 0
    /\ UNCHANGED << left, loaded, reloadIn, failures >>

NginxRestarts ==
    /\ loaded' = left
    /\ reloadIn' = ReloadEvery
    /\ UNCHANGED << left, certbotIn, failures >>

Next == Tick \/ Renew \/ Reload \/ Deploy \/ CertbotRestarts \/ NginxRestarts

Spec == Init /\ [][Next]_vars

-----------------------------------------------------------------------------
(* As long as no more than Retries attempts fail in a row, what nginx      *)
(* serves is valid, whatever the phases of the two sleeps and however      *)
(* often containers are started again.                                     *)
ServedIsValid == loaded > 0

-----------------------------------------------------------------------------
\* In the window each failure costs one period of certbot; a certificate that
\* nginx has not read yet costs at most one period of nginx.
OnDisk == left > Window - (failures + 1) * RenewEvery + certbotIn

Served ==
    \/ loaded = left
    \/ loaded > Window - (Retries + 1) * RenewEvery - ReloadEvery + reloadIn

IInv == TypeOK /\ OnDisk /\ Served
=============================================================================
