----------------------- MODULE MCPaymentGateway -----------------------
(* Small instances of PaymentGateway.                                    *)
EXTENDS PaymentGateway, TLC

CONSTANTS p1, h1, h2, c1

\* Deliveries that are handled in turn: one handler, and a user of the back office.
\* Deliveries that overlap: two handlers, and no user confirms or cancels.
Focus == IF apart THEN hook[h2] = Free ELSE job[c1] = Rest
=======================================================================
