-------------------------- MODULE Purchasing --------------------------
(* What is bought and what suppliers are paid.  A purchase invoice may    *)
(* name a goods receipt, whatever its status, and neither is written for  *)
(* the other: requests of the two take steps independently.               *)
EXTENDS Procurement

CONSTANTS
  Users,             \* requests about payments in flight at most
  Payments,          \* receipts that say what a supplier is paid
  PurchaseInvoices,
  Rows, Amounts

VARIABLES purchaseInvoice, payment, allocation, paying

suppliers == <<purchaseInvoice, payment, allocation, paying>>

Supplier == INSTANCE SupplierPayments WITH
  Clients <- Users, Receipts <- Payments, receipt <- payment, req <- paying

InitPurchasing == InitProcurement /\ Supplier!Init
NextPurchasing ==
  \/ NextProcurement /\ UNCHANGED suppliers
  \/ Supplier!Next /\ UNCHANGED procurement
PurchasingSpec == InitPurchasing /\ [][NextPurchasing]_<<procurement, suppliers>>

\* See SupplierPayments: confirmed receipts pay no more of a purchase invoice than
\* it bills, unless one of them is allocated to it twice.
NeverOverpaid == Supplier!NeverOverpaid
=======================================================================
