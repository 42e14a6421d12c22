------------------------------ MODULE Permissions ------------------------------
(***************************************************************************)
(* The permissions the two seed scripts write (prisma/seed.ts and          *)
(* seed.prod.ts), the part of them the Roles screen can change             *)
(* (roles.service), and what each role is given by the demo seed. A        *)
(* permission is a pair <<resource, action>>.                              *)
(***************************************************************************)
EXTENDS Sequences

Resources ==
  {"users", "customers", "vehicles", "visits", "tickets", "inspections", "work_orders",
   "inventory", "parts", "reservations", "purchasing", "purchase_requests",
   "purchase_orders", "suppliers", "goods_receipts", "quotations", "invoices",
   "payments", "expenses", "taxes", "reports", "settings", "audit", "board", "qc",
   "tasks", "services", "branches", "roles", "notifications", "dashboard", "portal"}

Actions ==
  {"view", "create", "update", "delete", "approve", "reject", "assign", "complete",
   "cancel", "receive", "reserve", "release", "transfer", "consume", "refund",
   "export", "send", "manage", "move"}

Generic == Resources \X Actions

\* The reports of one domain have a permission of their own.
ReportDomains == {"reports"} \X {"workshop", "inventory", "finance"}

\* The rows and columns of the Roles screen.
MatrixResources ==
  {"users", "customers", "vehicles", "visits", "inspections", "work_orders", "inventory",
   "purchasing", "quotations", "invoices", "payments", "reports", "settings"}
MatrixActions == {"view", "create", "update", "delete", "approve", "export"}
Matrix == MatrixResources \X MatrixActions

SharedRoles == {"super_admin", "branch_admin", "accountant", "finance_manager", "customer"}
WorkshopRoles ==
  {"reception", "advisor", "workshop_manager", "technician", "quality_controller",
   "store_keeper", "warehouse_manager", "purchasing_officer", "purchasing_manager"}
ManagerOf == [uxb |-> "uxb_manager", tirezone |-> "tires_manager",
              dailycup |-> "cafe_manager"]
ShopManagers == {ManagerOf[a] : a \in DOMAIN ManagerOf}
ShopOperators == {"uxb_advisor", "tires_sales", "cafe_cashier"}
ShopTechnicians == {"uxb_technician", "tires_fitter", "cafe_barista"}
Role == UNION {SharedRoles, WorkshopRoles, ShopManagers, ShopOperators, ShopTechnicians}

Apps == {"promotors", "uxb", "tirezone", "dailycup"}

-----------------------------------------------------------------------------
Own == {"view", "create", "update"}

ReceptionGrants ==
  ({"customers", "vehicles", "visits", "tickets", "dashboard", "notifications"} \X Own)
    \cup {<<"inspections", "view">>, <<"board", "view">>, <<"board", "move">>}

AdvisorGrants ==
  ({"inspections", "visits", "customers", "vehicles", "tickets"}
     \X (Own \cup {"complete", "assign"}))
    \cup ({"quotations"} \X (Own \cup {"send", "approve", "reject"}))
    \cup ({"work_orders", "board", "dashboard"} \X {"view"})

WorkshopManagerGrants ==
  ({"work_orders"} \X (Own \cup {"assign", "complete", "cancel"}))
    \cup ({"visits", "tickets", "tasks", "board"}
            \X (Own \cup {"assign", "complete", "move"}))
    \cup ({"qc"} \X (Own \cup {"approve", "reject"}))
    \cup ({"reports"} \X {"view", "workshop", "export"})
    \cup {<<"dashboard", "view">>}

TechnicianGrants ==
  ({"work_orders"} \X {"view", "update", "complete"})
    \cup ({"tasks"} \X (Own \cup {"complete"}))
    \cup ({"visits", "board", "dashboard"} \X {"view"})

QualityControllerGrants ==
  ({"qc"} \X (Own \cup {"approve", "reject"}))
    \cup ({"visits", "work_orders", "board", "dashboard"} \X {"view"})

StoreKeeperGrants ==
  ({"inventory", "parts", "reservations"}
     \X (Own \cup {"manage", "transfer", "release", "consume", "reserve"}))
    \cup ({"goods_receipts"} \X {"view", "create", "receive"})
    \cup ({"reports"} \X {"view", "inventory", "export"})
    \cup {<<"dashboard", "view">>}

WarehouseManagerGrants ==
  ({"reports"} \X {"view", "inventory", "export"})
    \cup ({"dashboard", "inventory", "parts"} \X {"view"})

EveryReportGrants ==
  {"reports"} \X {"view", "workshop", "inventory", "finance", "export"}

Purchasing == {"suppliers", "purchase_requests", "purchase_orders", "goods_receipts",
               "purchasing"}

PurchasingOfficerGrants ==
  (Purchasing \X (Own \cup {"cancel", "receive"}))
    \cup ({"parts", "inventory", "dashboard"} \X {"view"})

PurchasingManagerGrants ==
  (Purchasing \X (Own \cup {"cancel", "approve", "reject", "receive", "manage"}))
    \cup ({"parts", "inventory", "dashboard"} \X {"view"})

StockViewGrants == {"inventory", "parts", "reservations"} \X {"view"}

AccountantGrants ==
  ({"invoices", "payments", "expenses", "taxes"}
     \X (Own \cup {"delete", "cancel", "manage", "refund", "export"}))
    \cup ({"visits", "customers", "quotations", "dashboard"} \X {"view"})
    \cup ({"reports"} \X {"view", "finance", "export"})
    \cup {<<"visits", "complete">>}

CashierGrants ==
  ({"invoices", "payments", "taxes"} \X {"view"})
    \cup {<<"payments", "create">>, <<"visits", "complete">>}

NotificationGrants == {<<"notifications", "view">>}
Notified == (WorkshopRoles \cup {"accountant", "branch_admin"})

ManagerGrants ==
  {"customers", "vehicles", "visits", "inspections", "work_orders", "inventory", "parts",
   "reservations", "quotations", "invoices", "payments", "expenses", "suppliers",
   "purchase_requests", "purchase_orders", "goods_receipts", "services", "reports",
   "dashboard", "notifications", "board", "tasks"}
    \X (Actions \cup {"workshop", "inventory", "finance"})

OperatorGrants ==
  {"customers", "vehicles", "visits", "inventory", "parts", "quotations", "invoices",
   "payments", "services", "dashboard", "notifications"} \X Own

ShopTechnicianGrants ==
  {"visits", "work_orders", "tasks", "dashboard", "notifications"}
    \X {"view", "update", "complete"}

PortalGrants == {"portal"} \X {"view", "create", "approve", "reject"}

\* The sections of the demo seed, in its order: who is given which of the
\* permissions that exist.
GivesTo(roles, perms) == [roles |-> roles, perms |-> perms]

DemoGrants ==
  <<GivesTo({"super_admin"}, Generic \cup ReportDomains),
    GivesTo({"reception"}, ReceptionGrants),
    GivesTo({"advisor"}, AdvisorGrants),
    GivesTo({"workshop_manager"}, WorkshopManagerGrants),
    GivesTo({"technician"}, TechnicianGrants),
    GivesTo({"quality_controller"}, QualityControllerGrants),
    GivesTo({"store_keeper"}, StoreKeeperGrants),
    GivesTo({"warehouse_manager"}, WarehouseManagerGrants),
    GivesTo({"branch_admin", "finance_manager"}, EveryReportGrants),
    GivesTo({"purchasing_officer"}, PurchasingOfficerGrants),
    GivesTo({"purchasing_manager"}, PurchasingManagerGrants),
    GivesTo({"technician"}, StockViewGrants),
    GivesTo({"accountant"}, AccountantGrants),
    GivesTo({"reception"}, CashierGrants),
    GivesTo(Notified, NotificationGrants),
    GivesTo(ShopManagers, ManagerGrants),
    GivesTo(ShopOperators, OperatorGrants),
    GivesTo(ShopTechnicians, ShopTechnicianGrants),
    GivesTo({"customer"}, PortalGrants)>>

\* The production seed gives to the administrators alone.
ProductionGrants == <<GivesTo({"super_admin"}, Generic \cup ReportDomains)>>
=============================================================================
