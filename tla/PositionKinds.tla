---------------------------- MODULE PositionKinds ----------------------------
(* The columns of the ten kinds of position, as each layer of the program     *)
(* names them: the table, the forms with what they require, the insert, the   *)
(* update, the Detail sheet of an export and the reading of that sheet.       *)
(* The program has no list the layers share; a column one of them forgets is  *)
(* lost without an error.  Owner, entry type and tag are not columns here:    *)
(* PositionWorkbook carries them in fields of their own.                      *)

\* The parent tables.
assets == {"display_name", "description", "native_currency"}

investments == {"display_name", "description", "native_currency", "risk_profile"}

liabilities ==
  {"display_name", "description", "native_currency", "subtype", "counterparty_name",
   "principal", "interest_rate", "term_months", "start_date", "maturity_date"}

receivables ==
  {"display_name", "description", "native_currency", "counterparty_name", "due_date"}

\* What the update statements of the parent tables set.
UpdateAssetRow == {"display_name", "description"}

UpdateInvestmentRow == {"display_name", "description", "risk_profile"}

----------------------------------------------------------------------------
(* Bank accounts *)

bank_account_details == {"bank_name", "account_number", "account_type"}

createBankAccountReq ==
  [must |-> {"display_name", "native_currency", "bank_name", "account_number", "account_type"},
   may |-> {"description"}]

updateBankAccountReq ==
  [must |-> {"display_name", "bank_name", "account_number", "account_type"},
   may |-> {"description"}]

CreateBankAccount == assets \cup bank_account_details

UpdateBankAccount == UpdateAssetRow \cup bank_account_details

bankAccountDetailFields == assets \cup bank_account_details

resolveBankAccountDetail == assets \cup bank_account_details

(* Properties *)

property_details ==
  {"property_type", "address", "acquisition_date", "acquisition_cost", "annual_appreciation_rate"}

createPropertyReq ==
  [must |-> {"display_name", "native_currency", "property_type"},
   may |-> {"description", "address", "acquisition_date", "acquisition_cost",
            "annual_appreciation_rate"}]

updatePropertyReq ==
  [must |-> {"display_name", "property_type"},
   may |-> {"description", "address", "acquisition_date", "acquisition_cost",
            "annual_appreciation_rate"}]

CreateProperty == assets \cup property_details

UpdateProperty == UpdateAssetRow \cup property_details

propertyDetailFields == assets \cup property_details

resolvePropertyDetail == assets \cup property_details

(* Vehicles *)

vehicle_details ==
  {"vehicle_type", "make", "model", "year", "plate_number", "annual_depreciation_rate"}

createVehicleReq ==
  [must |-> {"display_name", "native_currency", "vehicle_type"},
   may |-> {"description", "make", "model", "year", "plate_number", "annual_depreciation_rate"}]

\* Broken: the form has no field for the number plate.
updateVehicleReqForgetful ==
  [must |-> {"display_name", "vehicle_type"},
   may |-> {"description", "make", "model", "year", "annual_depreciation_rate"}]

updateVehicleReq ==
  [must |-> {"display_name", "vehicle_type"},
   may |-> {"description", "make", "model", "year", "plate_number", "annual_depreciation_rate"}]

CreateVehicle == assets \cup vehicle_details

UpdateVehicle == UpdateAssetRow \cup vehicle_details

vehicleDetailFields == assets \cup vehicle_details

resolveVehicleDetail == assets \cup vehicle_details

----------------------------------------------------------------------------
(* Liabilities and receivables keep everything in their parent table *)

createLiabilityReq ==
  [must |-> {"display_name", "native_currency", "subtype", "counterparty_name"},
   may |-> {"description", "principal", "interest_rate", "term_months", "start_date",
            "maturity_date"}]

updateLiabilityReq ==
  [must |-> {"display_name", "counterparty_name"},
   may |-> {"description", "principal", "interest_rate", "term_months", "start_date",
            "maturity_date"}]

CreateLiability == liabilities

UpdateLiability == liabilities \ {"native_currency", "subtype"}

liabilityDetailFields == liabilities

resolveLiabilityDetail == liabilities

createReceivableReq ==
  [must |-> {"display_name", "native_currency", "counterparty_name"},
   may |-> {"description", "due_date"}]

updateReceivableReq ==
  [must |-> {"display_name", "counterparty_name"}, may |-> {"description", "due_date"}]

CreateReceivable == receivables

UpdateReceivable == receivables \ {"native_currency"}

receivableDetailFields == receivables

resolveReceivableDetail == receivables

----------------------------------------------------------------------------
(* Stocks.  An investment that is imported has an insert of its own. *)

stock_details == {"ticker", "exchange"}

createStockReq ==
  [must |-> {"display_name", "native_currency", "risk_profile", "ticker", "exchange"},
   may |-> {"description"}]

updateStockReq ==
  [must |-> {"display_name", "risk_profile", "ticker", "exchange"}, may |-> {"description"}]

CreateStock == investments \cup stock_details

UpdateStock == UpdateInvestmentRow \cup stock_details

ExportStock == investments \cup stock_details

resolveStockDetail == investments \cup stock_details

CreateStockWithSnapshotsAndLedger == investments \cup stock_details

(* Mutual funds *)

mutual_fund_details == {"fund_code", "fund_manager", "fund_type"}

createMutualFundReq ==
  [must |-> {"display_name", "native_currency", "risk_profile", "fund_code", "fund_type"},
   may |-> {"description", "fund_manager"}]

updateMutualFundReq ==
  [must |-> {"display_name", "risk_profile", "fund_code", "fund_type"},
   may |-> {"description", "fund_manager"}]

CreateMutualFund == investments \cup mutual_fund_details

UpdateMutualFund == UpdateInvestmentRow \cup mutual_fund_details

ExportMutualFund == investments \cup mutual_fund_details

resolveMutualFundDetail == investments \cup mutual_fund_details

CreateMutualFundWithSnapshotsAndLedger == investments \cup mutual_fund_details

(* Gold *)

gold_details == {"form", "purity"}

createGoldReq ==
  [must |-> {"display_name", "native_currency", "risk_profile", "form", "purity"},
   may |-> {"description"}]

updateGoldReq ==
  [must |-> {"display_name", "risk_profile", "form", "purity"}, may |-> {"description"}]

CreateGold == investments \cup gold_details

UpdateGold == UpdateInvestmentRow \cup gold_details

ExportGold == investments \cup gold_details

resolveGoldDetail == investments \cup gold_details

CreateGoldWithSnapshotsAndLedger == investments \cup gold_details

(* Bonds.  face_value and placement_date are asked of a primary government    *)
(* bond and become its placement Buy; they are columns of no table.           *)

bond_details ==
  {"bond_type", "series_code", "issuer", "coupon_rate", "coupon_frequency",
   "coupon_disposition", "maturity_date"}

createBondReq ==
  [must |-> {"display_name", "native_currency", "risk_profile", "bond_type", "issuer",
             "coupon_rate", "coupon_frequency", "maturity_date"},
   may |-> {"description", "series_code", "coupon_disposition", "face_value", "placement_date"}]

updateBondReq ==
  [must |-> {"display_name", "risk_profile", "bond_type", "issuer", "coupon_rate",
             "coupon_frequency", "maturity_date"},
   may |-> {"description", "series_code", "coupon_disposition"}]

\* required_if=BondType govt_primary
primaryBondReq == {"face_value", "placement_date"}

CreateBond == investments \cup bond_details

UpdateBond == UpdateInvestmentRow \cup bond_details

ExportBond == investments \cup bond_details

\* Broken: the issue's terms are asked of a sheet that does not have them.
resolveBondDetailStrict == [read |-> investments \cup bond_details, drop |-> {}]

\* What is read of the sheet, and the requirements that are dropped.
resolveBondDetail == [read |-> investments \cup bond_details, drop |-> primaryBondReq]

CreateBondWithSnapshotsAndLedger == investments \cup bond_details

(* Time deposits *)

time_deposit_details ==
  {"bank_name", "principal", "interest_rate", "term_months", "placement_date", "maturity_date",
   "rollover_policy"}

createTimeDepositReq ==
  [must |-> {"display_name", "native_currency", "risk_profile", "bank_name", "principal",
             "interest_rate", "term_months", "placement_date", "maturity_date",
             "rollover_policy"},
   may |-> {"description"}]

updateTimeDepositReq ==
  [must |-> {"display_name", "risk_profile", "bank_name", "principal", "interest_rate",
             "term_months", "placement_date", "maturity_date", "rollover_policy"},
   may |-> {"description"}]

CreateTimeDeposit == investments \cup time_deposit_details

UpdateTimeDeposit == UpdateInvestmentRow \cup time_deposit_details

ExportTimeDeposit == investments \cup time_deposit_details

resolveTimeDepositDetail == investments \cup time_deposit_details

CreateTimeDepositWithSnapshotsAndLedger == investments \cup time_deposit_details

----------------------------------------------------------------------------
(* Each kind's handlers, by what they do *)

Layer(form, insert, revision, update, export, resolve, drop, seed) ==
  [form |-> form, insert |-> insert, revision |-> revision, update |-> update,
   export |-> export, resolve |-> resolve, drop |-> drop, seed |-> seed]

AssetLayers ==
  [bank_account |->
     Layer(createBankAccountReq, CreateBankAccount, updateBankAccountReq, UpdateBankAccount,
           bankAccountDetailFields, resolveBankAccountDetail, {}, CreateBankAccount),
   property |->
     Layer(createPropertyReq, CreateProperty, updatePropertyReq, UpdateProperty,
           propertyDetailFields, resolvePropertyDetail, {}, CreateProperty),
   vehicle |->
     Layer(createVehicleReq, CreateVehicle, updateVehicleReq, UpdateVehicle,
           vehicleDetailFields, resolveVehicleDetail, {}, CreateVehicle)]

DebtLayers ==
  [liability |->
     Layer(createLiabilityReq, CreateLiability, updateLiabilityReq, UpdateLiability,
           liabilityDetailFields, resolveLiabilityDetail, {}, CreateLiability),
   receivable |->
     Layer(createReceivableReq, CreateReceivable, updateReceivableReq, UpdateReceivable,
           receivableDetailFields, resolveReceivableDetail, {}, CreateReceivable)]

InvestmentLayers ==
  [stock |->
     Layer(createStockReq, CreateStock, updateStockReq, UpdateStock, ExportStock, resolveStockDetail, {},
           CreateStockWithSnapshotsAndLedger),
   mutual_fund |->
     Layer(createMutualFundReq, CreateMutualFund, updateMutualFundReq, UpdateMutualFund, ExportMutualFund,
           resolveMutualFundDetail, {}, CreateMutualFundWithSnapshotsAndLedger),
   gold |->
     Layer(createGoldReq, CreateGold, updateGoldReq, UpdateGold, ExportGold, resolveGoldDetail, {},
           CreateGoldWithSnapshotsAndLedger),
   bond |->
     Layer(createBondReq, CreateBond, updateBondReq, UpdateBond, ExportBond, resolveBondDetail.read,
           resolveBondDetail.drop, CreateBondWithSnapshotsAndLedger),
   time_deposit |->
     Layer(createTimeDepositReq, CreateTimeDeposit, updateTimeDepositReq, UpdateTimeDeposit, ExportTimeDeposit,
           resolveTimeDepositDetail, {}, CreateTimeDepositWithSnapshotsAndLedger)]

Asset == DOMAIN AssetLayers

Investment == DOMAIN InvestmentLayers

Kind == Asset \cup DOMAIN DebtLayers \cup Investment

Layers(kind) ==
  CASE kind \in Asset -> AssetLayers[kind]
    [] kind \in Investment -> InvestmentLayers[kind]
    [] OTHER -> DebtLayers[kind]

\* The columns of a kind's tables.
Columns(kind) ==
  CASE kind = "liability" -> liabilities
    [] kind = "receivable" -> receivables
    [] kind = "bank_account" -> assets \cup bank_account_details
    [] kind = "property" -> assets \cup property_details
    [] kind = "vehicle" -> assets \cup vehicle_details
    [] kind = "stock" -> investments \cup stock_details
    [] kind = "mutual_fund" -> investments \cup mutual_fund_details
    [] kind = "gold" -> investments \cup gold_details
    [] kind = "bond" -> investments \cup bond_details
    [] kind = "time_deposit" -> investments \cup time_deposit_details

\* The shape of a kind's readings: their columns beside the amount.
shapeForSubtype(kind) ==
  CASE kind \in {"stock", "mutual_fund", "gold"} -> "quantity"
    [] kind \in {"bond", "time_deposit"} -> "accrued"
    [] OTHER -> "amount"

\* The ledger's types of each kind (ADR-0023).
allowedTransactions(kind) ==
  CASE kind = "stock" -> {"buy", "sell", "dividend", "fee"}
    [] kind = "mutual_fund" -> {"buy", "sell", "distribution", "fee"}
    [] kind = "bond" -> {"buy", "sell", "coupon", "fee", "maturity"}
    [] kind = "gold" -> {"buy", "sell", "fee"}
    [] kind = "time_deposit" -> {"maturity"}
    [] OTHER -> {}
=============================================================================
